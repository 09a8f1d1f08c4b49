--------------------------- MODULE MCRateLimiter ----------------------------
(* Instances of RateLimiter for TLC.                                       *)
EXTENDS RateLimiter, TLC

Interchangeable == Permutations(Callers) \union Permutations(Keys)
=============================================================================
