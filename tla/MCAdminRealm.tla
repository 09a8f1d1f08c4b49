---------------------------- MODULE MCAdminRealm ----------------------------
(* Instances of AdminRealm for TLC.  Operators, requests and tokens are    *)
(* each interchangeable.                                                   *)
EXTENDS AdminRealm, TLC

Interchangeable ==
    Permutations(Operators) \union Permutations(Requests) \union Permutations(Tokens)
=============================================================================
