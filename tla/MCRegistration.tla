--------------------------- MODULE MCRegistration ---------------------------
(* Instances of Registration for TLC.  Registrations, connections and      *)
(* admin requests are interchangeable; the symmetry is for the run without *)
(* a liveness property.                                                    *)
EXTENDS Registration, TLC

Interchangeable == Permutations(Visitors) \union Permutations(Conns) \union Permutations(Admins)
=============================================================================
