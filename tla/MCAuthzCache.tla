---------------------------- MODULE MCAuthzCache ----------------------------
(* TLC instances of AuthzCache: requests are model values. *)
EXTENDS AuthzCache, TLC

\* Requests of a kind are interchangeable (safety runs only).
Symmetry == Permutations(Checks) \cup Permutations(Mutators)
=============================================================================
