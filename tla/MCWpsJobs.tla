----------------------------- MODULE MCWpsJobs -----------------------------
(* TLC instances of WpsJobs: jobs and replicas are model values. *)
EXTENDS WpsJobs, TLC

\* Replicas that are all connected are interchangeable (safety runs only).
Symmetry == Permutations(Replicas)
=============================================================================
