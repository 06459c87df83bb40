---------------------------- MODULE MCTileCache ----------------------------
(* TLC instances of TileCache: tiles, tasks and replicas are model values. *)
EXTENDS TileCache, TLC

\* The requests and the replicas are interchangeable (safety runs only).
Symmetry == Permutations(Servers) \cup Permutations(Replicas)
=============================================================================
