------------------------------- MODULE MCBoot -------------------------------
(* Three replicas of two images: one is still of the release before. *)
EXTENDS Boot, TLC

CONSTANTS r1, r2, r3
MCKnown == (r1 :> 3) @@ (r2 :> 3) @@ (r3 :> 2)
=============================================================================
