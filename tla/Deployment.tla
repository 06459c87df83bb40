---------------------------- MODULE Deployment ----------------------------
(***************************************************************************)
(* What the migrations of services/catalog and services/auth promise: the  *)
(* schema only ever advances, by one migration at a time, and a replica    *)
(* serves only on a schema that has every migration of its image.          *)
(***************************************************************************)
EXTENDS Integers

CONSTANTS
    Replicas,   \* the processes of one service
    Known,      \* [Replicas -> Nat]: how many migrations the image of each has
    Databases   \* how many migrations the database can have before

VARIABLES
    schema,     \* the versions of the migrations that are in force
    serving     \* the replicas that answer requests

vars == << schema, serving >>

Init == (\E k \in Databases : schema = 1..k) /\ serving = {}

Upgrade(v) ==
    /\ schema = 1..(v - 1)
    /\ schema' = 1..v
    /\ UNCHANGED serving

StartServing(r) ==
    /\ r \notin serving /\ 1..Known[r] \subseteq schema
    /\ serving' = serving \cup {r}
    /\ UNCHANGED schema

Stop(r) ==
    /\ r \in serving
    /\ serving' = serving \ {r}
    /\ UNCHANGED schema

Next ==
    \E r \in Replicas :
        \/ \E v \in 1..Known[r] : Upgrade(v)
        \/ StartServing(r)
        \/ Stop(r)

Spec == Init /\ [][Next]_vars
=============================================================================
