----------------------------- MODULE BootProofs -----------------------------
(***************************************************************************)
(* Proofs about Boot for any number of replicas, images, databases and     *)
(* faults: the boots upgrade the schema as Deployment promises, and a      *)
(* replica that boots on its own serves.                                   *)
(***************************************************************************)
EXTENDS Boot, TLAPS

Serving == {r \in Replicas : rep[r].pc = "serving"}

(* The recorded versions are the first ones, none left out. *)
Prefix == \E k \in Nat : applied = 1..k

(* What a replica knows where it stands in Migrate and after it. *)
Reached ==
    \A r \in Replicas :
        /\ rep[r].pc \in InMigrate => table /\ 1..(rep[r].at - 1) \subseteq applied
        /\ rep[r].pc \in {"apply", "record", "commit"} => rep[r].at \in 1..Known[r]
        /\ rep[r].pc = "commit" => rep[r].at \notin applied
        /\ rep[r].pc \in InSeed \cup {"serving"} => 1..Known[r] \subseteq applied

(* One open transaction at most has executed a migration. *)
Held ==
    \A r, q \in Replicas :
        /\ r # q
        /\ rep[r].pc \in {"record", "commit"} /\ rep[q].pc \in {"record", "commit"}
        => rep[r].at # rep[q].at

(* The seeds come one after the other. *)
Seeding ==
    \A r \in Replicas :
        /\ rep[r].pc \in {"role", "grant", "serving"} => admin.password # "none"
        /\ rep[r].pc \in {"grant", "serving"} => admin.role
        /\ rep[r].pc = "serving" => admin.grant

(* Nobody boots beside a replica that is alone, nor makes its table or      *)
(* records its version.                                                    *)
Alone ==
    /\ \A r, q \in Replicas :
         r # q /\ rep[r].pc \in Booting /\ rep[q].pc \in Booting => ~rep[r].alone
    /\ \A r \in Replicas :
         /\ rep[r].alone /\ rep[r].pc = "create" => ~table
         /\ rep[r].alone /\ rep[r].pc \in {"apply", "record"} => rep[r].at \notin applied

Inv == TypeOK /\ Prefix /\ Reached /\ Held /\ Seeding /\ Alone /\ LoneBootServes

USE KnownAssumption, DatabasesAssumption, MaxFaultsAssumption
-----------------------------------------------------------------------------
(* The version after a prefix extends it. *)
LEMMA NextVersion ==
    ASSUME NEW k \in Nat, NEW v \in Nat \ {0}, 1..(v - 1) \subseteq 1..k, v \notin 1..k
    PROVE v = k + 1 /\ (1..k) \cup {v} = 1..v
<1>1. v > k
  OBVIOUS
<1>2. v - 1 <= k
  <2>1. CASE v = 1
    BY <2>1
  <2>2. CASE v > 1
    <3>1. v - 1 \in 1..(v - 1)
      BY <2>2
    <3> QED BY <3>1
  <2> QED BY <2>1, <2>2
<1>3. v = k + 1
  BY <1>1, <1>2
<1> QED BY <1>3

(* A step of one replica changes its own record only. *)
LEMMA StepFacts ==
    ASSUME rep \in [Replicas -> Replica], NEW r \in Replicas, NEW p, NEW a, Step(r, p, a)
    PROVE /\ rep'[r].pc = p /\ rep'[r].at = a /\ rep'[r].alone = rep[r].alone
          /\ \A q \in Replicas : q # r => rep'[q] = rep[q]
          /\ p \in {"down", "exited", "serving"} \cup Booting /\ a \in Nat \ {0}
             => rep' \in [Replicas -> Replica]
          /\ DOMAIN rep' = Replicas
BY DEF Step, Replica

(* The set that serves, in terms of a step of one replica. *)
LEMMA ServingAfter ==
    ASSUME rep \in [Replicas -> Replica], NEW r \in Replicas, NEW p, NEW a, Step(r, p, a)
    PROVE Serving' = IF p = "serving" THEN Serving \cup {r} ELSE Serving \ {r}
BY StepFacts DEF Serving

(* The initial states. *)
LEMMA InitInv == Init => Inv
<1> SUFFICES ASSUME Init PROVE Inv
  OBVIOUS
<1>1. /\ applied \subseteq Nat \ {0} /\ Prefix
      /\ table \in BOOLEAN /\ (applied # {} => table)
  BY DEF Init, Prefix
<1>2. TypeOK
  <2>1. admin \in Admin
    <3>1. NotSeeded \in Admin
      BY DEF Admin, NotSeeded
    <3>2. Seeded \in Admin
      BY DEF Admin, Seeded
    <3>3. admin \in {NotSeeded, Seeded}
      BY DEF Init
    <3> QED BY <3>1, <3>2, <3>3
  <2>2. rep \in [Replicas -> Replica]
    BY DEF Init, Replica
  <2>3. \A r \in Replicas : rep[r].pc # "serving"
    BY DEF Init
  <2> QED BY <1>1, <2>1, <2>2, <2>3 DEF Init, TypeOK
<1>3. \A r \in Replicas : rep[r].pc = "down"
  BY DEF Init
<1>4. Reached /\ Held /\ Seeding /\ Alone /\ LoneBootServes
  BY <1>3 DEF Reached, Held, Seeding, Alone, LoneBootServes, Booting, InMigrate, InSeed
<1> QED BY <1>1, <1>2, <1>4 DEF Inv
-----------------------------------------------------------------------------
(* A step of a booting replica that leaves the database and the seeds      *)
(* alone keeps the invariant if what the replica knows is true.            *)
LEMMA QuietStep ==
    ASSUME Inv, NEW r \in Replicas, NEW p \in Booting \cup {"exited"}, NEW a \in Nat \ {0},
           Step(r, p, a), UNCHANGED << applied, objects, admin, faults >>,
           rep[r].pc \in Booting,
           table' \in BOOLEAN, table => table', p \in InMigrate => table',
           p = "create" => ~table',
           p \in InMigrate => 1..(a - 1) \subseteq applied,
           p \in {"apply", "record", "commit"} => a \in 1..Known[r],
           p = "commit" => a \notin applied,
           p \in InSeed => p = "user" /\ 1..Known[r] \subseteq applied,
           p \in {"apply", "record"} /\ rep[r].alone => a \notin applied,
           p = "exited" => ~rep[r].alone,
           p \in {"record", "commit"} =>
             \A q \in Replicas : q # r /\ rep[q].pc \in {"record", "commit"} => rep[q].at # a
    PROVE Inv' /\ Serving' = Serving
<1>0. rep \in [Replicas -> Replica]
  BY DEF Inv, TypeOK
<1>1. /\ rep'[r].pc = p /\ rep'[r].at = a /\ rep'[r].alone = rep[r].alone
      /\ \A q \in Replicas : q # r => rep'[q] = rep[q]
      /\ rep' \in [Replicas -> Replica]
  BY <1>0, StepFacts
<1>2. p # "serving" /\ rep[r].pc # "serving"
  BY DEF Booting, InMigrate, InSeed
<1>3. Serving' = Serving
  BY <1>1, <1>2 DEF Serving
<1>4. TypeOK'
  <2>1. table' \in BOOLEAN /\ (applied' # {} => table')
    BY DEF Inv, TypeOK
  <2> QED BY <1>1, <1>2, <2>1 DEF Inv, TypeOK
<1>5. Prefix'
  BY DEF Inv, Prefix
<1>6. Reached'
  BY <1>1, <1>2 DEF Inv, Reached
<1>7. Held'
  BY <1>1 DEF Inv, Held
<1>8. Seeding'
  BY <1>1, <1>2 DEF Inv, Seeding, InSeed
<1>9. Alone'
  <2>1. \A s, q \in Replicas :
          s # q /\ rep'[s].pc \in Booting /\ rep'[q].pc \in Booting => ~rep'[s].alone
    BY <1>1 DEF Inv, Alone, Booting
  <2>2. ASSUME NEW q \in Replicas, rep'[q].alone, rep'[q].pc = "create"
        PROVE ~table'
    <3>1. CASE q = r
      BY <1>1, <2>2, <3>1
    <3>2. CASE q # r
      BY <1>1, <2>2, <3>2 DEF Inv, Alone, Booting
    <3> QED BY <3>1, <3>2
  <2>3. \A q \in Replicas :
          rep'[q].alone /\ rep'[q].pc \in {"apply", "record"} => rep'[q].at \notin applied'
    BY <1>1 DEF Inv, Alone
  <2> QED BY <2>1, <2>2, <2>3 DEF Alone
<1>10. LoneBootServes'
  BY <1>1 DEF Inv, LoneBootServes
<1> QED BY <1>3, <1>4, <1>5, <1>6, <1>7, <1>8, <1>9, <1>10 DEF Inv

LEMMA EnsureTableInv ==
    ASSUME Inv, NEW r \in Replicas, EnsureTable(r) \/ CreateTable(r)
    PROVE Inv' /\ Serving' = Serving
<1>1. 1..(1 - 1) \subseteq applied /\ table \in BOOLEAN
  BY DEF Inv, TypeOK
<1>2. CASE EnsureTable(r)
  <2>1. CASE table
    BY <1>1, <1>2, <2>1, QuietStep DEF EnsureTable, Booting, InMigrate, InSeed
  <2>2. CASE ~table
    BY <1>1, <1>2, <2>2, QuietStep DEF EnsureTable, Booting, InMigrate, InSeed
  <2> QED BY <2>1, <2>2
<1>3. CASE CreateTable(r)
  <2>1. CASE table
    <3>1. ~rep[r].alone
      BY <1>3, <2>1 DEF CreateTable, Inv, Alone
    <3> QED BY <1>1, <1>3, <2>1, <3>1, QuietStep
            DEF CreateTable, Booting, InMigrate, InSeed
  <2>2. CASE ~table
    BY <1>1, <1>3, <2>2, QuietStep DEF CreateTable, Booting, InMigrate, InSeed
  <2> QED BY <2>1, <2>2
<1> QED BY <1>2, <1>3

LEMMA CheckVersionInv ==
    ASSUME Inv, NEW r \in Replicas, CheckVersion(r)
    PROVE Inv' /\ Serving' = Serving
<1> DEFINE v == rep[r].at
<1>1. v \in Nat \ {0} /\ 1..(v - 1) \subseteq applied /\ rep[r].pc \in Booting
  BY DEF CheckVersion, Inv, TypeOK, Replica, Reached, Booting, InMigrate
<1>2. Known[r] \in Nat
  OBVIOUS
<1>6. table \in BOOLEAN /\ table /\ table' = table
  BY DEF CheckVersion, Inv, TypeOK, Reached, InMigrate
<1>3. CASE v > Known[r]
  <2>1. 1..Known[r] \subseteq applied
    BY <1>1, <1>2, <1>3
  <2>2. Step(r, "user", v)
    BY <1>3 DEF CheckVersion
  <2> QED BY <1>1, <1>6, <2>1, <2>2, QuietStep DEF CheckVersion, Booting, InMigrate, InSeed
<1>4. CASE v <= Known[r] /\ v \in applied
  <2>1. v + 1 \in Nat \ {0} /\ 1..((v + 1) - 1) \subseteq applied
    BY <1>1, <1>4
  <2>2. Step(r, "version", v + 1)
    BY <1>1, <1>2, <1>4 DEF CheckVersion
  <2> HIDE DEF v
  <2> QED BY <1>1, <1>6, <2>1, <2>2, QuietStep DEF CheckVersion, Booting, InMigrate, InSeed
<1>5. CASE v <= Known[r] /\ v \notin applied
  <2>1. Step(r, "apply", v)
    BY <1>1, <1>2, <1>5 DEF CheckVersion
  <2>2. v \in 1..Known[r]
    BY <1>1, <1>2, <1>5
  <2> QED BY <1>1, <1>5, <1>6, <2>1, <2>2, QuietStep DEF CheckVersion, Booting, InMigrate, InSeed
<1> QED BY <1>1, <1>2, <1>3, <1>4, <1>5

LEMMA ApplyInv ==
    ASSUME Inv, NEW r \in Replicas, Apply(r)
    PROVE Inv' /\ Serving' = Serving
<1> DEFINE v == rep[r].at
<1>1. /\ v \in Nat \ {0} /\ 1..(v - 1) \subseteq applied /\ v \in 1..Known[r]
      /\ rep[r].pc \in Booting /\ rep[r].pc = "apply"
      /\ objects = applied
      /\ rep[r].alone => v \notin applied
  BY DEF Apply, Inv, TypeOK, Replica, Reached, Alone, Booting, InMigrate
<1>2. \A q \in Replicas : q # r /\ rep[q].pc \in {"record", "commit"} => rep[q].at # v
  BY DEF Apply, Waits
<1>5. table \in BOOLEAN /\ table /\ table' = table
  BY DEF Apply, Inv, TypeOK, Reached, InMigrate
<1>3. CASE v \in objects \ Repeatable
  <2>1. Step(r, "exited", v) /\ ~rep[r].alone
    BY <1>1, <1>3 DEF Apply
  <2> QED BY <1>1, <1>5, <2>1, QuietStep DEF Apply, Booting, InMigrate, InSeed
<1>4. CASE v \notin objects \ Repeatable
  <2>1. Step(r, "record", v)
    BY <1>4 DEF Apply
  <2> QED BY <1>1, <1>2, <1>5, <2>1, QuietStep DEF Apply, Booting, InMigrate, InSeed
<1> QED BY <1>3, <1>4

LEMMA RecordInv ==
    ASSUME Inv, NEW r \in Replicas, Record(r)
    PROVE Inv' /\ Serving' = Serving
<1> DEFINE v == rep[r].at
<1>1. /\ v \in Nat \ {0} /\ 1..(v - 1) \subseteq applied /\ v \in 1..Known[r]
      /\ rep[r].pc \in Booting /\ rep[r].pc = "record"
      /\ rep[r].alone => v \notin applied
  BY DEF Record, Inv, TypeOK, Replica, Reached, Alone, Booting, InMigrate
<1>2. \A q \in Replicas : q # r /\ rep[q].pc \in {"record", "commit"} => rep[q].at # v
  BY <1>1 DEF Inv, Held
<1>5. table \in BOOLEAN /\ table /\ table' = table
  BY DEF Record, Inv, TypeOK, Reached, InMigrate
<1>3. CASE v \in applied
  <2>1. Step(r, "exited", v) /\ ~rep[r].alone
    BY <1>1, <1>3 DEF Record
  <2> QED BY <1>1, <1>5, <2>1, QuietStep DEF Record, Booting, InMigrate, InSeed
<1>4. CASE v \notin applied
  <2>1. Step(r, "commit", v)
    BY <1>4 DEF Record
  <2> QED BY <1>1, <1>2, <1>4, <1>5, <2>1, QuietStep DEF Record, Booting, InMigrate, InSeed
<1> QED BY <1>3, <1>4
-----------------------------------------------------------------------------
(* The steps that write. *)

LEMMA CommitInv ==
    ASSUME Inv, NEW r \in Replicas, Commit(r)
    PROVE /\ Inv' /\ Serving' = Serving
          /\ rep[r].at \in 1..Known[r]
          /\ applied = 1..(rep[r].at - 1) /\ applied' = 1..rep[r].at
<1> DEFINE v == rep[r].at
<1>1. /\ v \in Nat \ {0} /\ 1..(v - 1) \subseteq applied /\ v \in 1..Known[r]
      /\ rep[r].pc = "commit" /\ v \notin applied
      /\ rep \in [Replicas -> Replica] /\ Step(r, "version", v + 1)
      /\ applied' = applied \cup {v} /\ objects' = applied'
      /\ UNCHANGED << table, admin, faults >> /\ table \in BOOLEAN /\ table
  BY DEF Commit, Inv, TypeOK, Replica, Reached, InMigrate
<1>2. applied = 1..(v - 1) /\ applied' = 1..v
  <2>1. PICK k \in Nat : applied = 1..k
    BY DEF Inv, Prefix
  <2>2. v = k + 1 /\ (1..k) \cup {v} = 1..v
    BY <1>1, <2>1, NextVersion
  <2> QED BY <1>1, <2>1, <2>2
<1>3. /\ rep'[r].pc = "version" /\ rep'[r].at = v + 1 /\ rep'[r].alone = rep[r].alone
      /\ \A q \in Replicas : q # r => rep'[q] = rep[q]
      /\ rep' \in [Replicas -> Replica]
  BY <1>1, StepFacts DEF Booting, InMigrate
<1> HIDE DEF v
<1>4. Serving' = Serving
  BY <1>1, <1>3 DEF Serving
<1>5. TypeOK'
  BY <1>1, <1>3 DEF Inv, TypeOK
<1>6. Prefix'
  BY <1>1, <1>2 DEF Prefix
<1>7. \A q \in Replicas : q # r /\ rep[q].pc \in {"record", "commit"} => rep[q].at # v
  BY <1>1 DEF Inv, Held, v
<1>8. Reached'
  <2> SUFFICES ASSUME NEW q \in Replicas
               PROVE /\ rep'[q].pc \in InMigrate => table' /\ 1..(rep'[q].at - 1) \subseteq applied'
                     /\ rep'[q].pc \in {"apply", "record", "commit"} => rep'[q].at \in 1..Known[q]
                     /\ rep'[q].pc = "commit" => rep'[q].at \notin applied'
                     /\ rep'[q].pc \in InSeed \cup {"serving"} => 1..Known[q] \subseteq applied'
    BY DEF Reached
  <2>1. CASE q = r
    BY <1>1, <1>2, <1>3, <2>1 DEF InSeed
  <2>2. CASE q # r
    <3>1. rep'[q] = rep[q]
      BY <1>3, <2>2
    <3> QED BY <1>1, <1>7, <2>2, <3>1 DEF Inv, Reached
  <2> QED BY <2>1, <2>2
<1>9. Held'
  BY <1>3 DEF Inv, Held
<1>10. Seeding'
  BY <1>1, <1>3 DEF Inv, Seeding
<1>11. Alone'
  <2>1. \A q \in Replicas : q # r /\ rep[q].pc \in Booting => ~rep[q].alone
    BY <1>1 DEF Inv, Alone, Booting, InMigrate
  <2>2. \A p, q \in Replicas :
          p # q /\ rep'[p].pc \in Booting /\ rep'[q].pc \in Booting => ~rep'[p].alone
    BY <1>1, <1>3 DEF Inv, Alone, Booting, InMigrate
  <2>3. \A q \in Replicas :
          rep'[q].alone /\ rep'[q].pc \in {"apply", "record"} => rep'[q].at \notin applied'
    BY <1>3, <2>1 DEF Booting, InMigrate
  <2>4. \A q \in Replicas : ~(rep'[q].alone /\ rep'[q].pc = "create")
    BY <1>3, <2>1 DEF Booting, InMigrate
  <2> QED BY <2>2, <2>3, <2>4 DEF Alone
<1>12. LoneBootServes'
  BY <1>3 DEF Inv, LoneBootServes
<1> QED BY <1>1, <1>2, <1>4, <1>5, <1>6, <1>8, <1>9, <1>10, <1>11, <1>12 DEF Inv, v

(* The three statements of SeedAdmin only add to what is seeded. *)
LEMMA SeedInv ==
    ASSUME Inv, NEW r \in Replicas, SeedUser(r) \/ SeedRole(r) \/ SeedGrant(r)
    PROVE /\ Inv'
          /\ \/ Serving' = Serving
             \/ /\ r \notin Serving /\ Serving' = Serving \cup {r}
                /\ 1..Known[r] \subseteq applied
          /\ UNCHANGED applied
<1> DEFINE next == IF rep[r].pc = "user" THEN "role"
                   ELSE IF rep[r].pc = "role" THEN "grant" ELSE "serving"
<1>1. /\ rep[r].pc \in InSeed /\ Step(r, next, rep[r].at)
      /\ UNCHANGED << table, applied, objects, faults >>
      /\ rep \in [Replicas -> Replica] /\ rep[r].at \in Nat \ {0}
      /\ 1..Known[r] \subseteq applied
  BY DEF SeedUser, SeedRole, SeedGrant, Inv, TypeOK, Replica, Reached, InSeed
<1>2. /\ rep'[r].pc = next /\ rep'[r].at = rep[r].at /\ rep'[r].alone = rep[r].alone
      /\ \A q \in Replicas : q # r => rep'[q] = rep[q]
      /\ rep' \in [Replicas -> Replica]
  BY <1>1, StepFacts DEF Booting, InSeed
<1>3. /\ admin' \in Admin
      /\ admin.password # "none" => admin'.password # "none"
      /\ admin.role => admin'.role
      /\ admin.grant => admin'.grant
      /\ next = "role" => admin'.password # "none"
      /\ next = "grant" => admin'.role
      /\ next = "serving" => admin'.grant
  <2>1. admin \in Admin
    BY DEF Inv, TypeOK
  <2>2. CASE SeedUser(r)
    BY <2>1, <2>2 DEF SeedUser, Admin
  <2>3. CASE SeedRole(r)
    BY <2>1, <2>3 DEF SeedRole, Admin
  <2>4. CASE SeedGrant(r)
    BY <2>1, <2>4 DEF SeedGrant, Admin
  <2> QED BY <2>2, <2>3, <2>4
<1>4. next \in {"role", "grant", "serving"}
  OBVIOUS
<1>5. Seeding'
  <2>1. next = "grant" => rep[r].pc = "role"
    BY <1>1 DEF InSeed
  <2>2. next = "serving" => rep[r].pc = "grant"
    BY <1>1 DEF InSeed
  <2>3. next \in {"grant", "serving"} => admin.password # "none"
    BY <2>1, <2>2 DEF Inv, Seeding
  <2>4. next = "serving" => admin.role
    BY <2>2 DEF Inv, Seeding
  <2> HIDE DEF next
  <2> QED BY <1>2, <1>3, <1>4, <2>3, <2>4 DEF Inv, Seeding
<1>6. TypeOK'
  <2> HIDE DEF next
  <2> QED BY <1>1, <1>2, <1>3, <1>5 DEF Inv, TypeOK, Seeding
<1>7. Reached' /\ Held' /\ Alone' /\ LoneBootServes' /\ Prefix'
  <2> HIDE DEF next
  <2>1. Reached'
    BY <1>1, <1>2, <1>4 DEF Inv, Reached, InMigrate
  <2>2. Held'
    BY <1>2, <1>4 DEF Inv, Held
  <2>3. Alone'
    BY <1>1, <1>2, <1>4 DEF Inv, Alone, Booting
  <2>4. LoneBootServes'
    BY <1>2, <1>4 DEF Inv, LoneBootServes
  <2>5. Prefix'
    BY <1>1 DEF Inv, Prefix
  <2> QED BY <2>1, <2>2, <2>3, <2>4, <2>5
<1>8. r \notin Serving
  BY <1>1 DEF Serving, InSeed
<1>9. Serving' = IF next = "serving" THEN Serving \cup {r} ELSE Serving \ {r}
  BY <1>1, ServingAfter
<1> HIDE DEF next
<1> QED BY <1>1, <1>5, <1>6, <1>7, <1>8, <1>9 DEF Inv
-----------------------------------------------------------------------------
(* The steps that are not the program's. *)

LEMMA StartInv ==
    ASSUME Inv, NEW r \in Replicas, Start(r)
    PROVE Inv' /\ Serving' = Serving /\ UNCHANGED applied
<1>1. /\ rep \in [Replicas -> Replica]
      /\ rep[r].pc \in {"down", "exited"}
      /\ UNCHANGED << table, applied, objects, admin, faults >>
  BY DEF Start, Inv, TypeOK
<1>2. /\ rep'[r].pc = "table" /\ rep'[r].at = 1
      /\ rep'[r].alone = \A p \in Replicas \ {r} : rep[p].pc \notin Booting
      /\ \A q \in Replicas \ {r} :
           rep'[q].pc = rep[q].pc /\ rep'[q].at = rep[q].at /\ ~rep'[q].alone
  BY DEF Start
<1>3. rep' \in [Replicas -> Replica]
  BY <1>1 DEF Start, Replica, Booting
<1>4. Serving' = Serving
  BY <1>1, <1>2 DEF Serving
<1>5. TypeOK'
  BY <1>1, <1>2, <1>3 DEF Inv, TypeOK
<1>6. Reached' /\ Held' /\ Seeding' /\ Prefix' /\ LoneBootServes'
  <2>1. Reached'
    BY <1>1, <1>2 DEF Inv, Reached, InMigrate, InSeed
  <2>2. Held'
    BY <1>2 DEF Inv, Held
  <2>3. Seeding'
    BY <1>1, <1>2 DEF Inv, Seeding
  <2>4. Prefix'
    BY <1>1 DEF Inv, Prefix
  <2>5. LoneBootServes'
    BY <1>2 DEF LoneBootServes
  <2> QED BY <2>1, <2>2, <2>3, <2>4, <2>5
<1>7. Alone'
  BY <1>2 DEF Alone
<1> QED BY <1>1, <1>4, <1>5, <1>6, <1>7 DEF Inv

LEMMA ChangePasswordInv ==
    ASSUME Inv, NEW r \in Replicas, ChangePassword(r)
    PROVE Inv' /\ Serving' = Serving /\ UNCHANGED applied
<1>1. /\ UNCHANGED << table, applied, objects, rep, faults >>
      /\ admin'.password = "changed" /\ admin'.role = admin.role
      /\ admin'.grant = admin.grant /\ admin' \in Admin
  BY DEF ChangePassword, Inv, TypeOK, Admin
<1>2. TypeOK' /\ Seeding'
  BY <1>1 DEF Inv, TypeOK, Seeding
<1>3. Prefix' /\ Reached' /\ Held' /\ Alone' /\ LoneBootServes' /\ Serving' = Serving
  BY <1>1 DEF Inv, Prefix, Reached, Held, Alone, LoneBootServes, Serving
<1> QED BY <1>1, <1>2, <1>3 DEF Inv

LEMMA FaultInv ==
    ASSUME Inv, NEW r \in Replicas, Fault(r)
    PROVE /\ Inv'
          /\ Serving' = Serving \/ (r \in Serving /\ Serving' = Serving \ {r})
          /\ UNCHANGED applied
<1>1. /\ rep \in [Replicas -> Replica]
      /\ rep' = [rep EXCEPT ![r] = [pc |-> "exited", at |-> rep[r].at, alone |-> FALSE]]
      /\ UNCHANGED << table, applied, objects, admin >> /\ faults' \in Nat
  BY DEF Fault, Inv, TypeOK
<1>2. /\ rep'[r].pc = "exited" /\ ~rep'[r].alone
      /\ \A q \in Replicas : q # r => rep'[q] = rep[q]
      /\ rep' \in [Replicas -> Replica]
  BY <1>1 DEF Replica
<1>3. TypeOK' /\ Prefix'
  BY <1>1, <1>2 DEF Inv, TypeOK, Prefix
<1>4. Reached' /\ Held' /\ Seeding'
  <2>1. Reached'
    BY <1>1, <1>2 DEF Inv, Reached, InMigrate, InSeed
  <2>2. Held' /\ Seeding'
    BY <1>1, <1>2 DEF Inv, Held, Seeding
  <2> QED BY <2>1, <2>2
<1>5. Alone' /\ LoneBootServes'
  <2>1. Alone'
    BY <1>1, <1>2 DEF Inv, Alone, Booting, InMigrate, InSeed
  <2>2. LoneBootServes'
    BY <1>2 DEF Inv, LoneBootServes
  <2> QED BY <2>1, <2>2
<1>6. Serving' = Serving \ {r}
  BY <1>2 DEF Serving
<1> QED BY <1>1, <1>3, <1>4, <1>5, <1>6 DEF Inv
-----------------------------------------------------------------------------
(* Every step keeps the invariant and is a step of Deployment or none.     *)
LEMMA StepInv ==
    ASSUME Inv, [Next]_vars
    PROVE Inv' /\ [Schema!Next]_(Schema!vars)
<1> DEFINE Quiet == Serving' = Serving /\ UNCHANGED applied
<1>0. Quiet => [Schema!Next]_(Schema!vars)
  BY DEF Schema!vars, Serving
<1>1. CASE UNCHANGED vars
  <2>1. Inv'
    BY <1>1 DEF vars, Inv, TypeOK, Prefix, Reached, Held, Seeding, Alone, LoneBootServes
  <2> QED BY <1>0, <1>1, <2>1 DEF vars, Serving
<1>2. ASSUME NEW r \in Replicas, Start(r) \/ Proceed(r) \/ ChangePassword(r) \/ Fault(r)
      PROVE Inv' /\ [Schema!Next]_(Schema!vars)
  <2>1. CASE Start(r) \/ ChangePassword(r)
    BY <1>0, <2>1, StartInv, ChangePasswordInv
  <2>2. CASE EnsureTable(r) \/ CreateTable(r) \/ CheckVersion(r)
    BY <1>0, <2>2, EnsureTableInv, CheckVersionInv
       DEF EnsureTable, CreateTable, CheckVersion
  <2>3. CASE Apply(r) \/ Record(r)
    BY <1>0, <2>3, ApplyInv, RecordInv DEF Apply, Record
  <2>4. CASE Commit(r)
    <3>1. /\ Inv' /\ Serving' = Serving
          /\ rep[r].at \in 1..Known[r]
          /\ applied = 1..(rep[r].at - 1) /\ applied' = 1..rep[r].at
      BY <2>4, CommitInv
    <3>2. Schema!Upgrade(rep[r].at)
      BY <3>1 DEF Schema!Upgrade, Serving
    <3> QED BY <3>1, <3>2 DEF Schema!Next
  <2>5. CASE SeedUser(r) \/ SeedRole(r) \/ SeedGrant(r)
    <3>1. /\ Inv'
          /\ \/ Serving' = Serving
             \/ /\ r \notin Serving /\ Serving' = Serving \cup {r}
                /\ 1..Known[r] \subseteq applied
          /\ UNCHANGED applied
      BY <2>5, SeedInv
    <3>2. CASE Serving' = Serving
      BY <1>0, <3>1, <3>2
    <3>3. CASE /\ r \notin Serving /\ Serving' = Serving \cup {r}
               /\ 1..Known[r] \subseteq applied
      <4>1. Schema!StartServing(r)
        BY <3>1, <3>3 DEF Schema!StartServing, Serving
      <4> QED BY <3>1, <4>1 DEF Schema!Next
    <3> QED BY <3>1, <3>2, <3>3
  <2>6. CASE Fault(r)
    <3>1. /\ Inv' /\ UNCHANGED applied
          /\ Serving' = Serving \/ (r \in Serving /\ Serving' = Serving \ {r})
      BY <2>6, FaultInv
    <3>2. CASE Serving' = Serving
      BY <1>0, <3>1, <3>2
    <3>3. CASE r \in Serving /\ Serving' = Serving \ {r}
      <4>1. Schema!Stop(r)
        BY <3>1, <3>3 DEF Schema!Stop, Serving
      <4> QED BY <3>1, <4>1 DEF Schema!Next
    <3> QED BY <3>1, <3>2, <3>3
  <2> QED BY <1>2, <2>1, <2>2, <2>3, <2>4, <2>5, <2>6 DEF Proceed
<1> QED BY <1>1, <1>2 DEF Next

(* Whatever replicas, images, databases and faults: the state keeps its    *)
(* form, the tables exist exactly if they are recorded, and a replica that *)
(* serves finds its administrator (migrate.go:31-62, main.go:65-77).       *)
THEOREM BootTypeCorrect == Spec => []TypeOK
<1>1. Init => Inv
  BY InitInv
<1>2. Inv /\ [Next]_vars => Inv'
  BY StepInv
<1>3. Inv => TypeOK
  BY DEF Inv
<1> QED BY <1>1, <1>2, <1>3, PTL DEF Spec

(* A replica that boots on its own and meets no fault serves, whatever     *)
(* crashed or lost a race before it ("Safe to run on every boot").         *)
THEOREM LoneBootsServe == Spec => []LoneBootServes
<1>1. Init => Inv
  BY InitInv
<1>2. Inv /\ [Next]_vars => Inv'
  BY StepInv
<1>3. Inv => LoneBootServes
  BY DEF Inv
<1> QED BY <1>1, <1>2, <1>3, PTL DEF Spec

(* However many replicas of whatever images boot at once and crash: the    *)
(* schema advances one migration at a time, in order, and nobody serves on *)
(* a schema that lacks a migration of its image.                           *)
THEOREM BootsUpgradeInOrder == Spec => UpgradesInOrder
<1>1. Init => Inv
  BY InitInv
<1>2. Inv /\ [Next]_vars => Inv'
  BY StepInv
<1>3. Init => Schema!Init
  BY DEF Init, Schema!Init
<1>4. Inv /\ [Next]_vars => [Schema!Next]_(Schema!vars)
  BY StepInv
<1> QED BY <1>1, <1>2, <1>3, <1>4, PTL DEF Spec, UpgradesInOrder, Schema!Spec

(* No boot resets the password the administrator chose (store.go:257-262). *)
THEOREM PasswordSurvives == Spec => PasswordKept
<1>1. Init => Inv
  BY InitInv
<1>2. Inv /\ [Next]_vars => Inv'
  BY StepInv
<1>3. Inv /\ [Next]_vars => (admin.password = "changed" => admin'.password = "changed")
  <2> SUFFICES ASSUME Inv, [Next]_vars, admin.password = "changed"
               PROVE admin'.password = "changed"
    OBVIOUS
  <2>0. admin \in Admin
    BY DEF Inv, TypeOK
  <2>1. CASE UNCHANGED vars
    BY <2>1 DEF vars
  <2>2. ASSUME NEW r \in Replicas, SeedUser(r) \/ SeedRole(r) \/ SeedGrant(r)
        PROVE admin'.password = "changed"
    BY <2>0, <2>2 DEF SeedUser, SeedRole, SeedGrant, Admin
  <2>3. ASSUME NEW r \in Replicas, Start(r) \/ ChangePassword(r) \/ Fault(r)
        PROVE admin'.password = "changed"
    BY <2>3 DEF Start, ChangePassword, Fault
  <2>4. ASSUME NEW r \in Replicas, EnsureTable(r) \/ CreateTable(r) \/ CheckVersion(r)
                                   \/ Apply(r) \/ Record(r) \/ Commit(r)
        PROVE admin'.password = "changed"
    BY <2>4 DEF EnsureTable, CreateTable, CheckVersion, Apply, Record, Commit
  <2> QED BY <2>1, <2>2, <2>3, <2>4 DEF Next, Proceed
<1> QED BY <1>1, <1>2, <1>3, PTL DEF Spec, PasswordKept
=============================================================================
