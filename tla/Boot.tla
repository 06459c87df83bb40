-------------------------------- MODULE Boot --------------------------------
(***************************************************************************)
(* How the replicas of services/auth and services/catalog boot on one      *)
(* database: Migrate applies the migrations the database lacks, each in a  *)
(* transaction with the row that records it, and auth then seeds its       *)
(* administrator with three statements of their own (catalog goes straight *)
(* to serving).  An error of any statement ends the process; no policy of  *)
(* the deployment starts it again, a person may.                           *)
(***************************************************************************)
EXTENDS Integers

CONSTANTS
    Replicas,   \* the processes of one service
    Known,      \* [Replicas -> Nat]: how many migrations the image of each has
    Databases,  \* how many migrations the database can have before
    Repeatable, \* the migrations whose statements do not fail a second time
    MaxFaults   \* bound: failing statements and killed processes

ASSUME KnownAssumption == Known \in [Replicas -> Nat]
ASSUME DatabasesAssumption == Databases \subseteq Nat
ASSUME MaxFaultsAssumption == MaxFaults \in Nat

VARIABLES
    table,      \* whether giti_migrations exists
    applied,    \* the rows of giti_migrations
    objects,    \* the migrations whose tables and columns exist
    admin,      \* the seeds: the password, the role, the grant of the role
    rep,        \* [Replicas -> Replica]
    faults      \* what is left of MaxFaults

vars == << table, applied, objects, admin, rep, faults >>

\* "apply": found missing; "record": statements executed, not committed.
InMigrate == {"version", "apply", "record", "commit"}
InSeed == {"user", "role", "grant"}
Booting == {"table", "create"} \cup InMigrate \cup InSeed

\* at: the version in hand; alone: no other replica booted meanwhile, no fault.
Replica == [pc : {"down", "exited", "serving"} \cup Booting,
            at : Nat \ {0}, alone : BOOLEAN]
Admin == [password : {"none", "default", "changed"}, role : BOOLEAN, grant : BOOLEAN]

NotSeeded == [password |-> "none", role |-> FALSE, grant |-> FALSE]
Seeded == [password |-> "changed", role |-> TRUE, grant |-> TRUE]

Init ==
    /\ \E k \in Databases : applied = 1..k
    /\ table \in BOOLEAN /\ (applied # {} => table)
    /\ objects = applied
    /\ admin \in {NotSeeded, Seeded} /\ (applied = {} => admin = NotSeeded)
    /\ rep = [r \in Replicas |-> [pc |-> "down", at |-> 1, alone |-> TRUE]]
    /\ faults = MaxFaults

Step(r, pc, at) ==
    rep' = [rep EXCEPT ![r] = [pc |-> pc, at |-> at, alone |-> rep[r].alone]]
-----------------------------------------------------------------------------
(* A boot begins: whoever boots meanwhile is no longer alone. *)
Start(r) ==
    /\ rep[r].pc \in {"down", "exited"}
    /\ rep' = [q \in Replicas |->
                 IF q = r
                 THEN [pc |-> "table", at |-> 1,
                       alone |-> \A p \in Replicas \ {r} : rep[p].pc \notin Booting]
                 ELSE [pc |-> rep[q].pc, at |-> rep[q].at, alone |-> FALSE]]
    /\ UNCHANGED << table, applied, objects, admin, faults >>

\* CREATE TABLE IF NOT EXISTS giti_migrations: the table is looked for first,
EnsureTable(r) ==
    /\ rep[r].pc = "table"
    /\ Step(r, IF table THEN "version" ELSE "create", 1)
    /\ UNCHANGED << table, applied, objects, admin, faults >>

\* and who finds it made meanwhile fails on a key of the system catalog.
CreateTable(r) ==
    /\ rep[r].pc = "create"
    /\ table' = TRUE
    /\ Step(r, IF table THEN "exited" ELSE "version", 1)
    /\ UNCHANGED << applied, objects, admin, faults >>

\* Slip: a version that is recorded ends the boot as an error would
CheckVersionFails(r) ==
    /\ rep[r].pc = "version"
    /\ IF rep[r].at > Known[r] THEN Step(r, "user", rep[r].at)
       ELSE IF rep[r].at \in applied THEN Step(r, "exited", rep[r].at)
       ELSE Step(r, "apply", rep[r].at)
    /\ UNCHANGED << table, applied, objects, admin, faults >>

\* Slip: the versions after the first missing one are taken for missing, too
CheckVersionSkips(r) ==
    /\ rep[r].pc = "version"
    /\ IF rep[r].at >= Known[r] THEN Step(r, "user", rep[r].at)
       ELSE IF rep[r].at \in applied THEN Step(r, "version", rep[r].at + 1)
       ELSE Step(r, "apply", rep[r].at)
    /\ UNCHANGED << table, applied, objects, admin, faults >>

\* SELECT EXISTS of the version in hand, in the order of the file names
CheckVersion(r) ==
    /\ rep[r].pc = "version"
    /\ IF rep[r].at > Known[r] THEN Step(r, "user", rep[r].at)
       ELSE IF rep[r].at \in applied THEN Step(r, "version", rep[r].at + 1)
       ELSE Step(r, "apply", rep[r].at)
    /\ UNCHANGED << table, applied, objects, admin, faults >>

\* The statements of a migration wait for an open transaction that executed them.
Waits(r) ==
    \E q \in Replicas \ {r} : rep[q].pc \in {"record", "commit"} /\ rep[q].at = rep[r].at

\* Slip: the statements run outside the transaction
ApplyAtOnce(r) ==
    /\ rep[r].pc = "apply" /\ ~Waits(r)
    /\ objects' = objects \cup {rep[r].at}
    /\ IF rep[r].at \in objects \ Repeatable THEN Step(r, "exited", rep[r].at)
       ELSE Step(r, "record", rep[r].at)
    /\ UNCHANGED << table, applied, admin, faults >>

\* Begin and the statements of the file, which fail on what another committed
Apply(r) ==
    /\ rep[r].pc = "apply" /\ ~Waits(r)
    /\ IF rep[r].at \in objects \ Repeatable THEN Step(r, "exited", rep[r].at)
       ELSE Step(r, "record", rep[r].at)
    /\ UNCHANGED << table, applied, objects, admin, faults >>

\* INSERT INTO giti_migrations, whose key is the version
Record(r) ==
    /\ rep[r].pc = "record"
    /\ Step(r, IF rep[r].at \in applied THEN "exited" ELSE "commit", rep[r].at)
    /\ UNCHANGED << table, applied, objects, admin, faults >>

Commit(r) ==
    /\ rep[r].pc = "commit"
    /\ applied' = applied \cup {rep[r].at}
    /\ objects' = objects \cup {rep[r].at}
    /\ Step(r, "version", rep[r].at + 1)
    /\ UNCHANGED << table, admin, faults >>
-----------------------------------------------------------------------------
(* SeedAdmin: three statements, each ON CONFLICT DO NOTHING.               *)

\* Slip: the seed sets the password of a user that exists
SeedUserUpsert(r) ==
    /\ rep[r].pc = "user"
    /\ admin' = [admin EXCEPT !.password = "default"]
    /\ Step(r, "role", rep[r].at)
    /\ UNCHANGED << table, applied, objects, faults >>

SeedUser(r) ==
    /\ rep[r].pc = "user"
    /\ admin' = [admin EXCEPT !.password = IF @ = "none" THEN "default" ELSE @]
    /\ Step(r, "role", rep[r].at)
    /\ UNCHANGED << table, applied, objects, faults >>

SeedRole(r) ==
    /\ rep[r].pc = "role"
    /\ admin' = [admin EXCEPT !.role = TRUE]
    /\ Step(r, "grant", rep[r].at)
    /\ UNCHANGED << table, applied, objects, faults >>

SeedGrant(r) ==
    /\ rep[r].pc = "grant"
    /\ admin' = [admin EXCEPT !.grant = TRUE]
    /\ Step(r, "serving", rep[r].at)
    /\ UNCHANGED << table, applied, objects, faults >>
-----------------------------------------------------------------------------
(* The administrator follows the log's advice at a replica that serves. *)
ChangePassword(r) ==
    /\ rep[r].pc = "serving"
    /\ admin.password = "default"
    /\ admin' = [admin EXCEPT !.password = "changed"]
    /\ UNCHANGED << table, applied, objects, rep, faults >>

(* A statement fails or the process is killed; its transaction is undone. *)
Fault(r) ==
    /\ rep[r].pc \in {"serving"} \cup Booting /\ faults > 0
    /\ faults' = faults - 1
    /\ rep' = [rep EXCEPT ![r] = [pc |-> "exited", at |-> rep[r].at, alone |-> FALSE]]
    /\ UNCHANGED << table, applied, objects, admin >>

Proceed(r) ==
    \/ EnsureTable(r) \/ CreateTable(r) \/ CheckVersion(r)
    \/ Apply(r) \/ Record(r) \/ Commit(r)
    \/ SeedUser(r) \/ SeedRole(r) \/ SeedGrant(r)

Next == \E r \in Replicas : Start(r) \/ Proceed(r) \/ ChangePassword(r) \/ Fault(r)

Spec == Init /\ [][Next]_vars

(* A process runs; every replica is started once, as "up --scale" does.    *)
FirstStart(r) == rep[r].pc = "down" /\ Start(r)
FairSpec == Spec /\ \A r \in Replicas : WF_vars(Proceed(r)) /\ WF_vars(FirstStart(r))
-----------------------------------------------------------------------------
(* The state has its form; the tables of a migration exist exactly if its  *)
(* version is recorded (both are written by one transaction) and somebody  *)
(* has made the table of versions, and who serves finds the administrator  *)
(* seeded (main.go:74).                                                    *)
TypeOK ==
    /\ table \in BOOLEAN /\ (applied # {} => table)
    /\ applied \subseteq Nat \ {0} /\ objects = applied
    /\ admin \in Admin /\ faults \in Nat
    /\ rep \in [Replicas -> Replica]
    /\ \A r \in Replicas : rep[r].pc = "serving" =>
         admin.password # "none" /\ admin.role /\ admin.grant

(* A replica that boots on its own ends only by a fault of its own: no     *)
(* crash, at whatever statement, and no boot before it leaves a database   *)
(* the next boot fails on ("Safe to run on every boot", migrate.go:16).    *)
LoneBootServes == \A r \in Replicas : rep[r].pc = "exited" => ~rep[r].alone

(* However many replicas boot at once on whatever database, at least one   *)
(* gets through when nothing fails, although the losers of the race for    *)
(* the table or a migration exit (main.go:65-68): they never all lose.                    *)
SomeReplicaServes ==
    [](faults = MaxFaults) => <>(\E r \in Replicas : rep[r].pc = "serving")

(* The password the administrator chose survives every later boot.         *)
PasswordKept == [][admin.password = "changed" => admin'.password = "changed"]_vars

(* The boots of all replicas together upgrade the schema one migration at  *)
(* a time, in order, and nobody serves on a schema that lacks one.         *)
Schema == INSTANCE Deployment WITH
    schema <- applied, serving <- {r \in Replicas : rep[r].pc = "serving"}
UpgradesInOrder == Schema!Spec
=============================================================================
