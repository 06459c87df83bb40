------------------------------- MODULE WfsLocks -------------------------------
(***************************************************************************)
(* LockFeature and Transaction of services/wfs.                            *)
(*                                                                         *)
(* LockFeature resolves the features a filter selects and then, under a    *)
(* mutex, puts them with an expiry into a map of this process.  A          *)
(* Transaction runs its operations one by one, each on its own connection  *)
(* of the pool: an Update or Delete resolves the features its filter       *)
(* selects, checks them against the map under the mutex, leaves the mutex  *)
(* and then executes its statement, whose filter is evaluated anew.        *)
(***************************************************************************)
EXTENDS Integers, Sequences, FiniteSets

CONSTANTS
    Layers,         \* the layers, each of one store
    TableOf,        \* [Layers -> table names]: what e.table and l.Table hold
    Ids,            \* values of the tables' id column
    Vals,           \* values of their one other column
    Replicas,       \* wfs processes
    Lockers,        \* LockFeature requests
    LockFilters,    \* the filters they come with
    Minutes,        \* the expiry parameters they come with
    Txs,            \* clients, each with one transaction
    Scripts,        \* the transactions: sequences of operations
    LockIds,        \* lock ids (random in the code, so never reused)
    NoLock,         \* a Transaction without lockId, a request without a lock
    MaxDbErrors,    \* bound: failing queries and statements
    MaxRestarts     \* bound: restarts of a process

Filter == [ids : SUBSET Ids, vals : SUBSET Vals]

\* Insert uses id and val; Update filter and val; Delete filter.
Op == [kind : {"Insert", "Update", "Delete"}, layer : Layers, filter : Filter,
       id : Ids, val : Vals]

ASSUME TableAssumption == Layers # {} /\ DOMAIN TableOf = Layers
ASSUME FiltersAssumption == LockFilters \subseteq Filter
ASSUME MinutesAssumption == Minutes \subseteq Int
ASSUME ScriptsAssumption == Scripts \subseteq Seq(Op) \ {<< >>}
ASSUME NoLockAssumption == NoLock \notin LockIds
ASSUME BudgetAssumption == MaxDbErrors \in Nat /\ MaxRestarts \in Nat

VARIABLES
    rows,       \* [Layers -> [Ids -> Vals \cup {"absent"}]]: the tables
    lock,       \* [LockIds -> Lock]: what each lock entry holds
    lockStore,  \* [Replicas -> SUBSET LockIds]: the entries of each map
    locker,     \* [Lockers -> Locker]: the LockFeature requests
    tx,         \* [Txs -> Tx]: the Transaction requests
    budget      \* what is left of the bounds on errors and restarts

vars == << rows, lock, lockStore, locker, tx, budget >>

-----------------------------------------------------------------------------
(* Types.                                                                  *)

\* lockExpiry: five minutes when the parameter is not positive.
lockExpiry(min) == IF min <= 0 THEN 5 ELSE min

\* left: the minutes to expires; -1 once expires.Before(now), or never issued.
Lock == [layer : Layers, ids : SUBSET Ids, left : Int]

Locker == [pc : {"new", "count", "select", "store", "answered", "failed"},
           at : Replicas, layer : Layers, filter : Filter, minutes : Int,
           ids : SUBSET Ids, lockId : LockIds \cup {NoLock}]

\* held: the locks that were in this replica's map, unexpired, when the current
\* operation began.
Tx == [pc : {"new", "op", "check", "exec", "refused", "failed", "done"},
       at : Replicas, script : Seq(Op), i : Nat, lockId : LockIds \cup {NoLock},
       target : SUBSET Ids, held : SUBSET LockIds]

Issued == {k \in LockIds : \E q \in Lockers : locker[q].lockId = k}
Active(k) == lock[k].left >= 0
TableOfLock(k) == TableOf[lock[k].layer]

\* The rows of a layer a filter selects.
Selected(l, f) == {i \in f.ids : rows[l][i] \in f.vals}

CurOp(c) == tx[c].script[tx[c].i]

Init ==
    /\ rows \in [Layers -> [Ids -> Vals \cup {"absent"}]]
    /\ lock = [k \in LockIds |-> [layer |-> CHOOSE l \in Layers : TRUE,
                                  ids |-> {}, left |-> -1]]
    /\ lockStore = [r \in Replicas |-> {}]
    /\ locker \in [Lockers -> [pc : {"new"}, at : Replicas, layer : Layers,
                               filter : LockFilters, minutes : Minutes,
                               ids : {{}}, lockId : {NoLock}]]
    /\ tx \in [Txs -> [pc : {"new"}, at : Replicas, script : Scripts, i : {1},
                       lockId : {NoLock}, target : {{}}, held : {{}}]]
    /\ budget = [errors |-> MaxDbErrors, restarts |-> MaxRestarts]

DbError ==
    /\ budget.errors > 0
    /\ budget' = [budget EXCEPT !.errors = @ - 1]

-----------------------------------------------------------------------------
(* lockFeature.                                                            *)

\* The number in the answer is counted first, by a query of its own.
LockFeature(q) ==
    /\ locker[q].pc = "new"
    /\ locker' = [locker EXCEPT ![q].pc = "count"]
    /\ UNCHANGED << rows, lock, lockStore, tx, budget >>

countMatched(q) ==
    /\ locker[q].pc = "count"
    /\ \/ /\ locker' = [locker EXCEPT ![q].pc = "select"]
          /\ UNCHANGED budget
       \/ /\ locker' = [locker EXCEPT ![q].pc = "failed"]
          /\ DbError
    /\ UNCHANGED << rows, lock, lockStore, tx >>

\* lockedIDs; an error of the query is taken for "nothing to track".
lockedIDs(q) ==
    /\ locker[q].pc = "select"
    /\ \/ /\ locker' = [locker EXCEPT ![q].pc = "store",
                          ![q].ids = Selected(locker[q].layer, locker[q].filter)]
          /\ UNCHANGED budget
       \/ /\ locker' = [locker EXCEPT ![q].pc = "store", ![q].ids = {}]
          /\ DbError
    /\ UNCHANGED << rows, lock, lockStore, tx >>

\* Under lockMu.  No lock that is already there is looked at.
StoreLock(q) ==
    /\ locker[q].pc = "store"
    /\ \E k \in LockIds \ Issued :
         /\ lock' = [lock EXCEPT ![k] = [layer |-> locker[q].layer,
                                         ids |-> locker[q].ids,
                                         left |-> lockExpiry(locker[q].minutes)]]
         /\ lockStore' = [lockStore EXCEPT ![locker[q].at] = @ \cup {k}]
         /\ locker' = [locker EXCEPT ![q].pc = "answered", ![q].lockId = k]
    /\ UNCHANGED << rows, tx, budget >>

\* A minute passes.
Tick ==
    /\ \E k \in LockIds : Active(k)
    /\ lock' = [k \in LockIds |-> IF Active(k)
                                  THEN [lock[k] EXCEPT !.left = @ - 1]
                                  ELSE lock[k]]
    /\ UNCHANGED << rows, lockStore, locker, tx, budget >>

-----------------------------------------------------------------------------
(* transaction.                                                            *)

othersOfTx == << rows, lock, lockStore, locker, budget >>

\* The client sends the transaction with no lockId or with one it was given.
Transaction(c) ==
    /\ tx[c].pc = "new"
    /\ \E k \in Issued \cup {NoLock} :
         tx' = [tx EXCEPT ![c].pc = "op", ![c].lockId = k]
    /\ UNCHANGED othersOfTx

\* An exception was answered: the client sends it again, to any replica.
Retry(c) ==
    /\ tx[c].pc \in {"refused", "failed"}
    /\ \E r \in Replicas :
         tx' = [tx EXCEPT ![c].pc = "op", ![c].at = r, ![c].i = 1]
    /\ UNCHANGED othersOfTx

\* Slip: the position moves past the last operation.
NextOpPastEnd(c) ==
    tx' = [tx EXCEPT ![c].pc = IF tx[c].i = Len(tx[c].script) THEN "done" ELSE "op",
                     ![c].i = @ + 1]

\* The operation is done: the next one, or the answer.
NextOp(c) ==
    tx' = [tx EXCEPT ![c].pc = IF tx[c].i = Len(tx[c].script) THEN "done" ELSE "op",
                     ![c].i = IF tx[c].i = Len(tx[c].script) THEN @ ELSE @ + 1]

\* An exception is answered; the operations before this one stay applied.
FailOp(c) == tx' = [tx EXCEPT ![c].pc = "failed"]

\* doInsert: no lock is looked at; ids are taken to be a key of the table.
doInsert(c) ==
    /\ tx[c].pc = "op"
    /\ CurOp(c).kind = "Insert"
    /\ LET op == CurOp(c) IN
       \/ /\ rows[op.layer][op.id] = "absent"
          /\ rows' = [rows EXCEPT ![op.layer][op.id] = op.val]
          /\ NextOp(c)
          /\ UNCHANGED budget
       \/ /\ rows[op.layer][op.id] # "absent"
          /\ FailOp(c)
          /\ UNCHANGED << rows, budget >>
       \/ /\ FailOp(c)
          /\ DbError
          /\ UNCHANGED rows
    /\ UNCHANGED << lock, lockStore, locker >>

\* The layer is resolved and the operation's target with it.  The layer may not
\* resolve; when the query fails the target is empty, and an empty target needs
\* no check.
SelectTarget(c) ==
    /\ tx[c].pc = "op"
    /\ CurOp(c).kind # "Insert"
    /\ LET target == Selected(CurOp(c).layer, CurOp(c).filter)
           held == {k \in lockStore[tx[c].at] : Active(k)}
       IN
       \/ /\ tx' = [tx EXCEPT ![c].pc = IF target = {} THEN "exec" ELSE "check",
                              ![c].target = target, ![c].held = held]
          /\ UNCHANGED budget
       \/ /\ tx' = [tx EXCEPT ![c].pc = "exec", ![c].target = {}, ![c].held = held]
          /\ DbError
       \/ /\ FailOp(c)
          /\ DbError
    /\ UNCHANGED << rows, lock, lockStore, locker >>

\* Slip: the lock is gone in its last minute (not After, for Before).
BlocksUntilLastMinute(k, c) ==
    /\ lock[k].left > 0
    /\ k # tx[c].lockId
    /\ TableOfLock(k) = TableOf[CurOp(c).layer]
    /\ lock[k].ids \cap tx[c].target # {}

\* Slip: expired entries are not skipped.
BlocksForever(k, c) ==
    /\ k # tx[c].lockId
    /\ TableOfLock(k) = TableOf[CurOp(c).layer]
    /\ lock[k].ids \cap tx[c].target # {}

\* The unexpired entry k keeps the transaction from its target.
Blocks(k, c) ==
    /\ Active(k)
    /\ k # tx[c].lockId
    /\ TableOfLock(k) = TableOf[CurOp(c).layer]
    /\ lock[k].ids \cap tx[c].target # {}

\* enforceLocks, under lockMu.  It walks the map in no fixed order, dropping
\* expired entries as it meets them, up to the first one that blocks.
enforceLocks(c) ==
    /\ tx[c].pc = "check"
    /\ LET at == tx[c].at
           expired == {k \in lockStore[at] : ~Active(k)}
       IN IF \E k \in lockStore[at] : Blocks(k, c)
          THEN /\ tx' = [tx EXCEPT ![c].pc = "refused"]
               /\ \E met \in SUBSET expired :
                    lockStore' = [lockStore EXCEPT ![at] = @ \ met]
          ELSE /\ tx' = [tx EXCEPT ![c].pc = "exec"]
               /\ lockStore' = [lockStore EXCEPT ![at] = @ \ expired]
    /\ UNCHANGED << rows, lock, locker, budget >>

\* What the statement leaves of row i.
Edited(op, i) ==
    IF i \notin Selected(op.layer, op.filter) THEN rows[op.layer][i]
    ELSE IF op.kind = "Update" THEN op.val ELSE "absent"

\* Conn.Exec, after the mutex was left.
Exec(c) ==
    /\ tx[c].pc = "exec"
    /\ LET op == CurOp(c) IN
       \/ /\ rows' = [rows EXCEPT ![op.layer] = [i \in Ids |-> Edited(op, i)]]
          /\ NextOp(c)
          /\ UNCHANGED budget
       \/ /\ FailOp(c)
          /\ DbError
          /\ UNCHANGED rows
    /\ UNCHANGED << lock, lockStore, locker >>

-----------------------------------------------------------------------------
(* A process is killed and starts again: its requests and its map are gone, *)
(* the clients keep the lock ids they were given.                          *)

Restart(r) ==
    /\ budget.restarts > 0
    /\ budget' = [budget EXCEPT !.restarts = @ - 1]
    /\ lockStore' = [lockStore EXCEPT ![r] = {}]
    /\ tx' = [c \in Txs |->
                IF tx[c].at = r /\ tx[c].pc \in {"op", "check", "exec"}
                THEN [tx[c] EXCEPT !.pc = "failed"] ELSE tx[c]]
    /\ locker' = [q \in Lockers |->
                    IF locker[q].at = r
                       /\ locker[q].pc \in {"count", "select", "store"}
                    THEN [locker[q] EXCEPT !.pc = "failed"] ELSE locker[q]]
    /\ UNCHANGED << rows, lock >>

-----------------------------------------------------------------------------
(* Specification.                                                          *)

LockStep(q) == countMatched(q) \/ lockedIDs(q) \/ StoreLock(q)
TxStep(c) == doInsert(c) \/ SelectTarget(c) \/ enforceLocks(c) \/ Exec(c)

Next ==
    \/ \E q \in Lockers : LockFeature(q) \/ LockStep(q)
    \/ \E c \in Txs : Transaction(c) \/ TxStep(c) \/ Retry(c)
    \/ \E r \in Replicas : Restart(r)
    \/ Tick

Spec == Init /\ [][Next]_vars

\* Handlers run to their end, time passes, and a client that got an exception
\* tries again.  Requests and faults are free.
Fairness ==
    /\ \A q \in Lockers : WF_vars(LockStep(q))
    /\ \A c \in Txs : WF_vars(TxStep(c)) /\ WF_vars(Retry(c))
    /\ WF_vars(Tick)

FairSpec == Spec /\ Fairness

-----------------------------------------------------------------------------
(* Properties.                                                             *)

\* Types of the variables; a map holds only locks that were issued.
TypeOK ==
    /\ rows \in [Layers -> [Ids -> Vals \cup {"absent"}]]
    /\ lock \in [LockIds -> Lock]
    /\ lockStore \in [Replicas -> SUBSET Issued]
    /\ locker \in [Lockers -> Locker]
    /\ tx \in [Txs -> Tx]
    /\ \A c \in Txs : tx[c].i \in 1 .. Len(tx[c].script)
    /\ budget \in [errors : 0 .. MaxDbErrors, restarts : 0 .. MaxRestarts]

Executes(c) == tx[c].pc = "exec" /\ tx'[c] # tx[c]

\* A lock that was in the map of this process, unexpired, when an operation began
\* and is not expired yet when its statement runs keeps the features the
\* operation was checked for from changing, whatever comes between the check and
\* the statement (stored_lock.go enforceLocks; the comment of lockFeature says
\* that a Transaction does not yet enforce locks, the code does).  Locks of other
\* processes, of before a restart and of after the beginning are not in the map
\* it speaks of, and an operation whose query failed was checked for nothing.
HeldLocksEnforced ==
    [][\A c \in Txs : Executes(c) =>
         \A k \in tx[c].held \ {tx[c].lockId} :
            Active(k) =>
               \A i \in lock[k].ids :
                  \/ rows'[lock[k].layer][i] = rows[lock[k].layer][i]
                  \/ i \in Selected(CurOp(c).layer, CurOp(c).filter) \ tx[c].target
      ]_vars

\* The key of one of the transaction's Inserts is taken.
KeyTaken(c) ==
    \E n \in 1 .. Len(tx[c].script) :
        LET op == tx[c].script[n] IN
        op.kind = "Insert" /\ rows[op.layer][op.id] # "absent"

\* A client that is refused and tries again gets its transaction through, since
\* every lock expires (stored_lock.go lockExpiry) and blocks no one after that,
\* unless one of its Inserts finds its key taken for good: by another's row, or
\* by its own of the attempt that was refused, which nothing takes back
\* (transaction.go: each operation is committed by itself).
RefusedGoesThrough ==
    \A c \in Txs :
        (tx[c].pc = "refused") ~> (tx[c].pc = "done" \/ [](KeyTaken(c)))

=============================================================================
