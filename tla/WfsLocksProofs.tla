--------------------------- MODULE WfsLocksProofs ---------------------------
(***************************************************************************)
(* Proofs about WfsLocks for any layers, filters, scripts, processes and   *)
(* requests: the state keeps its form, and a lock that was held when an    *)
(* operation began keeps what it was checked for from changing.            *)
(***************************************************************************)
EXTENDS WfsLocks, TLAPS

(* A request has a lock only once it is answered, and keeps it.            *)
LockersOK ==
    \A q \in Lockers : locker[q].pc # "answered" => locker[q].lockId = NoLock

OpOfTx(t) == t.script[t.i]

(* What the lock k holds is not in the table or not in the target of t.    *)
Spares(k, t) ==
    TableOfLock(k) = TableOf[OpOfTx(t).layer] => lock[k].ids \cap t.target = {}

(* A transaction that is to be checked finds the locks it began under in   *)
(* the map, those that expired excepted; one that was checked is spared by *)
(* them.                                                                   *)
Guarded(t) ==
    /\ t.pc \in {"check", "exec"} => t.held \subseteq Issued
    /\ t.pc = "check" => \A k \in t.held : Active(k) => k \in lockStore[t.at]
    /\ t.pc = "exec" => \A k \in t.held \ {t.lockId} : Active(k) => Spares(k, t)

Inv == TypeOK /\ LockersOK /\ \A c \in Txs : Guarded(tx[c])
-----------------------------------------------------------------------------
LEMMA IssuedType == Issued \subseteq LockIds
BY DEF Issued

LEMMA InitInv == ASSUME Init PROVE Inv
<1>1. /\ rows \in [Layers -> [Ids -> Vals \cup {"absent"}]]
      /\ lockStore = [r \in Replicas |-> {}]
      /\ locker \in [Lockers -> [pc : {"new"}, at : Replicas, layer : Layers,
                                 filter : LockFilters, minutes : Minutes,
                                 ids : {{}}, lockId : {NoLock}]]
      /\ tx \in [Txs -> [pc : {"new"}, at : Replicas, script : Scripts, i : {1},
                         lockId : {NoLock}, target : {{}}, held : {{}}]]
      /\ budget = [errors |-> MaxDbErrors, restarts |-> MaxRestarts]
  BY DEF Init
<1>2. lock \in [LockIds -> Lock]
  <2>1. (CHOOSE l \in Layers : TRUE) \in Layers
    BY TableAssumption
  <2>2. lock = [k \in LockIds |-> [layer |-> CHOOSE l \in Layers : TRUE, ids |-> {}, left |-> -1]]
    BY DEF Init
  <2>3. -1 \in Int
    OBVIOUS
  <2> QED BY <2>1, <2>2, <2>3 DEF Lock
<1>3. locker \in [Lockers -> Locker]
  BY <1>1, FiltersAssumption, MinutesAssumption DEF Locker
<1>4. ASSUME NEW c \in Txs PROVE tx[c] \in Tx /\ tx[c].i \in 1 .. Len(tx[c].script)
  <2>1. /\ tx[c] \in [pc : {"new"}, at : Replicas, script : Scripts, i : {1},
                      lockId : {NoLock}, target : {{}}, held : {{}}]
        /\ tx[c].script \in Seq(Op) /\ tx[c].script # << >>
    BY <1>1, ScriptsAssumption
  <2>2. tx[c].i = 1 /\ 1 \in 1 .. Len(tx[c].script)
    <3>1. \A s \in Seq(Op) : s # << >> => 1 \in 1 .. Len(s)
      OBVIOUS
    <3> QED BY <2>1, <3>1
  <2>3. tx[c] \in Tx
    <3>1. tx[c] \in [pc : {"new"}, at : Replicas, script : Seq(Op), i : {1},
                     lockId : {NoLock}, target : {{}}, held : {{}}]
      BY <2>1
    <3>2. 1 \in Nat
      OBVIOUS
    <3> QED BY <3>1, <3>2 DEF Tx
  <2> QED BY <2>2, <2>3
<1>5. budget \in [errors : 0 .. MaxDbErrors, restarts : 0 .. MaxRestarts]
  BY <1>1, BudgetAssumption
<1>6. TypeOK
  BY <1>1, <1>2, <1>3, <1>4, <1>5 DEF TypeOK
<1>7. LockersOK /\ \A c \in Txs : Guarded(tx[c])
  BY <1>1 DEF LockersOK, Guarded
<1> QED BY <1>6, <1>7 DEF Inv
-----------------------------------------------------------------------------
(* What a failing call leaves of the budget.                               *)
LEMMA BudgetKept ==
    ASSUME TypeOK, UNCHANGED budget \/ DbError
    PROVE  budget' \in [errors : 0 .. MaxDbErrors, restarts : 0 .. MaxRestarts]
<1>1. budget \in [errors : 0 .. MaxDbErrors, restarts : 0 .. MaxRestarts]
  BY DEF TypeOK
<1>2. \A n \in 0 .. MaxDbErrors : n > 0 => n - 1 \in 0 .. MaxDbErrors
  BY BudgetAssumption
<1> QED BY <1>1, <1>2 DEF DbError

(* Locks that are there stay as they are, but for the time that passes;    *)
(* then a transaction that rests stays guarded.                            *)
LEMMA RestKeeps ==
    ASSUME TypeOK, NEW t \in Tx, Guarded(t), Issued \subseteq Issued',
           \A k \in Issued : /\ lock'[k].layer = lock[k].layer /\ lock'[k].ids = lock[k].ids
                             /\ Active(k)' => Active(k),
           \A k \in lockStore[t.at] : Active(k)' => k \in lockStore'[t.at]
    PROVE  Guarded(t)'
<1>1. t.pc = "check" => \A k \in t.held : Active(k)' => k \in lockStore'[t.at]
  BY DEF Guarded
<1>2. t.pc = "exec" => \A k \in t.held \ {t.lockId} : Active(k)' => Spares(k, t)'
  BY DEF Guarded, Spares, TableOfLock, OpOfTx
<1> QED BY <1>1, <1>2 DEF Guarded

(* The locks stay as they are when neither lock nor map nor lockers change.*)
LEMMA SameLocks ==
    ASSUME TypeOK, UNCHANGED << lock, locker >>
    PROVE  /\ Issued' = Issued
           /\ \A k \in Issued : /\ lock'[k].layer = lock[k].layer /\ lock'[k].ids = lock[k].ids
                                /\ Active(k)' => Active(k)
BY DEF Issued, Active
-----------------------------------------------------------------------------
(* LockFeature up to the mutex: its request moves, without a lock.         *)
LEMMA LookKeeps ==
    ASSUME Inv, NEW q \in Lockers, LockFeature(q) \/ countMatched(q) \/ lockedIDs(q)
    PROVE  Inv'
<1>1. /\ UNCHANGED << rows, lock, lockStore, tx >> /\ (UNCHANGED budget \/ DbError)
      /\ locker \in [Lockers -> Locker] /\ locker[q].pc # "answered"
      /\ lockStore \in [Replicas -> SUBSET Issued]
  BY DEF LockFeature, countMatched, lockedIDs, Inv, TypeOK
<1>2. PICK pc \in {"count", "select", "store", "failed"}, ids \in SUBSET Ids :
        locker' = [locker EXCEPT ![q].pc = pc, ![q].ids = ids]
  <2>1. CASE LockFeature(q) \/ countMatched(q)
    <3>1. PICK pc \in {"count", "select", "failed"} : locker' = [locker EXCEPT ![q].pc = pc]
      BY <2>1 DEF LockFeature, countMatched
    <3>2. locker' = [locker EXCEPT ![q].pc = pc, ![q].ids = locker[q].ids]
          /\ locker[q].ids \in SUBSET Ids
      BY <1>1, <3>1 DEF Locker
    <3> QED BY <3>2
  <2>2. CASE lockedIDs(q)
    <3>1. Selected(locker[q].layer, locker[q].filter) \in SUBSET Ids
      BY <1>1 DEF Selected, Locker, Filter
    <3>2. {} \in SUBSET Ids
      OBVIOUS
    <3> QED BY <2>2, <3>1, <3>2 DEF lockedIDs
  <2> QED BY <2>1, <2>2
<1>3. /\ locker'[q] \in Locker /\ locker'[q].pc = pc /\ locker'[q].lockId = locker[q].lockId
      /\ \A p \in Lockers : p # q => locker'[p] = locker[p]
      /\ locker' \in [Lockers -> Locker]
  <2> DEFINE new == [locker[q] EXCEPT !.pc = pc, !.ids = ids]
  <2>1. new \in Locker /\ new.pc = pc /\ new.lockId = locker[q].lockId
    BY <1>1 DEF Locker
  <2>2. locker' = [locker EXCEPT ![q] = new]
    BY <1>1, <1>2
  <2> HIDE DEF new
  <2> QED BY <1>1, <2>1, <2>2
<1>4. Issued' = Issued
  BY <1>3 DEF Issued
<1>5. TypeOK'
  BY <1>1, <1>3, <1>4, BudgetKept DEF Inv, TypeOK
<1>6. LockersOK'
  BY <1>1, <1>3 DEF Inv, LockersOK
<1>7. ASSUME NEW c \in Txs PROVE Guarded(tx[c])'
  BY <1>1, <1>4 DEF Inv, Guarded, Active, Spares, TableOfLock, OpOfTx
<1> QED BY <1>5, <1>6, <1>7 DEF Inv

(* A new lock joins those there are.                                       *)
LEMMA StoreKeeps == ASSUME Inv, NEW q \in Lockers, StoreLock(q) PROVE Inv'
<1>1. /\ UNCHANGED << rows, tx, budget >> /\ locker[q].pc = "store"
      /\ locker \in [Lockers -> Locker] /\ lock \in [LockIds -> Lock]
      /\ lockStore \in [Replicas -> SUBSET Issued]
  BY DEF StoreLock, Inv, TypeOK
<1> DEFINE entry == [layer |-> locker[q].layer, ids |-> locker[q].ids,
                     left |-> lockExpiry(locker[q].minutes)]
<1>2. PICK k \in LockIds \ Issued :
        /\ lock' = [lock EXCEPT ![k] = entry]
        /\ lockStore' = [lockStore EXCEPT ![locker[q].at] = @ \cup {k}]
        /\ locker' = [locker EXCEPT ![q].pc = "answered", ![q].lockId = k]
  BY DEF StoreLock
<1>3. entry \in Lock /\ locker[q].at \in Replicas
  <2>1. locker[q] \in Locker
    BY <1>1
  <2>2. lockExpiry(locker[q].minutes) \in Int
    BY <2>1 DEF Locker, lockExpiry
  <2> QED BY <2>1, <2>2 DEF Locker, Lock
<1> HIDE DEF entry
<1>4. /\ locker'[q].pc = "answered" /\ locker'[q].lockId = k
      /\ \A p \in Lockers : p # q => locker'[p] = locker[p]
      /\ locker' \in [Lockers -> Locker]
  <2> DEFINE new == [locker[q] EXCEPT !.pc = "answered", !.lockId = k]
  <2>1. new \in Locker /\ new.pc = "answered" /\ new.lockId = k
    BY <1>1 DEF Locker
  <2>2. locker' = [locker EXCEPT ![q] = new]
    BY <1>1, <1>2
  <2> HIDE DEF new
  <2> QED BY <1>1, <2>1, <2>2
<1>5. Issued' = Issued \cup {k}
  <2>1. locker[q].lockId = NoLock /\ NoLock \notin LockIds
    BY <1>1, NoLockAssumption DEF Inv, LockersOK
  <2> QED BY <1>4, <2>1 DEF Issued
<1>6. /\ lock' \in [LockIds -> Lock] /\ lockStore' \in [Replicas -> SUBSET Issued']
      /\ \A j \in Issued : lock'[j] = lock[j]
      /\ \A r \in Replicas : lockStore[r] \subseteq lockStore'[r]
  BY <1>1, <1>2, <1>3, <1>5, IssuedType
<1>7. TypeOK'
  BY <1>1, <1>4, <1>6 DEF Inv, TypeOK
<1>8. LockersOK'
  BY <1>4 DEF Inv, LockersOK
<1>9. ASSUME NEW c \in Txs PROVE Guarded(tx[c])'
  <2>1. tx[c] \in Tx /\ Guarded(tx[c]) /\ tx[c].at \in Replicas
    BY DEF Inv, TypeOK, Tx
  <2>2. /\ Issued \subseteq Issued'
        /\ \A j \in Issued : /\ lock'[j].layer = lock[j].layer /\ lock'[j].ids = lock[j].ids
                             /\ Active(j)' => Active(j)
        /\ lockStore[tx[c].at] \subseteq lockStore'[tx[c].at]
    BY <1>5, <1>6, <2>1 DEF Active
  <2>3. ASSUME NEW t \in Tx, t = tx[c] PROVE Guarded(t)'
    <3>1. \A j \in lockStore[t.at] : Active(j)' => j \in lockStore'[t.at]
      BY <2>2, <2>3
    <3>2. Guarded(t) /\ TypeOK
      BY <2>1, <2>3 DEF Inv
    <3> QED BY <2>2, <3>1, <3>2, RestKeeps
  <2> QED BY <1>1, <2>1, <2>3 DEF Guarded, Spares, OpOfTx
<1> QED BY <1>7, <1>8, <1>9 DEF Inv

LEMMA TickKeeps == ASSUME Inv, Tick PROVE Inv'
<1>1. /\ UNCHANGED << rows, lockStore, locker, tx, budget >> /\ lock \in [LockIds -> Lock]
      /\ lock' = [k \in LockIds |-> IF Active(k) THEN [lock[k] EXCEPT !.left = @ - 1]
                                                 ELSE lock[k]]
  BY DEF Tick, Inv, TypeOK
<1>2. ASSUME NEW k \in LockIds
      PROVE  /\ lock'[k] \in Lock
             /\ lock'[k].layer = lock[k].layer /\ lock'[k].ids = lock[k].ids
             /\ Active(k)' => Active(k)
  <2>1. lock[k] \in Lock /\ lock[k].left \in Int
    BY <1>1 DEF Lock
  <2>2. CASE Active(k)
    <3>1. lock'[k] = [lock[k] EXCEPT !.left = @ - 1] /\ lock[k].left - 1 \in Int
      BY <1>1, <2>1, <2>2
    <3> QED BY <2>1, <2>2, <3>1 DEF Lock
  <2>3. CASE ~Active(k)
    BY <1>1, <2>1, <2>3 DEF Active
  <2> QED BY <2>2, <2>3
<1>3. lock' \in [LockIds -> Lock]
  BY <1>1, <1>2
<1>4. Issued' = Issued
  BY <1>1 DEF Issued
<1>5. TypeOK' /\ LockersOK'
  BY <1>1, <1>3, <1>4 DEF Inv, TypeOK, LockersOK
<1>6. ASSUME NEW c \in Txs PROVE Guarded(tx[c])'
  <2>1. Guarded(tx[c])
    BY DEF Inv
  <2>2. tx[c].pc \in {"check", "exec"} => tx[c].held \subseteq LockIds
    BY <2>1, IssuedType DEF Guarded
  <2> QED BY <1>1, <1>2, <1>4, <2>1, <2>2 DEF Guarded, Spares, TableOfLock, OpOfTx
<1> QED BY <1>5, <1>6 DEF Inv
-----------------------------------------------------------------------------
(* A step of a transaction moves it on, may change rows, and drops nothing *)
(* from a map but what expired.                                            *)
Moves(c, new) ==
    /\ tx' = [tx EXCEPT ![c] = new]
    /\ new \in Tx /\ new.i \in 1 .. Len(new.script)
    /\ UNCHANGED << lock, locker >>
    /\ UNCHANGED budget \/ DbError
    /\ rows' \in [Layers -> [Ids -> Vals \cup {"absent"}]]
    /\ \A r \in Replicas : /\ lockStore'[r] \subseteq lockStore[r]
                           /\ \A k \in lockStore[r] : Active(k) => k \in lockStore'[r]
    /\ lockStore' \in [Replicas -> SUBSET LockIds]

LEMMA MovesKeep ==
    ASSUME Inv, NEW c \in Txs, NEW new, Moves(c, new), Guarded(new)'
    PROVE  Inv'
<1>1. /\ tx \in [Txs -> Tx] /\ Issued' = Issued
      /\ \A d \in Txs : tx'[d] = IF d = c THEN new ELSE tx[d]
  BY DEF Inv, TypeOK, Moves, Issued
<1>2. lockStore' \in [Replicas -> SUBSET Issued']
  BY <1>1 DEF Inv, TypeOK, Moves
<1>3. TypeOK'
  <2>1. tx' \in [Txs -> Tx] /\ \A d \in Txs : tx'[d].i \in 1 .. Len(tx'[d].script)
    BY <1>1 DEF Inv, TypeOK, Moves
  <2> QED BY <1>2, <2>1, BudgetKept DEF Inv, TypeOK, Moves
<1>4. LockersOK'
  BY DEF Inv, LockersOK, Moves
<1>5. ASSUME NEW d \in Txs PROVE Guarded(tx[d])'
  <2>1. CASE d = c
    BY <1>1, <2>1 DEF Guarded, Spares, OpOfTx
  <2>2. CASE d # c
    <3>1. tx'[d] = tx[d] /\ Guarded(tx[d]) /\ tx[d].at \in Replicas
      BY <1>1, <2>2 DEF Inv, Tx
    <3> QED BY <1>1, <3>1 DEF Guarded, Spares, OpOfTx, TableOfLock, Active, Moves
  <2> QED BY <2>1, <2>2
<1> QED BY <1>3, <1>4, <1>5 DEF Inv

(* The steps that leave the maps alone, to where no lock is looked at.     *)
LEMMA PlainKeeps ==
    ASSUME Inv, NEW c \in Txs, NEW new \in Tx, tx' = [tx EXCEPT ![c] = new],
           new.i \in 1 .. Len(new.script), new.pc \notin {"check", "exec"},
           UNCHANGED << lock, locker, lockStore >>, UNCHANGED budget \/ DbError,
           rows' \in [Layers -> [Ids -> Vals \cup {"absent"}]]
    PROVE  Inv'
<1>1. Guarded(new)'
  BY DEF Guarded
<1>2. lockStore' \in [Replicas -> SUBSET LockIds]
  BY IssuedType DEF Inv, TypeOK
<1>3. Moves(c, new)
  BY <1>2 DEF Moves
<1> QED BY <1>1, <1>3, MovesKeep

LEMMA TxForm ==
    ASSUME Inv, NEW c \in Txs
    PROVE  /\ tx \in [Txs -> Tx] /\ tx[c] \in Tx /\ tx[c].i \in 1 .. Len(tx[c].script)
           /\ CurOp(c) \in Op /\ CurOp(c) = OpOfTx(tx[c])
           /\ rows \in [Layers -> [Ids -> Vals \cup {"absent"}]]
<1>1. tx \in [Txs -> Tx] /\ tx[c] \in Tx /\ tx[c].i \in 1 .. Len(tx[c].script)
      /\ rows \in [Layers -> [Ids -> Vals \cup {"absent"}]]
  BY DEF Inv, TypeOK
<1>2. tx[c].script \in Seq(Op)
  BY <1>1 DEF Tx
<1>3. tx[c].script[tx[c].i] \in Op
  BY <1>1, <1>2
<1> QED BY <1>1, <1>3 DEF CurOp, OpOfTx

(* The next operation, or the answer; a failing one, the answer.           *)
LEMMA NextOpForm ==
    ASSUME Inv, NEW c \in Txs, NextOp(c) \/ FailOp(c)
    PROVE  \E new \in Tx : /\ tx' = [tx EXCEPT ![c] = new] /\ new.i \in 1 .. Len(new.script)
                           /\ new.pc \notin {"check", "exec"}
<1> DEFINE t == tx[c]
           n == Len(t.script)
<1>1. tx \in [Txs -> Tx] /\ t \in Tx /\ t.i \in 1 .. n /\ t.script \in Seq(Op)
  BY TxForm DEF Tx
<1>2. n \in Nat
  BY <1>1
<1>3. CASE NextOp(c)
  <2> DEFINE i == IF t.i = n THEN t.i ELSE t.i + 1
             new == [t EXCEPT !.pc = IF t.i = n THEN "done" ELSE "op", !.i = i]
  <2>1. i \in 1 .. n /\ i \in Nat
    BY <1>1, <1>2
  <2>2. tx' = [tx EXCEPT ![c] = new]
    BY <1>1, <1>3 DEF NextOp
  <2> HIDE DEF i, n
  <2>3. /\ new \in Tx /\ new.i = i /\ new.script = t.script
        /\ new.pc \in {"done", "op"}
    BY <1>1, <2>1 DEF Tx
  <2> QED BY <2>1, <2>2, <2>3 DEF n
<1>4. CASE FailOp(c)
  <2> DEFINE new == [t EXCEPT !.pc = "failed"]
  <2>1. new \in Tx /\ new.i = t.i /\ new.script = t.script /\ new.pc = "failed"
    BY <1>1 DEF Tx
  <2>2. tx' = [tx EXCEPT ![c] = new]
    BY <1>1, <1>4 DEF FailOp
  <2> QED BY <1>1, <2>1, <2>2
<1> QED BY <1>3, <1>4

LEMMA BeginKeeps == ASSUME Inv, NEW c \in Txs, Transaction(c) \/ Retry(c) PROVE Inv'
<1>1. /\ tx \in [Txs -> Tx] /\ tx[c] \in Tx /\ tx[c].i \in 1 .. Len(tx[c].script)
      /\ 1 \in 1 .. Len(tx[c].script)
  <2>1. \A n, m \in Nat : m \in 1 .. n => 1 \in 1 .. n
    OBVIOUS
  <2>2. tx[c].script \in Seq(Op) /\ tx[c].i \in Nat
    BY TxForm DEF Tx
  <2>3. Len(tx[c].script) \in Nat
    BY <2>2
  <2> QED BY <2>1, <2>2, <2>3, TxForm
<1>2. /\ UNCHANGED << lock, locker, lockStore, budget >>
      /\ rows' \in [Layers -> [Ids -> Vals \cup {"absent"}]]
  BY TxForm DEF Transaction, Retry, othersOfTx
<1>3. CASE Transaction(c)
  <2>1. PICK k \in Issued \cup {NoLock} :
          tx' = [tx EXCEPT ![c].pc = "op", ![c].lockId = k]
    BY <1>3 DEF Transaction
  <2> DEFINE new == [tx[c] EXCEPT !.pc = "op", !.lockId = k]
  <2>2. /\ new \in Tx /\ new.i = tx[c].i /\ new.script = tx[c].script /\ new.pc = "op"
    BY <1>1, IssuedType DEF Tx
  <2>3. tx' = [tx EXCEPT ![c] = new]
    BY <1>1, <2>1
  <2> HIDE DEF new
  <2> QED BY <1>1, <1>2, <2>2, <2>3, PlainKeeps
<1>4. CASE Retry(c)
  <2>1. PICK r \in Replicas :
          tx' = [tx EXCEPT ![c].pc = "op", ![c].at = r, ![c].i = 1]
    BY <1>4 DEF Retry
  <2> DEFINE new == [tx[c] EXCEPT !.pc = "op", !.at = r, !.i = 1]
  <2>2. /\ new \in Tx /\ new.i = 1 /\ new.script = tx[c].script /\ new.pc = "op"
    BY <1>1 DEF Tx
  <2>3. tx' = [tx EXCEPT ![c] = new]
    BY <1>1, <2>1
  <2> HIDE DEF new
  <2> QED BY <1>1, <1>2, <2>2, <2>3, PlainKeeps
<1> QED BY <1>3, <1>4

LEMMA InsertKeeps == ASSUME Inv, NEW c \in Txs, doInsert(c) PROVE Inv'
<1>1. UNCHANGED << lock, lockStore, locker >> /\ (UNCHANGED budget \/ DbError)
  BY DEF doInsert
<1>2. NextOp(c) \/ FailOp(c)
  BY DEF doInsert
<1>3. rows' \in [Layers -> [Ids -> Vals \cup {"absent"}]]
  <2>1. CurOp(c).layer \in Layers /\ CurOp(c).id \in Ids /\ CurOp(c).val \in Vals
    BY TxForm DEF Op
  <2>2. rows' = rows \/ rows' = [rows EXCEPT ![CurOp(c).layer][CurOp(c).id] = CurOp(c).val]
    BY DEF doInsert
  <2> QED BY <2>1, <2>2, TxForm
<1>4. PICK new \in Tx : /\ tx' = [tx EXCEPT ![c] = new] /\ new.i \in 1 .. Len(new.script)
                        /\ new.pc \notin {"check", "exec"}
  BY <1>2, NextOpForm
<1> QED BY <1>1, <1>3, <1>4, PlainKeeps

(* The statement changes rows of its layer that its filter selects.        *)
LEMMA ExecRows ==
    ASSUME Inv, NEW c \in Txs, Exec(c)
    PROVE  /\ rows' \in [Layers -> [Ids -> Vals \cup {"absent"}]]
           /\ \A l \in Layers, i \in Ids :
                \/ rows'[l][i] = rows[l][i]
                \/ l = CurOp(c).layer /\ i \in Selected(l, CurOp(c).filter)
<1> DEFINE op == CurOp(c)
<1>1. op.layer \in Layers /\ op.val \in Vals
  BY TxForm DEF Op
<1>2. rows' = rows \/ rows' = [rows EXCEPT ![op.layer] = [i \in Ids |-> Edited(op, i)]]
  BY DEF Exec
<1>3. \A i \in Ids : /\ Edited(op, i) \in Vals \cup {"absent"}
                     /\ Edited(op, i) = rows[op.layer][i] \/ i \in Selected(op.layer, op.filter)
  BY <1>1, TxForm DEF Edited
<1>4. CASE rows' = rows
  BY <1>4, TxForm
<1>5. CASE rows' = [rows EXCEPT ![op.layer] = [i \in Ids |-> Edited(op, i)]]
  <2> HIDE DEF op
  <2>1. rows \in [Layers -> [Ids -> Vals \cup {"absent"}]]
    BY TxForm
  <2>2. [i \in Ids |-> Edited(op, i)] \in [Ids -> Vals \cup {"absent"}]
    BY <1>3
  <2>3. \A l \in Layers : rows'[l] = IF l = op.layer THEN [i \in Ids |-> Edited(op, i)] ELSE rows[l]
    BY <1>5, <2>1
  <2>4. rows' \in [Layers -> [Ids -> Vals \cup {"absent"}]]
    BY <1>5, <2>1, <2>2
  <2>5. \A l \in Layers, i \in Ids :
          rows'[l][i] = rows[l][i] \/ (l = op.layer /\ i \in Selected(l, op.filter))
    <3> TAKE l \in Layers, i \in Ids
    <3>1. CASE l = op.layer
      <4>1. rows'[l] = [j \in Ids |-> Edited(op, j)]
        BY <2>3, <3>1
      <4>2. rows'[l][i] = Edited(op, i)
        BY <4>1
      <4> QED BY <1>3, <3>1, <4>2
    <3>2. CASE l # op.layer
      BY <2>3, <3>2
    <3> QED BY <3>1, <3>2
  <2> QED BY <2>4, <2>5 DEF op
<1> QED BY <1>2, <1>4, <1>5

LEMMA ExecKeeps == ASSUME Inv, NEW c \in Txs, Exec(c) PROVE Inv'
<1>1. UNCHANGED << lock, lockStore, locker >> /\ (UNCHANGED budget \/ DbError)
  BY DEF Exec
<1>2. NextOp(c) \/ FailOp(c)
  BY DEF Exec
<1>3. PICK new \in Tx : /\ tx' = [tx EXCEPT ![c] = new] /\ new.i \in 1 .. Len(new.script)
                        /\ new.pc \notin {"check", "exec"}
  BY <1>2, NextOpForm
<1> QED BY <1>1, <1>3, ExecRows, PlainKeeps

(* An operation begins under the locks in the map that did not expire;     *)
(* without a target they all spare it.                                     *)
LEMMA SelectKeeps == ASSUME Inv, NEW c \in Txs, SelectTarget(c) PROVE Inv'
<1> DEFINE at == tx[c].at
           held == {k \in lockStore[at] : Active(k)}
<1>1. /\ UNCHANGED << rows, lock, lockStore, locker >> /\ (UNCHANGED budget \/ DbError)
      /\ tx \in [Txs -> Tx] /\ tx[c] \in Tx /\ at \in Replicas
      /\ tx[c].i \in 1 .. Len(tx[c].script)
      /\ lockStore \in [Replicas -> SUBSET Issued]
      /\ rows \in [Layers -> [Ids -> Vals \cup {"absent"}]]
  BY TxForm DEF SelectTarget, Inv, TypeOK, Tx
<1>2. CASE FailOp(c)
  <2>1. PICK new \in Tx : /\ tx' = [tx EXCEPT ![c] = new] /\ new.i \in 1 .. Len(new.script)
                          /\ new.pc \notin {"check", "exec"}
    BY <1>2, NextOpForm
  <2> QED BY <1>1, <2>1, PlainKeeps
<1>3. CASE ~FailOp(c)
  <2>1. PICK target \in SUBSET Ids, pc \in {"check", "exec"} :
          /\ tx' = [tx EXCEPT ![c].pc = pc, ![c].target = target, ![c].held = held]
          /\ pc = "exec" => target = {}
    <3>1. Selected(CurOp(c).layer, CurOp(c).filter) \in SUBSET Ids /\ {} \in SUBSET Ids
      BY TxForm DEF Selected, Op, Filter
    <3> QED BY <1>3, <3>1 DEF SelectTarget
  <2>2. held \subseteq Issued /\ held \subseteq LockIds /\ held \subseteq lockStore[at]
    BY <1>1, IssuedType
  <2>3. PICK new \in Tx :
        /\ new = [tx[c] EXCEPT !.pc = pc, !.target = target, !.held = held]
        /\ new.i = tx[c].i /\ new.script = tx[c].script /\ new.pc = pc
        /\ new.target = target /\ new.held = held /\ new.at = at
    <3> DEFINE t == [tx[c] EXCEPT !.pc = pc, !.target = target, !.held = held]
    <3>1. /\ t \in Tx /\ t.i = tx[c].i /\ t.script = tx[c].script /\ t.pc = pc
          /\ t.target = target /\ t.held = held /\ t.at = at
      <4> HIDE DEF held
      <4> QED BY <1>1, <2>2 DEF Tx
    <3> HIDE DEF t
    <3> QED BY <3>1 DEF t
  <2>4. tx' = [tx EXCEPT ![c] = new]
    BY <1>1, <2>1, <2>3
  <2>5. Issued' = Issued
    BY <1>1 DEF Issued
  <2>6. Guarded(new)'
    <3>1. pc = "check" => \A k \in new.held : k \in lockStore'[new.at]
      BY <1>1, <2>2, <2>3
    <3>2. pc = "exec" => \A k \in new.held : Spares(k, new)'
      BY <2>1, <2>3 DEF Spares
    <3>3. new.held \subseteq Issued'
      BY <2>2, <2>3, <2>5
    <3> QED BY <2>3, <3>1, <3>2, <3>3 DEF Guarded
  <2>7. Moves(c, new)
    <3>1. lockStore \in [Replicas -> SUBSET LockIds]
      BY <1>1, IssuedType
    <3> QED BY <1>1, <2>3, <2>4, <3>1 DEF Moves
  <2> QED BY <2>6, <2>7, MovesKeep
<1> QED BY <1>2, <1>3

(* Whom no lock in the map blocks, the locks it began under spare.         *)
LEMMA EnforceKeeps == ASSUME Inv, NEW c \in Txs, enforceLocks(c) PROVE Inv'
<1> DEFINE at == tx[c].at
           expired == {k \in lockStore[at] : ~Active(k)}
<1>1. /\ UNCHANGED << rows, lock, locker, budget >> /\ tx[c].pc = "check"
      /\ tx \in [Txs -> Tx] /\ tx[c] \in Tx /\ at \in Replicas
      /\ tx[c].i \in 1 .. Len(tx[c].script)
      /\ lockStore \in [Replicas -> SUBSET Issued] /\ Guarded(tx[c])
      /\ rows \in [Layers -> [Ids -> Vals \cup {"absent"}]]
  BY TxForm DEF enforceLocks, Inv, TypeOK, Tx
<1>2. PICK pc \in {"refused", "exec"}, met \in SUBSET expired :
        /\ tx' = [tx EXCEPT ![c].pc = pc]
        /\ lockStore' = [lockStore EXCEPT ![at] = @ \ met]
        /\ pc = "exec" => \A k \in lockStore[at] : ~Blocks(k, c)
  <2>1. CASE \E k \in lockStore[at] : Blocks(k, c)
    BY <2>1 DEF enforceLocks
  <2>2. CASE ~\E k \in lockStore[at] : Blocks(k, c)
    BY <2>2 DEF enforceLocks
  <2> QED BY <2>1, <2>2
<1>3. PICK new \in Tx :
        /\ new = [tx[c] EXCEPT !.pc = pc]
        /\ new.i = tx[c].i /\ new.script = tx[c].script /\ new.pc = pc
        /\ new.target = tx[c].target /\ new.held = tx[c].held /\ new.lockId = tx[c].lockId
  <2> DEFINE t == [tx[c] EXCEPT !.pc = pc]
  <2>1. /\ t \in Tx /\ t.i = tx[c].i /\ t.script = tx[c].script /\ t.pc = pc
        /\ t.target = tx[c].target /\ t.held = tx[c].held /\ t.lockId = tx[c].lockId
    BY <1>1 DEF Tx
  <2> HIDE DEF t
  <2> QED BY <2>1 DEF t
<1>4. tx' = [tx EXCEPT ![c] = new]
  BY <1>1, <1>2, <1>3
<1>5. /\ lockStore' \in [Replicas -> SUBSET LockIds]
      /\ \A r \in Replicas : /\ lockStore'[r] \subseteq lockStore[r]
                             /\ \A k \in lockStore[r] : Active(k) => k \in lockStore'[r]
  BY <1>1, <1>2, IssuedType
<1>6. Moves(c, new)
  BY <1>1, <1>3, <1>4, <1>5 DEF Moves
<1>7. Issued' = Issued /\ \A k \in LockIds : Active(k)' = Active(k)
  BY <1>1 DEF Issued, Active
<1>8. ASSUME pc = "exec", NEW k \in new.held \ {new.lockId}, Active(k)
      PROVE  Spares(k, new)
  <2>1. k \in lockStore[at] /\ k # tx[c].lockId
    BY <1>1, <1>3, <1>8 DEF Guarded
  <2>2. ~Blocks(k, c)
    BY <1>2, <1>8, <2>1
  <2>3. OpOfTx(new) = CurOp(c)
    BY <1>3 DEF OpOfTx, CurOp
  <2> QED BY <1>3, <1>8, <2>1, <2>2, <2>3 DEF Blocks, Spares
<1>9. new.held \subseteq Issued /\ Issued \subseteq LockIds
  BY <1>1, <1>3, IssuedType DEF Guarded
<1>10. Guarded(new)'
  <2>1. pc = "exec" => \A k \in new.held \ {new.lockId} : Active(k)' => Spares(k, new)'
    BY <1>1, <1>7, <1>8, <1>9 DEF Spares, TableOfLock, OpOfTx
  <2> QED BY <1>2, <1>3, <1>7, <1>9, <2>1 DEF Guarded
<1> QED BY <1>6, <1>10, MovesKeep
-----------------------------------------------------------------------------
(* A process that is killed leaves no transaction that was to be checked.  *)
LEMMA RestartKeeps == ASSUME Inv, NEW r \in Replicas, Restart(r) PROVE Inv'
<1>1. /\ UNCHANGED << rows, lock >> /\ lockStore' = [lockStore EXCEPT ![r] = {}]
      /\ lockStore \in [Replicas -> SUBSET Issued]
      /\ tx \in [Txs -> Tx] /\ locker \in [Lockers -> Locker]
  BY DEF Restart, Inv, TypeOK
<1>2. budget' \in [errors : 0 .. MaxDbErrors, restarts : 0 .. MaxRestarts]
  <2>1. budget \in [errors : 0 .. MaxDbErrors, restarts : 0 .. MaxRestarts]
    BY DEF Inv, TypeOK
  <2>2. \A n \in 0 .. MaxRestarts : n > 0 => n - 1 \in 0 .. MaxRestarts
    BY BudgetAssumption
  <2> QED BY <2>1, <2>2 DEF Restart
<1>3. ASSUME NEW c \in Txs
      PROVE  /\ tx'[c] \in Tx /\ tx'[c].i = tx[c].i /\ tx'[c].script = tx[c].script
             /\ tx'[c] = tx[c] \/ tx'[c].pc = "failed"
             /\ tx'[c].pc \in {"check", "exec"} => tx[c].at # r
  <2>1. tx[c] \in Tx
    BY <1>1
  <2>2. tx'[c] = IF tx[c].at = r /\ tx[c].pc \in {"op", "check", "exec"}
                 THEN [tx[c] EXCEPT !.pc = "failed"] ELSE tx[c]
    BY DEF Restart
  <2> QED BY <2>1, <2>2 DEF Tx
<1>4. ASSUME NEW q \in Lockers
      PROVE  /\ locker'[q] \in Locker /\ locker'[q].lockId = locker[q].lockId
             /\ locker[q].pc = "answered" => locker'[q].pc = "answered"
  <2>1. locker[q] \in Locker
    BY <1>1
  <2>2. \/ locker'[q] = locker[q]
        \/ locker[q].pc # "answered" /\ locker'[q] = [locker[q] EXCEPT !.pc = "failed"]
    BY DEF Restart
  <2> QED BY <2>1, <2>2 DEF Locker
<1>5. tx' \in [Txs -> Tx] /\ locker' \in [Lockers -> Locker]
  <2>1. tx' = [c \in Txs |-> tx'[c]] /\ locker' = [q \in Lockers |-> locker'[q]]
    BY DEF Restart
  <2> QED BY <1>3, <1>4, <2>1
<1>6. Issued' = Issued
  BY <1>4 DEF Issued
<1>7. TypeOK'
  BY <1>1, <1>2, <1>3, <1>5, <1>6 DEF Inv, TypeOK
<1>8. LockersOK'
  BY <1>4 DEF Inv, LockersOK
<1>9. ASSUME NEW c \in Txs PROVE Guarded(tx[c])'
  <2>1. CASE tx'[c].pc = "failed"
    BY <2>1 DEF Guarded
  <2>2. CASE tx'[c].pc # "failed"
    <3>1. tx'[c] = tx[c] /\ Guarded(tx[c]) /\ tx[c].at \in Replicas
          /\ (tx[c].pc \in {"check", "exec"} => lockStore'[tx[c].at] = lockStore[tx[c].at])
      BY <1>1, <1>3, <2>2 DEF Inv, Tx
    <3> QED BY <1>1, <1>6, <3>1 DEF Guarded, Spares, TableOfLock, OpOfTx, Active
  <2> QED BY <2>1, <2>2
<1> QED BY <1>7, <1>8, <1>9 DEF Inv

LEMMA NextInv == ASSUME Inv, [Next]_vars PROVE Inv'
<1>1. CASE UNCHANGED vars
  BY <1>1 DEF vars, Inv, TypeOK, LockersOK, Guarded, Issued, Active, Spares, TableOfLock, OpOfTx
<1> QED
  BY <1>1, LookKeeps, StoreKeeps, TickKeeps, BeginKeeps, InsertKeeps, SelectKeeps, EnforceKeeps,
     ExecKeeps, RestartKeeps
  DEF Next, LockStep, TxStep

THEOREM Invariance == Spec => []Inv
BY InitInv, NextInv, PTL DEF Spec

(* The state keeps its form; a map holds only locks that were issued, and  *)
(* a transaction never leaves its script (lockFeature, transaction).       *)
THEOREM LocksTypeCorrect == Spec => []TypeOK
BY Invariance, PTL DEF Inv

(* Whatever comes between an operation's check and its statement, a lock   *)
(* it began under keeps the features it was checked for from changing      *)
(* (enforceLocks).                                                         *)
THEOREM LocksAreEnforced == Spec => HeldLocksEnforced
<1>1. ASSUME Inv, [Next]_vars, NEW c \in Txs, Executes(c),
             NEW k \in tx[c].held \ {tx[c].lockId}, Active(k), NEW i \in lock[k].ids
      PROVE  \/ rows'[lock[k].layer][i] = rows[lock[k].layer][i]
             \/ i \in Selected(CurOp(c).layer, CurOp(c).filter) \ tx[c].target
  <2>1. /\ tx[c].pc = "exec" /\ tx'[c] # tx[c] /\ Spares(k, tx[c]) /\ k \in LockIds
        /\ OpOfTx(tx[c]) = CurOp(c) /\ tx \in [Txs -> Tx]
    BY <1>1, IssuedType, TxForm DEF Inv, Guarded, Executes
  <2>2. lock[k].layer \in Layers /\ i \in Ids
    BY <1>1, <2>1 DEF Inv, TypeOK, Lock
  <2>3. CASE Exec(c)
    <3>1. CASE rows'[lock[k].layer][i] # rows[lock[k].layer][i]
      <4>1. lock[k].layer = CurOp(c).layer /\ i \in Selected(CurOp(c).layer, CurOp(c).filter)
        BY <1>1, <2>2, <2>3, <3>1, ExecRows
      <4>2. i \notin tx[c].target
        BY <1>1, <2>1, <4>1 DEF Spares, TableOfLock
      <4> QED BY <4>1, <4>2
    <3> QED BY <3>1
  <2>4. CASE rows' = rows
    BY <2>4
  <2>5. ASSUME NEW d \in Txs, doInsert(d) PROVE rows' = rows
    <3>1. d # c
      BY <2>1, <2>5 DEF doInsert
    <3>2. tx'[c] = tx[c]
      BY <2>1, <2>5, <3>1 DEF doInsert, NextOp, FailOp
    <3> QED BY <2>1, <3>2
  <2>6. ASSUME NEW d \in Txs, Exec(d), d # c PROVE rows' = rows
    <3>1. tx'[c] = tx[c]
      BY <2>1, <2>6 DEF Exec, NextOp, FailOp
    <3> QED BY <2>1, <3>1
  <2>7. \/ rows' = rows \/ \E d \in Txs : doInsert(d) \/ Exec(d)
    BY <1>1 DEF Next, LockStep, TxStep, LockFeature, countMatched, lockedIDs, StoreLock, Transaction,
       Retry, othersOfTx, SelectTarget, enforceLocks, Restart, Tick, vars
  <2> QED BY <2>3, <2>4, <2>5, <2>6, <2>7
<1>2. ASSUME Inv, [Next]_vars
      PROVE  [\A c \in Txs : Executes(c) =>
                \A k \in tx[c].held \ {tx[c].lockId} :
                   Active(k) =>
                      \A i \in lock[k].ids :
                         \/ rows'[lock[k].layer][i] = rows[lock[k].layer][i]
                         \/ i \in Selected(CurOp(c).layer, CurOp(c).filter) \ tx[c].target
             ]_vars
  BY <1>1, <1>2
<1> QED BY <1>2, Invariance, PTL DEF HeldLocksEnforced, Spec
=============================================================================
