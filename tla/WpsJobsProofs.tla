--------------------------- MODULE WpsJobsProofs ---------------------------
(***************************************************************************)
(* Proofs about WpsJobs for any number of jobs, replicas and faults: the  *)
(* state keeps its form, a job is in the hands of its request or of        *)
(* workers, never of both; the status of a job one worker was given moves  *)
(* forward, and every job lives as JobLife says.                           *)
(***************************************************************************)
EXTENDS WpsJobs, TLAPS

Queued(r, j) == \E i \in 1 .. Len(inbox[r]) : inbox[r][i] = j
InHand(r, j) == Queued(r, j) \/ (worker[r].pc # "idle" /\ worker[r].job = j)

(* A worker has the jobs it was sent by a request that wrote the file and  *)
(* has nothing left to do with it.                                         *)
HandsOK ==
    /\ \A r \in Replicas, j \in Jobs : InHand(r, j) => r \in sentTo[j]
    /\ \A j \in Jobs : sentTo[j] # {} => request[j].pc = "answered"

FilesOK ==
    \A j \in Jobs : request[j].pc \in {"write", "publish", "answered"} => file[j] # "none"

Inv == TypeOK /\ HandsOK /\ FilesOK

USE JobsAssumption, ReplicasAssumption, OutcomesAssumption, FaultsAssumption
-----------------------------------------------------------------------------
LEMMA IdleType == IdleWorker \in Worker /\ IdleWorker.pc = "idle"
BY DEF IdleWorker, Worker, Final

LEMMA ContentType == "empty" \in Content /\ "none" # "empty" /\ Statuses \subseteq Content
BY DEF Content

LEMMA InvGivesProperty == Inv => RequestThenWorker
BY DEF Inv, HandsOK, FilesOK, InHand, Queued, RequestThenWorker

LEMMA InitInv == Init => Inv
<1> SUFFICES ASSUME Init PROVE Inv
  OBVIOUS
<1>1. /\ file = [j \in Jobs |-> "none"] /\ request \in [Jobs -> [pc : {"new"}, at : Replicas]]
      /\ inbox = [r \in Replicas |-> << >>] /\ worker = [r \in Replicas |-> IdleWorker]
  BY DEF Init
<1>2. TypeOK
  <2>1. file \in [Jobs -> Content] /\ request \in [Jobs -> Request]
    BY <1>1 DEF Content, Request
  <2>2. inbox \in [Replicas -> Seq(Jobs)] /\ worker \in [Replicas -> Worker]
    BY <1>1, IdleType
  <2>3. faults \in 0 .. MaxFaults
    BY DEF Init
  <2> QED BY <2>1, <2>2, <2>3 DEF Init, TypeOK, Polled
<1>3. HandsOK
  <2>1. \A r \in Replicas, j \in Jobs : ~InHand(r, j)
    BY <1>1, IdleType DEF InHand, Queued
  <2> QED BY <2>1 DEF HandsOK, Init
<1>4. FilesOK
  BY <1>1 DEF FilesOK
<1> QED BY <1>2, <1>3, <1>4 DEF Inv
-----------------------------------------------------------------------------
(* Writing a status leaves a file that is there.                           *)
LEMMA Written ==
    ASSUME TypeOK, NEW j \in Jobs, NEW st \in Statuses, WriteStatus(j, st) \/ OpenStatus(j)
    PROVE  /\ file' \in [Jobs -> Content]
           /\ \A k \in Jobs : file'[k] # "none" \/ (k # j /\ file'[k] = file[k])
<1>1. file \in [Jobs -> Content] /\ st \in Content /\ "garbled" \in Content /\ st # "none"
  BY DEF TypeOK, Content, Statuses, Final
<1>2. \E c \in Content \ {"none"} : file' = [file EXCEPT ![j] = c]
  BY <1>1, ContentType DEF WriteStatus, OpenStatus
<1> QED BY <1>1, <1>2

(* A step of the request, before the job is sent.                          *)
LEMMA EnqueueKeeps ==
    ASSUME Inv, NEW j \in Jobs,
           Execute(j) \/ EnqueueOpen(j) \/ EnqueueWrite(j) \/ EnqueueWriteFails(j)
    PROVE  Inv'
<1>1. UNCHANGED << alive, subscribed, inbox, worker, polled, faults, sentTo, ranBy >>
  BY DEF Execute, EnqueueOpen, EnqueueWrite, EnqueueWriteFails, workerVars
<1>2. PICK pc \in {"open", "write", "publish", "failed"} :
        /\ request' = [request EXCEPT ![j].pc = pc]
        /\ request[j].pc \in {"new", "open", "write"}
  BY DEF Execute, EnqueueOpen, EnqueueWrite, EnqueueWriteFails, GotoRequest
<1>3. request \in [Jobs -> Request]
  BY DEF Inv, TypeOK
<1>4. /\ request' \in [Jobs -> Request] /\ request'[j].pc = pc
      /\ \A k \in Jobs : k # j => request'[k] = request[k]
  BY <1>2, <1>3 DEF Request
<1>5. /\ file' \in [Jobs -> Content]
      /\ \A k \in Jobs : file[k] # "none" => file'[k] # "none"
      /\ pc \in {"write", "publish"} => file'[j] # "none"
  <2>1. CASE UNCHANGED file
    <3>1. pc \in {"write", "publish"} => EnqueueOpen(j) \/ EnqueueWrite(j)
      BY <1>2, <1>3, <1>4 DEF Execute, EnqueueWriteFails, GotoRequest, Request
    <3>2. EnqueueOpen(j) \/ EnqueueWrite(j) => file'[j] # "none"
      BY Written DEF Inv, EnqueueOpen, EnqueueWrite, Statuses
    <3> QED BY <2>1, <3>1, <3>2 DEF Inv, TypeOK
  <2>2. CASE EnqueueOpen(j) \/ EnqueueWrite(j)
    BY <2>2, Written DEF Inv, EnqueueOpen, EnqueueWrite, Statuses
  <2> QED BY <2>1, <2>2 DEF Execute, EnqueueWriteFails
<1>6. TypeOK'
  BY <1>1, <1>4, <1>5 DEF Inv, TypeOK
<1>7. HandsOK'
  BY <1>1, <1>2, <1>4 DEF Inv, HandsOK, InHand, Queued
<1>8. FilesOK'
  BY <1>2, <1>4, <1>5 DEF Inv, FilesOK
<1> QED BY <1>6, <1>7, <1>8 DEF Inv

(* What a job appended to a queue adds to it, and what its head was.       *)
LEMMA QueueFacts ==
    ASSUME NEW q \in Seq(Jobs), NEW j \in Jobs
    PROVE  /\ Append(q, j) \in Seq(Jobs)
           /\ \A i \in 1 .. Len(Append(q, j)) :
                Append(q, j)[i] = j \/ (i \in 1 .. Len(q) /\ Append(q, j)[i] = q[i])
           /\ q # << >> => /\ Head(q) \in Jobs /\ Head(q) = q[1] /\ 1 \in 1 .. Len(q)
                           /\ Tail(q) \in Seq(Jobs)
                           /\ \A i \in 1 .. Len(Tail(q)) :
                                i + 1 \in 1 .. Len(q) /\ Tail(q)[i] = q[i + 1]
OBVIOUS

(* The job is sent to the workers there are, and its request is done.      *)
LEMMA PublishKeeps == ASSUME Inv, NEW j \in Jobs, EnqueuePublish(j) PROVE Inv'
<1>1. /\ UNCHANGED << file, alive, subscribed, worker, polled, faults, ranBy >>
      /\ request[j].pc = "publish" /\ request \in [Jobs -> Request]
      /\ inbox \in [Replicas -> Seq(Jobs)] /\ sentTo \in [Jobs -> SUBSET Connected]
  BY DEF EnqueuePublish, Inv, TypeOK
<1>2. PICK pc \in {"answered", "failed"} : GotoRequest(j, pc)
  BY DEF EnqueuePublish
<1>3. /\ request' \in [Jobs -> Request] /\ request'[j].pc = pc
      /\ \A k \in Jobs : k # j => request'[k] = request[k]
  BY <1>1, <1>2 DEF Request, GotoRequest
<1>4. FilesOK'
  BY <1>1, <1>3 DEF Inv, FilesOK
<1>5. CASE UNCHANGED << inbox, sentTo >>
  <2>1. TypeOK'
    BY <1>1, <1>3, <1>5 DEF Inv, TypeOK
  <2>2. HandsOK'
    BY <1>1, <1>3, <1>5 DEF Inv, HandsOK, InHand, Queued
  <2> QED BY <1>4, <2>1, <2>2 DEF Inv
<1>6. CASE ~UNCHANGED << inbox, sentTo >>
  <2>1. Deliver(j) /\ GotoRequest(j, "answered")
    BY <1>6 DEF EnqueuePublish
  <2>2. request'[j].pc = "answered"
    BY <1>1, <2>1 DEF GotoRequest, Request
  <2>3. inbox' \in [Replicas -> Seq(Jobs)]
    BY <1>1, <2>1, QueueFacts DEF Deliver
  <2>4. /\ subscribed \in SUBSET Connected /\ sentTo[j] = {}
        /\ sentTo' = [sentTo EXCEPT ![j] = subscribed]
    BY <1>1, <2>1 DEF Deliver, Inv, TypeOK, HandsOK
  <2>5. /\ sentTo' \in [Jobs -> SUBSET Connected] /\ sentTo'[j] = subscribed
        /\ \A k \in Jobs : sentTo[k] \subseteq sentTo'[k] /\ (k # j => sentTo'[k] = sentTo[k])
    BY <1>1, <2>4
  <2>6. ASSUME NEW r \in Replicas, NEW k \in Jobs, Queued(r, k)'
        PROVE  Queued(r, k) \/ (k = j /\ r \in subscribed)
    <3>1. CASE r \in subscribed
      <4>1. inbox'[r] = Append(inbox[r], j) /\ inbox[r] \in Seq(Jobs)
        BY <1>1, <2>1, <3>1 DEF Deliver
      <4> QED BY <2>6, <3>1, <4>1, QueueFacts DEF Queued
    <3>2. CASE r \notin subscribed
      BY <2>1, <2>6, <3>2 DEF Queued, Deliver
    <3> QED BY <3>1, <3>2
  <2>7. TypeOK'
    <3>1. \A k \in Jobs : ranBy'[k] \subseteq sentTo'[k]
      BY <1>1, <2>5 DEF Inv, TypeOK
    <3> QED BY <1>1, <1>3, <2>3, <2>5, <3>1 DEF Inv, TypeOK
  <2>8. ASSUME NEW r \in Replicas, NEW k \in Jobs, InHand(r, k)'
        PROVE  r \in sentTo'[k]
    <3>1. InHand(r, k) \/ (k = j /\ r \in subscribed)
      BY <1>1, <2>6, <2>8 DEF InHand
    <3> QED BY <2>5, <3>1 DEF Inv, HandsOK
  <2>9. \A k \in Jobs : sentTo'[k] # {} => request'[k].pc = "answered"
    BY <1>3, <2>2, <2>5 DEF Inv, HandsOK
  <2>10. HandsOK'
    BY <2>8, <2>9 DEF HandsOK
  <2> QED BY <1>4, <2>7, <2>10 DEF Inv
<1> QED BY <1>5, <1>6
-----------------------------------------------------------------------------
LEMMA ReceiveKeeps == ASSUME Inv, NEW r \in Replicas, Receive(r) PROVE Inv'
<1> DEFINE job == Head(inbox[r])
<1>1. /\ UNCHANGED << request, alive, subscribed, polled, faults, sentTo, file, ranBy >>
      /\ inbox \in [Replicas -> Seq(Jobs)] /\ worker \in [Replicas -> Worker]
      /\ inbox[r] # << >> /\ inbox' = [inbox EXCEPT ![r] = Tail(@)]
      /\ worker' = [worker EXCEPT ![r].pc = "openRunning", ![r].job = job]
  BY DEF Receive, requestVars, Inv, TypeOK
<1>2. /\ job \in Jobs /\ job = inbox[r][1] /\ 1 \in 1 .. Len(inbox[r])
      /\ Tail(inbox[r]) \in Seq(Jobs)
      /\ \A i \in 1 .. Len(Tail(inbox[r])) :
           i + 1 \in 1 .. Len(inbox[r]) /\ Tail(inbox[r])[i] = inbox[r][i + 1]
  BY <1>1, QueueFacts, JobsAssumption
<1> HIDE DEF job
<1>3. /\ worker' \in [Replicas -> Worker] /\ worker'[r].job = job
      /\ \A q \in Replicas : q # r => worker'[q] = worker[q]
  <2> DEFINE w == [worker[r] EXCEPT !.pc = "openRunning", !.job = job]
  <2>1. worker[r] \in Worker /\ job \in Jobs
    BY <1>1, <1>2
  <2>2. w \in Worker /\ w.job = job
    BY <2>1 DEF Worker
  <2>3. worker' = [worker EXCEPT ![r] = w]
    BY <1>1
  <2> HIDE DEF w
  <2> QED BY <1>1, <2>2, <2>3
<1>4. inbox' \in [Replicas -> Seq(Jobs)]
  BY <1>1, <1>2
<1>5. TypeOK'
  BY <1>1, <1>3, <1>4 DEF Inv, TypeOK
<1>6. \A q \in Replicas, j \in Jobs : InHand(q, j)' => InHand(q, j)
  <2> SUFFICES ASSUME NEW q \in Replicas, NEW j \in Jobs, InHand(q, j)' PROVE InHand(q, j)
    OBVIOUS
  <2>1. CASE q # r
    BY <1>1, <1>3, <2>1 DEF InHand, Queued
  <2>2. CASE q = r
    <3>1. Queued(r, j)' => Queued(r, j)
      <4>1. inbox'[r] = Tail(inbox[r])
        BY <1>1
      <4> QED BY <1>2, <4>1 DEF Queued
    <3>2. worker'[r].job = j => Queued(r, j)
      BY <1>2, <1>3 DEF Queued
    <3> QED BY <2>2, <3>1, <3>2 DEF InHand
  <2> QED BY <2>1, <2>2
<1>7. HandsOK' /\ FilesOK'
  BY <1>1, <1>6 DEF Inv, HandsOK, FilesOK
<1> QED BY <1>5, <1>7 DEF Inv

(* The other steps of a worker keep its job or lay it down.                *)
LEMMA WorkKeeps ==
    ASSUME Inv, NEW r \in Replicas,
           RunningOpen(r) \/ RunningWrite(r) \/ ExecNow(r) \/ FinalOpen(r) \/ FinalWrite(r)
    PROVE  Inv'
<1> DEFINE w == worker[r]
<1>1. /\ UNCHANGED << request, alive, subscribed, polled, faults, sentTo, inbox >>
      /\ w.pc # "idle"
  BY DEF RunningOpen, RunningWrite, ExecNow, FinalOpen, FinalWrite, requestVars
<1>2. worker \in [Replicas -> Worker] /\ w \in Worker /\ w.job \in Jobs /\ w.outcome \in Final
  BY DEF Inv, TypeOK, Worker
<1>3. /\ worker' \in [Replicas -> Worker]
      /\ \A q \in Replicas : q # r => worker'[q] = worker[q]
      /\ worker'[r].pc = "idle" \/ worker'[r].job = w.job
  <2>1. CASE FinalWrite(r)
    BY <1>2, <2>1, IdleType DEF FinalWrite
  <2>2. CASE ExecNow(r)
    <3>1. PICK o \in Outcomes :
            worker' = [worker EXCEPT ![r].pc = "openFinal", ![r].outcome = o]
      BY <2>2 DEF ExecNow
    <3>2. o \in Final
      BY OutcomesAssumption DEF Final
    <3> QED BY <1>2, <3>1, <3>2 DEF Worker
  <2>3. CASE RunningOpen(r) \/ RunningWrite(r) \/ FinalOpen(r)
    <3>1. PICK pc \in {"writeRunning", "exec", "writeFinal"} :
            worker' = [worker EXCEPT ![r].pc = pc]
      BY <2>3 DEF RunningOpen, RunningWrite, FinalOpen, GotoWorker
    <3> QED BY <1>2, <3>1 DEF Worker
  <2> QED BY <2>1, <2>2, <2>3
<1>4. /\ file' \in [Jobs -> Content]
      /\ \A j \in Jobs : file[j] # "none" => file'[j] # "none"
  <2>1. CASE ExecNow(r)
    BY <2>1 DEF ExecNow, Inv, TypeOK
  <2>2. CASE ~ExecNow(r)
    <3>1. \E st \in Statuses : WriteStatus(w.job, st) \/ OpenStatus(w.job)
      BY <1>2, <2>2 DEF RunningOpen, RunningWrite, FinalOpen, FinalWrite, Statuses
    <3> HIDE DEF w
    <3> QED BY <1>2, <3>1, Written DEF Inv
  <2> QED BY <2>1, <2>2
<1>5. /\ ranBy' \in [Jobs -> SUBSET Replicas]
      /\ \A j \in Jobs : ranBy'[j] \subseteq sentTo[j]
  <2>1. r \in sentTo[w.job]
    BY <1>1, <1>2 DEF Inv, HandsOK, InHand
  <2>2. ranBy' = ranBy \/ ranBy' = [ranBy EXCEPT ![w.job] = @ \cup {r}]
    BY DEF RunningOpen, RunningWrite, ExecNow, FinalOpen, FinalWrite
  <2>3. ranBy \in [Jobs -> SUBSET Replicas] /\ \A j \in Jobs : ranBy[j] \subseteq sentTo[j]
    BY DEF Inv, TypeOK
  <2> HIDE DEF w
  <2> QED BY <1>2, <2>1, <2>2, <2>3
<1>6. TypeOK'
  BY <1>1, <1>3, <1>4, <1>5 DEF Inv, TypeOK
<1>7. \A q \in Replicas, j \in Jobs : InHand(q, j)' => InHand(q, j)
  BY <1>1, <1>3 DEF InHand, Queued
<1>8. HandsOK' /\ FilesOK'
  BY <1>1, <1>4, <1>7 DEF Inv, HandsOK, FilesOK
<1> QED BY <1>6, <1>8 DEF Inv
-----------------------------------------------------------------------------
(* A status write that fails leaves the file and the rest of the work.     *)
LEMMA WriteFailKeeps == ASSUME Inv, NEW r \in Replicas, WorkerWriteFails(r) PROVE Inv'
<1>1. /\ UNCHANGED << file, request, alive, subscribed, inbox, polled, sentTo, ranBy >>
      /\ worker[r].pc # "idle" /\ worker \in [Replicas -> Worker]
      /\ \/ worker' = [worker EXCEPT ![r].pc = "exec"]
         \/ worker' = [worker EXCEPT ![r] = IdleWorker]
  BY DEF WorkerWriteFails, GotoWorker, Inv, TypeOK
<1>2. faults' \in 0 .. MaxFaults
  <2>1. \A n \in 0 .. MaxFaults : n < MaxFaults => n + 1 \in 0 .. MaxFaults
    BY FaultsAssumption
  <2> QED BY <2>1 DEF WorkerWriteFails, Inv, TypeOK
<1>3. /\ worker' \in [Replicas -> Worker]
      /\ \A q \in Replicas : q # r => worker'[q] = worker[q]
      /\ worker'[r].pc = "idle" \/ worker'[r].job = worker[r].job
  <2>1. CASE worker' = [worker EXCEPT ![r].pc = "exec"]
    BY <1>1, <2>1 DEF Worker
  <2>2. CASE worker' = [worker EXCEPT ![r] = IdleWorker]
    BY <1>1, <2>2, IdleType
  <2> QED BY <1>1, <2>1, <2>2
<1>4. TypeOK'
  BY <1>1, <1>2, <1>3 DEF Inv, TypeOK
<1>5. \A q \in Replicas, j \in Jobs : InHand(q, j)' => InHand(q, j)
  BY <1>1, <1>3 DEF InHand, Queued
<1>6. HandsOK' /\ FilesOK'
  BY <1>1, <1>5 DEF Inv, HandsOK, FilesOK
<1> QED BY <1>4, <1>6 DEF Inv

LEMMA PollKeeps == ASSUME Inv, NEW j \in Jobs, Poll(j) PROVE Inv'
<1>1. UNCHANGED << file, request, alive, subscribed, inbox, worker, faults, sentTo, ranBy >>
  BY DEF Poll
<1>2. polled' \in [Jobs -> Polled]
  BY DEF Poll, Inv, TypeOK, Polled, Status
<1>3. TypeOK' /\ HandsOK' /\ FilesOK'
  BY <1>1, <1>2 DEF Inv, TypeOK, HandsOK, FilesOK, InHand, Queued
<1> QED BY <1>3 DEF Inv

LEMMA CrashKeeps == ASSUME Inv, NEW r \in Replicas, Crash(r) PROVE Inv'
<1>1. /\ UNCHANGED << file, polled, sentTo, ranBy >>
      /\ alive \in [Replicas -> BOOLEAN] /\ alive' = [alive EXCEPT ![r] = FALSE]
      /\ subscribed' = subscribed \ {r} /\ subscribed \subseteq {q \in Connected : alive[q]}
      /\ inbox \in [Replicas -> Seq(Jobs)] /\ inbox' = [inbox EXCEPT ![r] = << >>]
      /\ worker \in [Replicas -> Worker] /\ worker' = [worker EXCEPT ![r] = IdleWorker]
      /\ request \in [Jobs -> Request]
  BY DEF Crash, Inv, TypeOK
<1>2. faults' \in 0 .. MaxFaults
  <2>1. \A n \in 0 .. MaxFaults : n < MaxFaults => n + 1 \in 0 .. MaxFaults
    BY FaultsAssumption
  <2> QED BY <2>1 DEF Crash, Inv, TypeOK
<1>3. /\ request' \in [Jobs -> Request]
      /\ \A j \in Jobs : request'[j] = request[j]
            \/ (request[j].pc # "answered" /\ request'[j].pc = "failed")
  <2>1. ASSUME NEW j \in Jobs
        PROVE  /\ request'[j] \in Request
               /\ request'[j] = request[j]
                   \/ (request[j].pc # "answered" /\ request'[j].pc = "failed")
    <3>1. request[j] \in Request
      BY <1>1
    <3>2. \/ request'[j] = request[j]
          \/ request[j].pc # "answered" /\ request'[j] = [request[j] EXCEPT !.pc = "failed"]
      BY DEF Crash
    <3> QED BY <3>1, <3>2 DEF Request
  <2>2. request' = [j \in Jobs |-> request'[j]]
    BY DEF Crash
  <2> QED BY <2>1, <2>2
<1>4. inbox' \in [Replicas -> Seq(Jobs)] /\ worker' \in [Replicas -> Worker]
  BY <1>1, IdleType
<1>5. TypeOK'
  <2>1. subscribed' \subseteq {q \in Connected : alive'[q]}
    BY <1>1
  <2> QED BY <1>1, <1>2, <1>3, <1>4, <2>1 DEF Inv, TypeOK
<1>6. \A q \in Replicas, j \in Jobs : InHand(q, j)' => InHand(q, j)
  BY <1>1, IdleType DEF InHand, Queued
<1>7. HandsOK' /\ FilesOK'
  BY <1>1, <1>3, <1>6 DEF Inv, HandsOK, FilesOK
<1> QED BY <1>5, <1>7 DEF Inv

LEMMA NextInv == ASSUME Inv, [Next]_vars PROVE Inv'
<1>1. ASSUME NEW r \in Replicas, Boot(r) \/ Subscribe(r) PROVE Inv'
  <2>1. /\ UNCHANGED << file, request, inbox, worker, polled, faults, sentTo, ranBy >>
        /\ alive \in [Replicas -> BOOLEAN] /\ subscribed \subseteq {q \in Connected : alive[q]}
    BY <1>1 DEF Boot, Subscribe, Inv, TypeOK
  <2>2. /\ alive' \in [Replicas -> BOOLEAN]
        /\ subscribed' \subseteq {q \in Connected : alive'[q]}
    BY <1>1, <2>1 DEF Boot, Subscribe
  <2>3. TypeOK'
    BY <2>1, <2>2 DEF Inv, TypeOK
  <2>4. HandsOK' /\ FilesOK'
    BY <2>1 DEF Inv, HandsOK, FilesOK, InHand, Queued
  <2> QED BY <2>3, <2>4 DEF Inv
<1>2. CASE UNCHANGED vars
  BY <1>2 DEF vars, Inv, TypeOK, HandsOK, FilesOK, InHand, Queued
<1> QED
  BY <1>1, <1>2, EnqueueKeeps, PublishKeeps, ReceiveKeeps, WorkKeeps, WriteFailKeeps,
     PollKeeps, CrashKeeps
  DEF Next, EnqueueStep, WorkerStep

THEOREM Invariance == Spec => []Inv
BY InitInv, NextInv, PTL DEF Spec

(* The state keeps its form: only live replicas that were connected at     *)
(* boot have a worker, and only who was given a job executes it            *)
(* (RunWorker).                                                            *)
THEOREM WpsTypeCorrect == Spec => []TypeOK
BY Invariance, PTL DEF Inv

(* A job that a worker has, or that waits for one, was sent by a request   *)
(* that wrote its file before and touches it no more (Enqueue, RunWorker). *)
THEOREM RequestsPrecedeWorkers == Spec => []RequestThenWorker
BY Invariance, InvGivesProperty, PTL
-----------------------------------------------------------------------------
(* A job that one worker was given is in the hands of one writer at a      *)
(* time, so the step it has reached tells what its file holds and what a   *)
(* client can have been shown of it.                                       *)
Holds(r, j) == worker[r].pc # "idle" /\ worker[r].job = j

(* A job is delivered once.                                                *)
OnceOK ==
    \A r \in Replicas :
        /\ \A i, k \in 1 .. Len(inbox[r]) : inbox[r][i] = inbox[r][k] => i = k
        /\ \A j \in Jobs : Queued(r, j) => ~Holds(r, j)

(* What the file holds before the job is sent, in the queue, and at each   *)
(* step of the worker; that it runs may not have been written.             *)
ContentOK(j) ==
    /\ request[j].pc \in {"new", "open"} => file[j] = "none"
    /\ request[j].pc = "write" => file[j] = "empty"
    /\ request[j].pc = "publish" => file[j] = "accepted"
    /\ \A r \in Replicas :
         /\ Queued(r, j) => file[j] = "accepted"
         /\ Holds(r, j) =>
              /\ worker[r].pc = "openRunning" => file[j] = "accepted"
              /\ worker[r].pc \in {"writeRunning", "writeFinal"} => file[j] = "empty"
              /\ worker[r].pc \in {"exec", "openFinal"} =>
                   file[j] \in {"accepted", "empty", "running"}

(* What clients were shown is not ahead of the work, and is kept by a file *)
(* that nobody writes again.                                               *)
ShownOK(j) ==
    /\ polled[j] # "none" => request[j].pc = "answered"
    /\ polled[j] = "running" => file[j] # "accepted"
    /\ polled[j] \in Final => file[j] = polled[j]
    /\ \A r \in Replicas :
         /\ Queued(r, j) => polled[j] \in {"none", "accepted"}
         /\ Holds(r, j) =>
              /\ polled[j] \in {"none", "accepted", "running"}
              /\ worker[r].pc \in {"openRunning", "writeRunning"} => polled[j] # "running"

(* Who has executed a job has what follows of it in hand, or is done.      *)
RanOK(j) ==
    /\ request[j].pc # "answered" => ranBy[j] = {}
    /\ file[j] \in Final => ranBy[j] # {}
    /\ \A r \in Replicas :
         /\ Queued(r, j) => ranBy[j] = {}
         /\ Holds(r, j) => (ranBy[j] # {} <=> worker[r].pc \in {"openFinal", "writeFinal"})

(* What a worker is about to write is an outcome of its process.           *)
OutcomeOK ==
    /\ \A r \in Replicas :
         worker[r].pc \in {"openFinal", "writeFinal"} => worker[r].outcome \in Outcomes
    /\ \A j \in Jobs : file[j] \in Final => file[j] \in Outcomes

(* What is known of a job that at most one worker was given.               *)
JobOK(j) == ~Shared(j) => ContentOK(j) /\ ShownOK(j) /\ RanOK(j)

LifeInv == Inv /\ OnceOK /\ OutcomeOK /\ \A j \in Jobs : JobOK(j)

LEMMA OutcomeNext == ASSUME Inv, OutcomeOK, [Next]_vars PROVE OutcomeOK'
<1>1. worker \in [Replicas -> Worker] /\ file \in [Jobs -> Content]
  BY DEF Inv, TypeOK
<1>2. ASSUME NEW r \in Replicas, worker'[r].pc \in {"openFinal", "writeFinal"}
      PROVE  worker'[r].outcome \in Outcomes
  <2>1. CASE \E q \in Replicas : WorkerStep(q)
    <3>1. PICK q \in Replicas : WorkerStep(q)
      BY <2>1
    <3>2. CASE q # r
      <4>1. worker'[r] = worker[r]
        BY <1>1, <3>1, <3>2 DEF WorkerStep, Receive, RunningOpen, RunningWrite, ExecNow,
                                FinalOpen, FinalWrite, GotoWorker
      <4> QED BY <1>2, <4>1 DEF OutcomeOK
    <3>3. CASE q = r
      <4>1. CASE ExecNow(r)
        BY <1>1, <4>1 DEF ExecNow, Worker
      <4>2. CASE FinalOpen(r)
        BY <1>1, <4>2 DEF FinalOpen, GotoWorker, Worker, OutcomeOK
      <4>3. CASE Receive(r) \/ RunningOpen(r) \/ RunningWrite(r) \/ FinalWrite(r)
        BY <1>1, <1>2, <4>3, IdleType
        DEF Receive, RunningOpen, RunningWrite, FinalWrite, GotoWorker, Worker
      <4> QED BY <3>1, <3>3, <4>1, <4>2, <4>3 DEF WorkerStep
    <3> QED BY <3>2, <3>3
  <2>2. CASE ~\E q \in Replicas : WorkerStep(q)
    <3>1. worker'[r] = worker[r] \/ worker'[r].pc \in {"idle", "exec"}
      BY <1>1, <2>2, IdleType
      DEF Next, vars, EnqueueStep, Execute, EnqueueOpen, EnqueueWrite, EnqueueWriteFails,
          EnqueuePublish, Poll, WorkerWriteFails, Crash, Boot, Subscribe, workerVars,
          GotoWorker, Worker
    <3> QED BY <1>2, <3>1 DEF OutcomeOK
  <2> QED BY <2>1, <2>2
<1>3. ASSUME NEW j \in Jobs, file'[j] \in Final PROVE file'[j] \in Outcomes
  <2>1. CASE file'[j] = file[j]
    BY <1>3, <2>1 DEF OutcomeOK
  <2>2. CASE file'[j] # file[j]
    <3>1. PICK k \in Jobs, st \in {"accepted", "running"} \cup Outcomes :
            OpenStatus(k) \/ WriteStatus(k, st)
      <4>1. CASE \E r \in Replicas : FinalWrite(r)
        BY <1>1, <4>1 DEF FinalWrite, OutcomeOK, Worker
      <4>2. CASE \E r \in Replicas : RunningOpen(r) \/ RunningWrite(r) \/ FinalOpen(r)
        BY <1>1, <4>2 DEF RunningOpen, RunningWrite, FinalOpen, Worker
      <4>3. CASE \E k \in Jobs : EnqueueOpen(k) \/ EnqueueWrite(k)
        BY <4>3 DEF EnqueueOpen, EnqueueWrite
      <4> QED
        BY <2>2, <4>1, <4>2, <4>3
        DEF Next, vars, EnqueueStep, WorkerStep, Execute, EnqueueWriteFails, EnqueuePublish,
            Receive, ExecNow, Poll, WorkerWriteFails, Crash, Boot, Subscribe
    <3>2. file'[j] \in {"empty", "garbled", st}
      BY <1>1, <2>2, <3>1 DEF OpenStatus, WriteStatus
    <3> QED BY <1>3, <3>2 DEF Final
  <2> QED BY <2>1, <2>2
<1> QED BY <1>2, <1>3 DEF OutcomeOK

(* A step that leaves a job's file alone and gives nobody its work.        *)
LEMMA JobUntouched ==
    ASSUME NEW j \in Jobs, JobOK(j), sentTo'[j] = sentTo[j],
           file'[j] = file[j], polled'[j] = polled[j], ranBy'[j] = ranBy[j],
           \/ request'[j].pc = request[j].pc
           \/ request[j].pc # "answered" /\ request'[j].pc = "failed",
           \A r \in Replicas :
             /\ Queued(r, j)' => Queued(r, j)
             /\ Holds(r, j)' => Holds(r, j) /\ worker'[r].pc = worker[r].pc
    PROVE  JobOK(j)'
<1>1. Shared(j)' = Shared(j)
  BY DEF Shared
<1>2. ASSUME ContentOK(j), ShownOK(j), RanOK(j)
      PROVE  ContentOK(j)' /\ ShownOK(j)' /\ RanOK(j)'
  BY <1>2 DEF ContentOK, ShownOK, RanOK
<1> QED BY <1>1, <1>2 DEF JobOK

LEMMA OnceInit == Init => LifeInv
<1> SUFFICES ASSUME Init PROVE LifeInv
  OBVIOUS
<1>1. /\ file = [j \in Jobs |-> "none"] /\ request \in [Jobs -> [pc : {"new"}, at : Replicas]]
      /\ inbox = [r \in Replicas |-> << >>] /\ worker = [r \in Replicas |-> IdleWorker]
      /\ polled = [j \in Jobs |-> "none"] /\ ranBy = [j \in Jobs |-> {}]
  BY DEF Init
<1>2. \A r \in Replicas, j \in Jobs : ~Queued(r, j) /\ ~Holds(r, j)
  BY <1>1, IdleType DEF Queued, Holds
<1>3. OnceOK
  BY <1>1, <1>2 DEF OnceOK
<1>4. \A j \in Jobs : ContentOK(j) /\ ShownOK(j) /\ RanOK(j)
  BY <1>1, <1>2 DEF ContentOK, ShownOK, RanOK, Final
<1>5. OutcomeOK
  BY <1>1, IdleType DEF OutcomeOK, Final
<1> QED BY <1>3, <1>4, <1>5, InitInv DEF LifeInv, JobOK

(* Only one replica has a job that is not shared.                          *)
LEMMA OneHand ==
    ASSUME Inv, NEW j \in Jobs, ~Shared(j), NEW r \in Replicas, NEW q \in Replicas,
           InHand(r, j), InHand(q, j)
    PROVE  r = q
BY DEF Inv, HandsOK, Shared

(* A job that was not sent is not shared.                                  *)
LEMMA UnsentAlone ==
    ASSUME Inv, NEW j \in Jobs, request[j].pc # "answered" PROVE sentTo[j] = {} /\ ~Shared(j)
BY DEF Inv, HandsOK, Shared

LEMMA OnceRequest ==
    ASSUME LifeInv, NEW j \in Jobs,
           Execute(j) \/ EnqueueOpen(j) \/ EnqueueWrite(j) \/ EnqueueWriteFails(j)
    PROVE  OnceOK' /\ \A k \in Jobs : JobOK(k)'
<1>1. UNCHANGED << inbox, worker, polled, sentTo, ranBy >>
  BY DEF Execute, EnqueueOpen, EnqueueWrite, EnqueueWriteFails, workerVars
<1>2. request \in [Jobs -> Request] /\ file \in [Jobs -> Content]
  BY DEF LifeInv, Inv, TypeOK
<1>3. ContentOK(j) /\ ShownOK(j) /\ RanOK(j)
  BY UnsentAlone DEF LifeInv, JobOK, Execute, EnqueueOpen, EnqueueWrite, EnqueueWriteFails
<1>4. request[j].pc \in {"new", "open", "write"}
  BY DEF Execute, EnqueueOpen, EnqueueWrite, EnqueueWriteFails
<1>5. \A r \in Replicas : ~Queued(r, j) /\ ~Holds(r, j)
  BY <1>4 DEF LifeInv, Inv, HandsOK, InHand, Holds
<1>6. polled[j] = "none"
  BY <1>3, <1>4 DEF ShownOK
<1>7. \A r \in Replicas, k \in Jobs :
        /\ Queued(r, k)' <=> Queued(r, k)
        /\ Holds(r, k)' <=> Holds(r, k)
  BY <1>1 DEF Queued, Holds
<1>8. OnceOK'
  BY <1>1, <1>7 DEF LifeInv, OnceOK
<1>9. /\ request'[j].pc \in {"open", "write", "publish", "failed"}
      /\ request'[j].pc = "open" => file'[j] = "none"
      /\ request'[j].pc = "write" => file'[j] = "empty"
      /\ request'[j].pc = "publish" => file'[j] = "accepted"
      /\ file'[j] \in Final => file[j] \in Final
  <2>1. CASE Execute(j)
    BY <1>2, <1>3, <2>1 DEF Execute, GotoRequest, Request, ContentOK
  <2>2. CASE EnqueueOpen(j)
    BY <1>2, <2>2 DEF EnqueueOpen, OpenStatus, GotoRequest, Request, Final
  <2>3. CASE EnqueueWrite(j)
    BY <1>2, <1>3, <2>3 DEF EnqueueWrite, WriteStatus, GotoRequest, Request, ContentOK, Final
  <2>4. CASE EnqueueWriteFails(j)
    BY <1>2, <2>4 DEF EnqueueWriteFails, GotoRequest, Request
  <2> QED BY <2>1, <2>2, <2>3, <2>4
<1>10. JobOK(j)'
  <2>1. ContentOK(j)' /\ ShownOK(j)' /\ RanOK(j)'
    BY <1>1, <1>3, <1>4, <1>5, <1>6, <1>7, <1>9 DEF ContentOK, ShownOK, RanOK, Final
  <2> QED BY <2>1 DEF JobOK
<1>11. ASSUME NEW k \in Jobs, k # j PROVE JobOK(k)'
  <2>1. request'[k] = request[k] /\ file'[k] = file[k]
    BY <1>2, <1>11 DEF Execute, EnqueueOpen, EnqueueWrite, EnqueueWriteFails, GotoRequest,
                       OpenStatus, WriteStatus
  <2>2. JobOK(k)
    BY DEF LifeInv
  <2> QED BY <1>1, <1>7, <2>1, <2>2, JobUntouched
<1> QED BY <1>8, <1>10, <1>11
(* A message behind those of a queue, and what is left behind its head.    *)
LEMMA QueueOnce ==
    ASSUME NEW q \in Seq(Jobs), NEW j \in Jobs,
           \A i, k \in 1 .. Len(q) : q[i] = q[k] => i = k
    PROVE  /\ (\A i \in 1 .. Len(q) : q[i] # j) =>
                \A i, k \in 1 .. Len(Append(q, j)) :
                  Append(q, j)[i] = Append(q, j)[k] => i = k
           /\ q # << >> =>
                /\ \A i, k \in 1 .. Len(Tail(q)) : Tail(q)[i] = Tail(q)[k] => i = k
                /\ \A i \in 1 .. Len(Tail(q)) : Tail(q)[i] # Head(q)
<1>1. ASSUME \A i \in 1 .. Len(q) : q[i] # j,
             NEW i \in 1 .. Len(Append(q, j)), NEW k \in 1 .. Len(Append(q, j)),
             Append(q, j)[i] = Append(q, j)[k]
      PROVE  i = k
  <2>1. /\ i \in 1 .. Len(q) => Append(q, j)[i] = q[i]
        /\ k \in 1 .. Len(q) => Append(q, j)[k] = q[k]
        /\ i \notin 1 .. Len(q) => i = Len(q) + 1 /\ Append(q, j)[i] = j
        /\ k \notin 1 .. Len(q) => k = Len(q) + 1 /\ Append(q, j)[k] = j
    OBVIOUS
  <2> QED BY <1>1, <2>1
<1>2. ASSUME q # << >>
      PROVE  /\ Len(Tail(q)) = Len(q) - 1 /\ Len(q) \in Nat \ {0} /\ Head(q) = q[1]
             /\ \A i \in 1 .. Len(Tail(q)) : Tail(q)[i] = q[i + 1]
  BY <1>2
<1>3. ASSUME q # << >>, NEW i \in 1 .. Len(Tail(q)), NEW k \in 1 .. Len(Tail(q)),
             Tail(q)[i] = Tail(q)[k]
      PROVE  i = k
  <2>1. i + 1 \in 1 .. Len(q) /\ k + 1 \in 1 .. Len(q) /\ q[i + 1] = q[k + 1]
    BY <1>2, <1>3
  <2>2. i + 1 = k + 1
    BY <2>1
  <2> QED BY <1>2, <1>3, <2>2
<1>4. ASSUME q # << >>, NEW i \in 1 .. Len(Tail(q)), Tail(q)[i] = Head(q) PROVE FALSE
  <2>1. i + 1 \in 1 .. Len(q) /\ 1 \in 1 .. Len(q) /\ q[i + 1] = q[1]
    BY <1>2, <1>4
  <2>2. i + 1 = 1
    BY <2>1
  <2> QED BY <1>2, <1>4, <2>2
<1> QED BY <1>1, <1>3, <1>4

LEMMA OncePublish ==
    ASSUME LifeInv, NEW j \in Jobs, EnqueuePublish(j)
    PROVE  OnceOK' /\ \A k \in Jobs : JobOK(k)'
<1>1. /\ UNCHANGED << file, worker, polled, ranBy >> /\ request[j].pc = "publish"
      /\ request \in [Jobs -> Request] /\ inbox \in [Replicas -> Seq(Jobs)]
  BY DEF EnqueuePublish, LifeInv, Inv, TypeOK
<1>2. PICK pc \in {"answered", "failed"} : GotoRequest(j, pc)
  BY DEF EnqueuePublish
<1>3. /\ request'[j].pc = pc
      /\ \A k \in Jobs : k # j => request'[k] = request[k]
  BY <1>1, <1>2 DEF Request, GotoRequest
<1>4. \A r \in Replicas : ~Queued(r, j) /\ ~Holds(r, j)
  BY <1>1 DEF LifeInv, Inv, HandsOK, InHand, Holds
<1>5. ContentOK(j) /\ ShownOK(j) /\ RanOK(j) /\ file[j] = "accepted" /\ polled[j] = "none"
  BY <1>1, UnsentAlone DEF LifeInv, JobOK, ContentOK, ShownOK
<1>6. \A r \in Replicas, k \in Jobs : Holds(r, k)' <=> Holds(r, k)
  BY <1>1 DEF Holds
<1>7. ASSUME NEW r \in Replicas
      PROVE  /\ \A i, k \in 1 .. Len(inbox'[r]) : inbox'[r][i] = inbox'[r][k] => i = k
             /\ \A k \in Jobs \ {j} : Queued(r, k)' => Queued(r, k)
  <2>1. inbox[r] \in Seq(Jobs) /\ inbox'[r] \in {inbox[r], Append(inbox[r], j)}
    BY <1>1 DEF EnqueuePublish, Deliver
  <2>2. \A i, k \in 1 .. Len(inbox[r]) : inbox[r][i] = inbox[r][k] => i = k
    BY DEF LifeInv, OnceOK
  <2>3. \A i \in 1 .. Len(inbox[r]) : inbox[r][i] # j
    BY <1>4 DEF Queued
  <2>4. \A i, k \in 1 .. Len(inbox'[r]) : inbox'[r][i] = inbox'[r][k] => i = k
    <3>1. CASE inbox'[r] = inbox[r]
      BY <2>2, <3>1
    <3>2. CASE inbox'[r] = Append(inbox[r], j)
      BY <2>1, <2>2, <2>3, <3>2, QueueOnce
    <3> QED BY <2>1, <3>1, <3>2
  <2>5. \A k \in Jobs \ {j} : Queued(r, k)' => Queued(r, k)
    <3>1. CASE inbox'[r] = inbox[r]
      BY <3>1 DEF Queued
    <3>2. CASE inbox'[r] = Append(inbox[r], j)
      BY <2>1, <3>2, QueueFacts DEF Queued
    <3> QED BY <2>1, <3>1, <3>2
  <2> QED BY <2>4, <2>5
<1>8. OnceOK'
  <2>1. ASSUME NEW r \in Replicas, NEW k \in Jobs, Queued(r, k)', Holds(r, k)' PROVE FALSE
    BY <1>4, <1>6, <1>7, <2>1 DEF LifeInv, OnceOK
  <2> QED BY <1>7, <2>1 DEF OnceOK
<1>9. JobOK(j)'
  <2>1. ContentOK(j)' /\ ShownOK(j)' /\ RanOK(j)'
    BY <1>1, <1>3, <1>4, <1>5, <1>6 DEF ContentOK, ShownOK, RanOK, Final
  <2> QED BY <2>1 DEF JobOK
<1>10. ASSUME NEW k \in Jobs, k # j PROVE JobOK(k)'
  <2>1. JobOK(k)
    BY DEF LifeInv
  <2>2. sentTo'[k] = sentTo[k]
    BY <1>10 DEF EnqueuePublish, Deliver, LifeInv, Inv, TypeOK
  <2> QED BY <1>1, <1>3, <1>6, <1>7, <1>10, <2>1, <2>2, JobUntouched
<1> QED BY <1>8, <1>9, <1>10

LEMMA OnceReceive ==
    ASSUME LifeInv, NEW r \in Replicas, Receive(r)
    PROVE  OnceOK' /\ \A k \in Jobs : JobOK(k)'
<1>0. PICK job \in Jobs : job = Head(inbox[r])
  BY QueueFacts DEF Receive, LifeInv, Inv, TypeOK
<1>1. /\ UNCHANGED << request, polled, file, sentTo, ranBy >> /\ worker[r].pc = "idle"
      /\ inbox \in [Replicas -> Seq(Jobs)] /\ worker \in [Replicas -> Worker]
      /\ inbox[r] \in Seq(Jobs) /\ inbox[r] # << >>
      /\ inbox' = [inbox EXCEPT ![r] = Tail(@)]
      /\ worker' = [worker EXCEPT ![r].pc = "openRunning", ![r].job = job]
  BY <1>0 DEF Receive, requestVars, LifeInv, Inv, TypeOK
<1>2. /\ job = inbox[r][1] /\ 1 \in 1 .. Len(inbox[r])
      /\ \A i \in 1 .. Len(Tail(inbox[r])) :
           i + 1 \in 1 .. Len(inbox[r]) /\ Tail(inbox[r])[i] = inbox[r][i + 1]
  BY <1>0, <1>1, QueueFacts
<1>3. \A i, k \in 1 .. Len(inbox[r]) : inbox[r][i] = inbox[r][k] => i = k
  BY DEF LifeInv, OnceOK
<1>4. /\ \A i, k \in 1 .. Len(Tail(inbox[r])) : Tail(inbox[r])[i] = Tail(inbox[r])[k] => i = k
      /\ \A i \in 1 .. Len(Tail(inbox[r])) : Tail(inbox[r])[i] # job
  BY <1>0, <1>1, <1>3, QueueOnce
<1>5. /\ worker'[r].pc = "openRunning" /\ worker'[r].job = job
      /\ \A q \in Replicas : q # r => worker'[q] = worker[q]
  BY <1>1, <1>2 DEF Worker
<1>6. inbox'[r] = Tail(inbox[r]) /\ \A q \in Replicas : q # r => inbox'[q] = inbox[q]
  BY <1>1
<1>7. Queued(r, job)
  BY <1>2 DEF Queued
<1>8. ASSUME NEW q \in Replicas, NEW k \in Jobs, Queued(q, k)'
      PROVE  Queued(q, k) /\ (q = r => k # job)
  <2>1. CASE q = r
    <3>1. PICK i \in 1 .. Len(Tail(inbox[r])) : Tail(inbox[r])[i] = k
      BY <1>6, <1>8, <2>1 DEF Queued
    <3> QED BY <1>2, <1>4, <2>1, <3>1 DEF Queued
  <2>2. CASE q # r
    BY <1>6, <1>8, <2>2 DEF Queued
  <2> QED BY <2>1, <2>2
<1>9. ASSUME NEW q \in Replicas, NEW k \in Jobs, Holds(q, k)'
      PROVE  IF q = r THEN k = job ELSE Holds(q, k) /\ worker'[q].pc = worker[q].pc
  BY <1>5, <1>9 DEF Holds
<1>10. OnceOK'
  <2>1. ASSUME NEW q \in Replicas, NEW k \in Jobs, Queued(q, k)', Holds(q, k)' PROVE FALSE
    BY <1>8, <1>9, <2>1 DEF LifeInv, OnceOK
  <2>2. ASSUME NEW q \in Replicas
        PROVE  \A i, k \in 1 .. Len(inbox'[q]) : inbox'[q][i] = inbox'[q][k] => i = k
    BY <1>4, <1>6 DEF LifeInv, OnceOK
  <2> QED BY <2>1, <2>2 DEF OnceOK
<1>11. ASSUME ~Shared(job) PROVE JobOK(job)'
  <2>1. ContentOK(job) /\ ShownOK(job) /\ RanOK(job)
    BY <1>11 DEF LifeInv, JobOK
  <2>2. /\ file[job] = "accepted" /\ polled[job] \in {"none", "accepted"}
        /\ request[job].pc = "answered" /\ ranBy[job] = {}
    BY <1>7, <2>1 DEF ContentOK, ShownOK, RanOK, LifeInv, Inv, HandsOK, InHand
  <2>3. ASSUME NEW q \in Replicas, Holds(q, job)' PROVE q = r
    <3> SUFFICES ASSUME q # r PROVE FALSE
      OBVIOUS
    <3>1. InHand(q, job) /\ InHand(r, job)
      BY <1>7, <1>9, <2>3 DEF InHand, Holds
    <3> QED BY <1>11, <3>1, OneHand DEF LifeInv
  <2>4. ContentOK(job)' /\ ShownOK(job)' /\ RanOK(job)'
    BY <1>1, <1>5, <1>8, <2>2, <2>3 DEF ContentOK, ShownOK, RanOK, Final
  <2> QED BY <2>4 DEF JobOK
<1>12. Shared(job) => JobOK(job)'
  BY <1>1 DEF JobOK, Shared
<1>15. ASSUME NEW k \in Jobs, k # job PROVE JobOK(k)'
  <2>1. JobOK(k)
    BY DEF LifeInv
  <2> QED BY <1>1, <1>8, <1>9, <1>15, <2>1, JobUntouched
<1> QED BY <1>10, <1>11, <1>12, <1>15

LEMMA OnceWork ==
    ASSUME LifeInv, NEW r \in Replicas,
           RunningOpen(r) \/ RunningWrite(r) \/ ExecNow(r) \/ FinalOpen(r) \/ FinalWrite(r)
    PROVE  OnceOK' /\ \A k \in Jobs : JobOK(k)'
<1>0. PICK job \in Jobs : job = worker[r].job
  BY DEF LifeInv, Inv, TypeOK, Worker
<1>1. /\ UNCHANGED << request, polled, sentTo, inbox >> /\ Holds(r, job)
      /\ worker[r].pc \in {"openRunning", "writeRunning", "exec", "openFinal", "writeFinal"}
  BY <1>0 DEF RunningOpen, RunningWrite, ExecNow, FinalOpen, FinalWrite, requestVars, Holds
<1>2. /\ worker \in [Replicas -> Worker] /\ file \in [Jobs -> Content]
      /\ worker[r] \in Worker /\ worker[r].outcome \in Final
      /\ ranBy \in [Jobs -> SUBSET Replicas]
  BY DEF LifeInv, Inv, TypeOK, Worker
<1>4. \A q \in Replicas : q # r => worker'[q] = worker[q]
  BY <1>2 DEF RunningOpen, RunningWrite, ExecNow, FinalOpen, FinalWrite, GotoWorker
<1>6. worker'[r].pc = "idle" \/ worker'[r].job = job
  <2>1. CASE FinalWrite(r)
    BY <1>2, <2>1, IdleType DEF FinalWrite
  <2>2. CASE ~FinalWrite(r)
    BY <1>0, <1>2, <2>2 DEF RunningOpen, RunningWrite, ExecNow, FinalOpen, GotoWorker, Worker
  <2> QED BY <2>1, <2>2
<1>7. \A k \in Jobs : k # job => file'[k] = file[k] /\ ranBy'[k] = ranBy[k]
  BY <1>0, <1>2 DEF RunningOpen, RunningWrite, ExecNow, FinalOpen, FinalWrite, OpenStatus, WriteStatus
<1>8. \A q \in Replicas, k \in Jobs :
        /\ Queued(q, k)' <=> Queued(q, k)
        /\ Holds(q, k)' => Holds(q, k)
        /\ Holds(q, k)' /\ k # job => worker'[q].pc = worker[q].pc
  <2>1. \A q \in Replicas, k \in Jobs : Queued(q, k)' <=> Queued(q, k)
    BY <1>1 DEF Queued
  <2>2. ASSUME NEW k \in Jobs, Holds(r, k)' PROVE k = job
    BY <1>6, <2>2 DEF Holds
  <2>3. ASSUME NEW q \in Replicas, q # r, NEW k \in Jobs, Holds(q, k)'
        PROVE  Holds(q, k) /\ worker'[q].pc = worker[q].pc
    BY <1>4, <2>3 DEF Holds
  <2> QED BY <1>1, <2>1, <2>2, <2>3
<1>9. OnceOK'
  BY <1>1, <1>8 DEF LifeInv, OnceOK
<1>10. ASSUME ~Shared(job) PROVE JobOK(job)'
  <2>1. /\ ContentOK(job) /\ ShownOK(job) /\ RanOK(job) /\ request[job].pc = "answered"
        /\ \A q \in Replicas : ~Queued(q, job)
        /\ \A q \in Replicas : Holds(q, job) => q = r
    <3>1. InHand(r, job)
      BY <1>1 DEF InHand, Holds
    <3>2. \A q \in Replicas : InHand(q, job) => q = r
      BY <1>2, <1>10, <3>1, OneHand DEF LifeInv
    <3>3. ~Queued(r, job)
      BY <1>1, <1>2 DEF LifeInv, OnceOK
    <3> QED BY <1>2, <1>10, <3>1, <3>2, <3>3 DEF LifeInv, JobOK, Inv, HandsOK, InHand, Holds
  <2>2. \/ /\ worker'[r].pc = "writeRunning" /\ file'[job] = "empty" /\ ranBy'[job] = {}
           /\ polled[job] \in {"none", "accepted"}
        \/ worker'[r].pc = "exec" /\ file'[job] = "running" /\ ranBy'[job] = {}
        \/ /\ worker'[r].pc = "openFinal" /\ file' = file /\ ranBy'[job] # {}
           /\ file[job] \in {"accepted", "empty", "running"}
        \/ worker'[r].pc = "writeFinal" /\ file'[job] = "empty" /\ ranBy'[job] # {}
        \/ worker'[r].pc = "idle" /\ file'[job] \in Final /\ ranBy'[job] # {}
    <3>1. CASE RunningOpen(r)
      BY <1>0, <1>1, <1>2, <2>1, <3>1
      DEF RunningOpen, OpenStatus, GotoWorker, Worker, ShownOK, RanOK
    <3>2. CASE RunningWrite(r)
      BY <1>0, <1>1, <1>2, <2>1, <3>2
      DEF RunningWrite, WriteStatus, GotoWorker, Worker, ContentOK, RanOK
    <3>3. CASE ExecNow(r)
      <4>1. file' = file /\ file[job] \in {"accepted", "empty", "running"}
        BY <1>0, <1>1, <2>1, <3>3 DEF ExecNow, ContentOK
      <4>2. PICK o \in Outcomes : worker' = [worker EXCEPT ![r].pc = "openFinal", ![r].outcome = o]
        BY <3>3 DEF ExecNow
      <4>3. worker'[r].pc = "openFinal"
        BY <1>2, <4>2 DEF Worker
      <4>4. ranBy'[job] # {}
        BY <1>0, <1>2, <3>3 DEF ExecNow
      <4> QED BY <4>1, <4>3, <4>4
    <3>4. CASE FinalOpen(r)
      BY <1>0, <1>1, <1>2, <2>1, <3>4 DEF FinalOpen, OpenStatus, GotoWorker, Worker, RanOK
    <3>5. CASE FinalWrite(r)
      BY <1>0, <1>1, <1>2, <2>1, <3>5, IdleType DEF FinalWrite, WriteStatus, ContentOK, RanOK
    <3> QED BY <3>1, <3>2, <3>3, <3>4, <3>5
  <2>3. ContentOK(job)' /\ ShownOK(job)' /\ RanOK(job)'
    <3>1. \A q \in Replicas : ~Queued(q, job)' /\ (Holds(q, job)' => q = r /\ worker'[r].pc # "idle")
      BY <1>2, <2>1, <1>8 DEF Holds
    <3>2. polled[job] \in {"none", "accepted", "running"}
      BY <1>1, <2>1 DEF ShownOK
    <3>3. ShownOK(job)'
      BY <1>1, <2>1, <2>2, <3>1, <3>2 DEF ShownOK, Final
    <3> QED BY <1>1, <2>1, <2>2, <3>1, <3>3 DEF ContentOK, RanOK, Final
  <2> QED BY <2>3 DEF JobOK
<1>12. Shared(job) => JobOK(job)'
  BY <1>1 DEF JobOK, Shared
<1>11. ASSUME NEW k \in Jobs, k # job PROVE JobOK(k)'
  <2>1. JobOK(k)
    BY DEF LifeInv
  <2> QED BY <1>1, <1>7, <1>8, <1>11, <2>1, JobUntouched
<1> QED BY <1>9, <1>10, <1>11, <1>12

LEMMA OnceWriteFails ==
    ASSUME LifeInv, NEW r \in Replicas, WorkerWriteFails(r)
    PROVE  OnceOK' /\ \A k \in Jobs : JobOK(k)'
<1>0. PICK job \in Jobs : job = worker[r].job
  BY DEF LifeInv, Inv, TypeOK, Worker
<1>1. /\ UNCHANGED << file, request, inbox, polled, sentTo, ranBy >> /\ Holds(r, job)
      /\ worker \in [Replicas -> Worker]
      /\ \A q \in Replicas : q # r => worker'[q] = worker[q]
      /\ \/ /\ worker[r].pc \in {"openRunning", "writeRunning"}
            /\ worker'[r].pc = "exec" /\ worker'[r].job = job
         \/ worker[r].pc \in {"openFinal", "writeFinal"} /\ worker'[r].pc = "idle"
  BY <1>0, IdleType DEF WorkerWriteFails, GotoWorker, Holds, LifeInv, Inv, TypeOK, Worker
<1>3. \A q \in Replicas, k \in Jobs :
        /\ Queued(q, k)' <=> Queued(q, k)
        /\ Holds(q, k)' => Holds(q, k)
        /\ Holds(q, k)' /\ k # job => worker'[q].pc = worker[q].pc
  BY <1>1 DEF Queued, Holds
<1>4. OnceOK'
  BY <1>1, <1>3 DEF LifeInv, OnceOK
<1>5. ASSUME ~Shared(job) PROVE JobOK(job)'
  <2>1. ContentOK(job) /\ ShownOK(job) /\ RanOK(job)
    BY <1>5 DEF LifeInv, JobOK
  <2>2. InHand(r, job) /\ ~Queued(r, job)
    BY <1>1 DEF InHand, Holds, LifeInv, OnceOK
  <2>3. \A q \in Replicas : ~Queued(q, job) /\ (Holds(q, job) => q = r)
    BY <1>5, <2>2, OneHand DEF LifeInv, InHand, Holds
  <2>4. \A q \in Replicas :
          ~Queued(q, job)' /\ (Holds(q, job)' => q = r /\ worker'[r].pc = "exec")
    BY <1>1, <1>3, <2>3 DEF Holds
  <2>5. ContentOK(job)' /\ ShownOK(job)' /\ RanOK(job)'
    BY <1>1, <2>1, <2>3, <2>4 DEF ContentOK, ShownOK, RanOK
  <2> QED BY <2>5 DEF JobOK
<1>7. Shared(job) => JobOK(job)'
  BY <1>1 DEF JobOK, Shared
<1>6. ASSUME NEW k \in Jobs, k # job PROVE JobOK(k)'
  <2>1. JobOK(k)
    BY DEF LifeInv
  <2> QED BY <1>1, <1>3, <1>6, <2>1, JobUntouched
<1> QED BY <1>4, <1>5, <1>6, <1>7

LEMMA OncePoll ==
    ASSUME LifeInv, NEW j \in Jobs, Poll(j)
    PROVE  /\ OnceOK' /\ \A k \in Jobs : JobOK(k)'
           /\ ~Shared(j) /\ polled[j] # "none" =>
                /\ Rank(polled[j]) <= Rank(polled'[j])
                /\ polled[j] \in Final => polled'[j] = polled[j]
           /\ \A k \in Jobs : k # j => polled'[k] = polled[k]
<1>1. /\ UNCHANGED << file, request, inbox, worker, sentTo, ranBy >> /\ request[j].pc = "answered"
      /\ polled \in [Jobs -> Polled]
      /\ polled' = [polled EXCEPT ![j] = IF Status(j) = "404" THEN @ ELSE Status(j)]
  BY DEF Poll, LifeInv, Inv, TypeOK
<1>2. ~Shared(j) => ContentOK(j) /\ ShownOK(j) /\ RanOK(j)
  BY DEF LifeInv, JobOK
<1>3. polled'[j] = polled[j] \/ (file[j] \in Statuses /\ polled'[j] = file[j])
  BY <1>1 DEF Status
<1>4. \A k \in Jobs : k # j => polled'[k] = polled[k]
  BY <1>1
<1>5. \A q \in Replicas, k \in Jobs :
        (Queued(q, k)' <=> Queued(q, k)) /\ (Holds(q, k)' <=> Holds(q, k))
  BY <1>1 DEF Queued, Holds
<1>6. OnceOK'
  BY <1>1, <1>5 DEF LifeInv, OnceOK
<1>7. \A q \in Replicas : Holds(q, j) =>
        worker[q].pc \in {"openRunning", "writeRunning", "exec", "openFinal", "writeFinal"}
  BY DEF Holds, LifeInv, Inv, TypeOK, Worker
<1>8. ASSUME ~Shared(j) PROVE JobOK(j)'
  <2>1. UNCHANGED << file, request, worker, ranBy >> /\ request[j].pc = "answered"
    BY <1>1
  <2>2. ContentOK(j)' /\ RanOK(j)'
    BY <1>2, <1>5, <1>8, <2>1 DEF ContentOK, RanOK
  <2>3. CASE polled'[j] = polled[j]
    <3>1. ShownOK(j)'
      BY <1>2, <1>5, <1>8, <2>1, <2>3 DEF ShownOK
    <3> QED BY <2>2, <3>1 DEF JobOK
  <2>4. CASE file[j] \in Statuses /\ polled'[j] = file[j]
    <3>1. ShownOK(j)'
      BY <1>2, <1>5, <1>7, <1>8, <2>1, <2>4 DEF ContentOK, ShownOK, Statuses, Final
    <3> QED BY <2>2, <3>1 DEF JobOK
  <2> QED BY <1>3, <2>3, <2>4
<1>11. Shared(j) => JobOK(j)'
  BY <1>1 DEF JobOK, Shared
<1>9. ASSUME NEW k \in Jobs, k # j PROVE JobOK(k)'
  <2>1. JobOK(k)
    BY DEF LifeInv
  <2> QED BY <1>1, <1>4, <1>5, <1>9, <2>1, JobUntouched
<1>10. ~Shared(j) /\ polled[j] # "none" =>
         /\ Rank(polled[j]) <= Rank(polled'[j])
         /\ polled[j] \in Final => polled'[j] = polled[j]
  <2>1. polled[j] \in Polled
    BY <1>1
  <2> QED BY <1>2, <1>3, <2>1 DEF ShownOK, Rank, Polled, Statuses, Final
<1> QED BY <1>4, <1>6, <1>8, <1>9, <1>10, <1>11

LEMMA OnceCrash ==
    ASSUME LifeInv, NEW r \in Replicas, Crash(r) \/ Boot(r) \/ Subscribe(r)
    PROVE  OnceOK' /\ \A k \in Jobs : JobOK(k)'
<1>1. /\ UNCHANGED << file, polled, sentTo, ranBy >>
      /\ \A q \in Replicas : inbox'[q] = inbox[q] \/ inbox'[q] = << >>
      /\ \A q \in Replicas : worker'[q] = worker[q] \/ worker'[q] = IdleWorker
  BY DEF Crash, Boot, Subscribe, LifeInv, Inv, TypeOK
<1>2. ASSUME NEW k \in Jobs
      PROVE  \/ request'[k].pc = request[k].pc
             \/ request[k].pc # "answered" /\ request'[k].pc = "failed"
  <2>1. request[k] \in Request
    BY DEF LifeInv, Inv, TypeOK
  <2>2. \/ request'[k] = request[k]
        \/ request[k].pc # "answered" /\ request'[k] = [request[k] EXCEPT !.pc = "failed"]
    BY DEF Crash, Boot, Subscribe
  <2> QED BY <2>1, <2>2 DEF Request
<1>3. ASSUME NEW q \in Replicas, NEW k \in Jobs
      PROVE  /\ Queued(q, k)' => Queued(q, k)
             /\ Holds(q, k)' => Holds(q, k) /\ worker'[q].pc = worker[q].pc
  BY <1>1, IdleType DEF Queued, Holds
<1>4. OnceOK'
  BY <1>1, <1>3 DEF LifeInv, OnceOK
<1>5. ASSUME NEW k \in Jobs PROVE JobOK(k)'
  <2>1. JobOK(k)
    BY DEF LifeInv
  <2> QED BY <1>1, <1>2, <1>3, <2>1, JobUntouched
<1> QED BY <1>4, <1>5

LEMMA OnceNext == ASSUME LifeInv, [Next]_vars PROVE LifeInv'
<1>1. Inv'
  BY NextInv DEF LifeInv
<1>2. CASE UNCHANGED vars
  <2>1. UNCHANGED << file, request, inbox, worker, polled, sentTo, ranBy >>
    BY <1>2 DEF vars
  <2>2. \A j \in Jobs : JobOK(j)'
    BY <2>1, JobUntouched DEF LifeInv, Queued, Holds
  <2> QED BY <1>1, <2>1, <2>2, OutcomeNext DEF LifeInv, OnceOK, Queued, Holds
<1>3. CASE Next
  BY <1>1, <1>3, OnceRequest, OncePublish, OnceReceive, OnceWork, OnceWriteFails,
     OncePoll, OnceCrash, OutcomeNext
  DEF Next, EnqueueStep, WorkerStep, LifeInv
<1> QED BY <1>2, <1>3

LEMMA OnceStatusMoves ==
    ASSUME LifeInv, [Next]_vars, NEW j \in Jobs, polled[j] # "none", ~Shared(j)
    PROVE  /\ Rank(polled[j]) <= Rank(polled'[j])
           /\ polled[j] \in Final => polled'[j] = polled[j]
<1>1. CASE \E k \in Jobs : Poll(k)
  <2>1. PICK k \in Jobs : Poll(k)
    BY <1>1
  <2>2. CASE k = j
    BY <2>1, <2>2, OncePoll
  <2>3. CASE k # j
    <3>1. polled'[j] = polled[j]
      BY <2>1, <2>3, OncePoll
    <3> QED BY <3>1 DEF Rank
  <2> QED BY <2>2, <2>3
<1>2. CASE ~\E k \in Jobs : Poll(k)
  <2>1. polled' = polled
    BY <1>2 DEF Next, vars, EnqueueStep, WorkerStep, Execute, EnqueueOpen, EnqueueWrite,
                EnqueueWriteFails, EnqueuePublish, Receive, RunningOpen, RunningWrite, ExecNow,
                FinalOpen, FinalWrite, WorkerWriteFails, Crash, Boot, Subscribe, workerVars,
                requestVars
  <2> QED BY <2>1 DEF Rank
<1> QED BY <1>1, <1>2

(* What a client polls of a job that at most one worker was given goes     *)
(* forward only and its outcome stays, however many workers there are      *)
(* (RunWorker, Status).  Of a job that two were given it need not: both    *)
(* run it and write the same file.                                         *)
THEOREM StatusForward == Spec => StatusMovesForward
<1>1. Init => LifeInv
  BY OnceInit
<1>2. LifeInv /\ [Next]_vars => LifeInv'
  BY OnceNext
<1>3. LifeInv /\ [Next]_vars => [\A j \in Jobs : polled[j] # "none" /\ ~Shared(j) =>
                                    /\ Rank(polled[j]) <= Rank(polled'[j])
                                    /\ polled[j] \in Final => polled'[j] = polled[j]]_vars
  BY OnceStatusMoves
<1> QED BY <1>1, <1>2, <1>3, PTL DEF Spec, StatusMovesForward

-----------------------------------------------------------------------------
(* Each step takes one job at most one step on in its life.                *)
LEMMA LifeStep ==
    ASSUME NEW j \in Jobs, polled' = polled,
           \A k \in Jobs \ {j} : Phase(k)' = Phase(k),
           \/ Phase(j)' = Phase(j)
           \/ Phase(j) = "none" /\ Phase(j)' = "accepted"
           \/ Phase(j) = "accepted" /\ Phase(j)' \in {"running", "shared"}
           \/ Phase(j) \in {"accepted", "running"} /\ Phase(j)' = "executed"
           \/ Phase(j) = "executed" /\ Phase(j)' \in Outcomes
    PROVE  [Life!Next]_(Life!vars)
<1> DEFINE phase == [k \in Jobs |-> Phase(k)]
<1>1. CASE Phase(j)' = Phase(j)
  <2>1. \A k \in Jobs : Phase(k)' = Phase(k)
    BY <1>1
  <2>2. phase' = phase
    BY <2>1
  <2> QED BY <2>2 DEF Life!vars
<1>2. CASE Phase(j)' # Phase(j)
  <2>1. phase' = [phase EXCEPT ![j] = Phase(j)'] /\ phase[j] = Phase(j)
    OBVIOUS
  <2> HIDE DEF phase
  <2>2. ASSUME NEW from, Phase(j) \in from PROVE Life!Goto(j, from, Phase(j)')
    BY <2>1, <2>2 DEF Life!Goto, phase
  <2>3. Life!Accept(j) \/ Life!Share(j) \/ Life!Start(j) \/ Life!Execute(j) \/ Life!End(j)
    BY <1>2, <2>2 DEF Life!Accept, Life!Share, Life!Start, Life!Execute, Life!End
  <2> QED BY <2>3 DEF Life!Next
<1> QED BY <1>1, <1>2

LEMMA LifeKept ==
    ASSUME NEW k \in Jobs, file'[k] = file[k], sentTo'[k] = sentTo[k], ranBy'[k] = ranBy[k],
           \/ request'[k].pc = request[k].pc
           \/ request[k].pc # "answered" /\ request'[k].pc # "answered"
    PROVE  Phase(k)' = Phase(k)
<1>1. Shared(k)' = Shared(k)
  BY DEF Shared
<1> QED BY <1>1 DEF Phase

LEMMA LifeRequest ==
    ASSUME LifeInv, NEW j \in Jobs, Execute(j) \/ EnqueueStep(j)
    PROVE  [Life!Next]_(Life!vars)
<1>0. request[j].pc \in {"new", "open", "write", "publish"}
  BY DEF Execute, EnqueueStep, EnqueueOpen, EnqueueWrite, EnqueueWriteFails, EnqueuePublish
<1>1. /\ UNCHANGED << polled, ranBy >>
      /\ request \in [Jobs -> Request] /\ file \in [Jobs -> Content]
      /\ sentTo \in [Jobs -> SUBSET Connected] /\ sentTo[j] = {} /\ ~Shared(j)
      /\ ContentOK(j) /\ RanOK(j)
  BY <1>0, UnsentAlone
  DEF Execute, EnqueueStep, EnqueueOpen, EnqueueWrite, EnqueueWriteFails, EnqueuePublish,
      workerVars, LifeInv, JobOK, Inv, TypeOK
<1>2. \A k \in Jobs \ {j} :
        request'[k] = request[k] /\ file'[k] = file[k] /\ sentTo'[k] = sentTo[k]
  BY <1>1 DEF Execute, EnqueueStep, EnqueueOpen, EnqueueWrite, EnqueueWriteFails, EnqueuePublish,
              GotoRequest, OpenStatus, WriteStatus, Deliver, workerVars
<1>3. \A k \in Jobs \ {j} : Phase(k)' = Phase(k)
  BY <1>1, <1>2, LifeKept
<1>4. ranBy[j] = {} /\ ranBy'[j] = {}
  BY <1>0, <1>1 DEF RanOK
<1>5. \/ file'[j] \in {"none", "empty"} /\ file[j] \in {"none", "empty"} /\ request'[j].pc # "answered"
      \/ file'[j] = "accepted" /\ file[j] = "empty"
      \/ file'[j] = "accepted" /\ file[j] = "accepted"
  <2>1. CASE Execute(j) \/ EnqueueOpen(j) \/ EnqueueWriteFails(j)
    BY <1>0, <1>1, <2>1
    DEF Execute, EnqueueOpen, EnqueueWriteFails, OpenStatus, GotoRequest, Request, ContentOK
  <2>2. CASE EnqueueWrite(j)
    BY <1>1, <2>2 DEF EnqueueWrite, WriteStatus, ContentOK
  <2>3. CASE EnqueuePublish(j)
    BY <1>1, <2>3 DEF EnqueuePublish, ContentOK
  <2> QED BY <2>1, <2>2, <2>3 DEF EnqueueStep
<1>6. CASE EnqueuePublish(j)
  <2>1. Phase(j) = "accepted" /\ file'[j] = "accepted"
    BY <1>1, <1>4, <1>6 DEF EnqueuePublish, ContentOK, Phase, Final
  <2>2. Phase(j)' \in {"accepted", "shared"}
    BY <1>4, <2>1 DEF Phase, Final
  <2> QED BY <1>1, <1>3, <2>1, <2>2, LifeStep
<1>7. CASE ~EnqueuePublish(j)
  <2>1. sentTo' = sentTo
    BY <1>7 DEF Execute, EnqueueStep, EnqueueOpen, EnqueueWrite, EnqueueWriteFails, workerVars
  <2>2. ~Shared(j)'
    BY <1>1, <2>1 DEF Shared
  <2>3. Phase(j)' = Phase(j) \/ (Phase(j) = "none" /\ Phase(j)' = "accepted")
    BY <1>0, <1>1, <1>4, <1>5, <2>2 DEF Phase, Final
  <2> QED BY <1>1, <1>3, <2>3, LifeStep
<1> QED BY <1>6, <1>7

LEMMA LifeWork ==
    ASSUME LifeInv, NEW r \in Replicas, WorkerStep(r) \/ WorkerWriteFails(r) \/ Crash(r) \/ Boot(r) \/ Subscribe(r)
    PROVE  [Life!Next]_(Life!vars)
<1>1. CASE Receive(r) \/ WorkerWriteFails(r) \/ Crash(r) \/ Boot(r) \/ Subscribe(r)
  <2>1. UNCHANGED << file, polled, sentTo, ranBy >>
    BY <1>1 DEF Receive, WorkerWriteFails, Crash, Boot, Subscribe, requestVars
  <2>2. ASSUME NEW k \in Jobs PROVE Phase(k)' = Phase(k)
    <3>1. \/ request'[k] = request[k]
          \/ request[k].pc # "answered" /\ request'[k] = [request[k] EXCEPT !.pc = "failed"]
      BY <1>1 DEF Receive, WorkerWriteFails, Crash, Boot, Subscribe, requestVars
    <3>2. request[k] \in Request
      BY DEF LifeInv, Inv, TypeOK
    <3>3. \/ request'[k].pc = request[k].pc
          \/ request[k].pc # "answered" /\ request'[k].pc # "answered"
      BY <3>1, <3>2 DEF Request
    <3> QED BY <2>1, <3>3, LifeKept
  <2>3. PICK j \in Jobs : TRUE
    BY JobsAssumption
  <2> QED BY <2>1, <2>2, <2>3, LifeStep
<1>2. CASE RunningOpen(r) \/ RunningWrite(r) \/ ExecNow(r) \/ FinalOpen(r) \/ FinalWrite(r)
  <2>0. PICK job \in Jobs : job = worker[r].job
    BY DEF LifeInv, Inv, TypeOK, Worker
  <2>1. /\ UNCHANGED << request, polled, sentTo >> /\ Holds(r, job)
        /\ file \in [Jobs -> Content] /\ ranBy \in [Jobs -> SUBSET Replicas]
    BY <1>2, <2>0 DEF RunningOpen, RunningWrite, ExecNow, FinalOpen, FinalWrite, requestVars, Holds,
                      LifeInv, Inv, TypeOK
  <2>2. request[job].pc = "answered"
    BY <2>1 DEF LifeInv, Inv, HandsOK, InHand, Holds
  <2>3. \A k \in Jobs \ {job} : file'[k] = file[k] /\ ranBy'[k] = ranBy[k]
    BY <1>2, <2>0, <2>1
    DEF RunningOpen, RunningWrite, ExecNow, FinalOpen, FinalWrite, OpenStatus, WriteStatus
  <2>4. \A k \in Jobs \ {job} : Phase(k)' = Phase(k)
    BY <2>1, <2>3, LifeKept
  <2>5. Shared(job)' = Shared(job)
    BY <2>1 DEF Shared
  <2>6. CASE Shared(job)
    <3>1. Phase(job)' = Phase(job)
      BY <2>5, <2>6 DEF Phase
    <3> QED BY <2>1, <2>4, <3>1, LifeStep
  <2>7. CASE ~Shared(job)
    <3>1. ContentOK(job) /\ RanOK(job) /\ ~Shared(job) /\ ~Shared(job)'
      BY <2>5, <2>7 DEF LifeInv, JobOK
    <3>2. CASE RunningOpen(r)
      <4>1. file[job] = "accepted" /\ file'[job] = "empty" /\ ranBy[job] = {} /\ ranBy' = ranBy
        BY <2>0, <2>1, <3>1, <3>2 DEF RunningOpen, OpenStatus, ContentOK, RanOK
      <4>2. Phase(job)' = Phase(job)
        BY <2>1, <2>2, <3>1, <4>1 DEF Phase, Final
      <4> QED BY <2>1, <2>4, <4>2, LifeStep
    <3>3. CASE RunningWrite(r)
      <4>1. file[job] = "empty" /\ file'[job] = "running" /\ ranBy[job] = {} /\ ranBy' = ranBy
        BY <2>0, <2>1, <3>1, <3>3 DEF RunningWrite, WriteStatus, ContentOK, RanOK
      <4>2. Phase(job) = "accepted" /\ Phase(job)' = "running"
        BY <2>1, <2>2, <3>1, <4>1 DEF Phase, Final
      <4> QED BY <2>1, <2>4, <4>2, LifeStep
    <3>4. CASE ExecNow(r)
      <4>1. /\ file[job] \in {"accepted", "empty", "running"} /\ file' = file
            /\ ranBy[job] = {} /\ ranBy'[job] # {}
        BY <2>0, <2>1, <3>1, <3>4 DEF ExecNow, ContentOK, RanOK
      <4>2. Phase(job) \in {"accepted", "running"} /\ Phase(job)' = "executed"
        BY <2>1, <2>2, <3>1, <4>1 DEF Phase, Final
      <4> QED BY <2>1, <2>4, <4>2, LifeStep
    <3>5. CASE FinalOpen(r)
      <4>1. /\ file[job] \in {"accepted", "empty", "running"} /\ file'[job] = "empty"
            /\ ranBy[job] # {} /\ ranBy' = ranBy
        BY <2>0, <2>1, <3>1, <3>5 DEF FinalOpen, OpenStatus, ContentOK, RanOK
      <4>2. Phase(job)' = Phase(job)
        BY <2>1, <2>2, <3>1, <4>1 DEF Phase, Final
      <4> QED BY <2>1, <2>4, <4>2, LifeStep
    <3>6. CASE FinalWrite(r)
      <4>1. /\ file[job] = "empty" /\ file'[job] = worker[r].outcome
            /\ ranBy[job] # {} /\ ranBy' = ranBy
        BY <2>0, <2>1, <3>1, <3>6 DEF FinalWrite, WriteStatus, ContentOK, RanOK
      <4>2. worker[r].outcome \in Outcomes /\ worker[r].outcome \in Final
        <5>1. worker[r].pc = "writeFinal"
          BY <3>6 DEF FinalWrite
        <5>2. worker[r].outcome \in Outcomes
          BY <5>1 DEF LifeInv, OutcomeOK
        <5> QED BY <5>2, OutcomesAssumption DEF Final
      <4>3. Phase(job) = "executed" /\ Phase(job)' \in Outcomes
        BY <3>1, <4>1, <4>2 DEF Phase, Final
      <4> QED BY <2>1, <2>4, <4>3, LifeStep
    <3> QED BY <1>2, <3>2, <3>3, <3>4, <3>5, <3>6
  <2> QED BY <2>6, <2>7
<1> QED BY <1>1, <1>2 DEF WorkerStep

LEMMA LifePoll ==
    ASSUME LifeInv, NEW j \in Jobs, Poll(j)
    PROVE  [Life!Next]_(Life!vars)
<1>1. /\ UNCHANGED << file, request, sentTo, ranBy >> /\ polled \in [Jobs -> Polled]
      /\ polled' = [polled EXCEPT ![j] = IF Status(j) = "404" THEN @ ELSE Status(j)]
      /\ ~Shared(j) => ContentOK(j) /\ ShownOK(j)
      /\ file[j] \in Final => file[j] \in Outcomes
  BY DEF Poll, LifeInv, JobOK, OutcomeOK, Inv, TypeOK
<1>2. \A k \in Jobs : Phase(k)' = Phase(k)
  BY <1>1, LifeKept
<1>3. [k \in Jobs |-> Phase(k)]' = [k \in Jobs |-> Phase(k)]
  BY <1>2
<1>4. CASE polled' = polled
  BY <1>3, <1>4 DEF Life!vars
<1>5. CASE file[j] \in Statuses /\ polled' = [polled EXCEPT ![j] = file[j]]
  <2>1. file[j] \in Life!Reached(j)
    BY <1>1, <1>5 DEF Life!Reached, Phase, Statuses, Final
  <2>2. Phase(j) # "shared" => ~Life!Behind(file[j], polled[j])
    BY <1>1 DEF Life!Behind, ShownOK, Phase
  <2>3. Life!Show(j)
    BY <1>3, <1>5, <2>1, <2>2 DEF Life!Show
  <2> QED BY <2>3 DEF Life!Next
<1> QED BY <1>1, <1>4, <1>5 DEF Status, Statuses

LEMMA LifeNext == ASSUME LifeInv, [Next]_vars PROVE [Life!Next]_(Life!vars)
<1>1. CASE UNCHANGED vars
  <2>1. UNCHANGED << file, request, sentTo, ranBy, polled >>
    BY <1>1 DEF vars
  <2>2. \A k \in Jobs : Phase(k)' = Phase(k)
    BY <2>1, LifeKept
  <2> QED BY <2>1, <2>2 DEF Life!vars
<1>2. CASE Next
  BY <1>2, LifeRequest, LifeWork, LifePoll DEF Next
<1> QED BY <1>1, <1>2

(* Asynchronous execution is the life of a job as JobLife states it, for   *)
(* any jobs, replicas, workers and outcomes and any number of kills and    *)
(* failing writes: accepted, executed at most once, an outcome that stays, *)
(* and a client shown no more than that; or shared, once two workers were  *)
(* given it (Enqueue, RunWorker, Status).                                  *)
THEOREM JobLivesOnce == Spec => JobsLiveOnce
<1>1. Init => LifeInv
  BY OnceInit
<1>2. LifeInv /\ [Next]_vars => LifeInv'
  BY OnceNext
<1>3. Init => Life!Init
  <2> SUFFICES ASSUME Init PROVE Life!Init
    OBVIOUS
  <2>1. /\ file = [j \in Jobs |-> "none"] /\ ranBy = [j \in Jobs |-> {}]
        /\ sentTo = [j \in Jobs |-> {}]
        /\ request \in [Jobs -> [pc : {"new"}, at : Replicas]]
        /\ polled = [j \in Jobs |-> "none"]
    BY DEF Init
  <2>2. \A j \in Jobs : Phase(j) = "none"
    BY <2>1 DEF Phase, Shared, Final
  <2> QED BY <2>1, <2>2 DEF Life!Init
<1>4. LifeInv /\ [Next]_vars => [Life!Next]_(Life!vars)
  BY LifeNext
<1> QED BY <1>1, <1>2, <1>3, <1>4, PTL DEF Spec, JobsLiveOnce, Life!Spec
=============================================================================
