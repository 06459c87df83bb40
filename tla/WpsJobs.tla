------------------------------- MODULE WpsJobs -------------------------------
(***************************************************************************)
(* Asynchronous WPS jobs (services/wps).                                   *)
(*                                                                         *)
(* Execute (async) writes a status file "accepted", publishes the job on   *)
(* NATS and answers with the status location.  Every replica that had a    *)
(* NATS connection at boot starts a worker with a plain subscription: each *)
(* worker there is gets every job, handles one at a time, and writes       *)
(* "running" and then the outcome to the same file.  The files are on a    *)
(* volume all replicas share, and are written with os.WriteFile: truncate, *)
(* then write, in two steps others can come between.                       *)
(***************************************************************************)
EXTENDS Integers, Sequences, FiniteSets

CONSTANTS
    Jobs,       \* job ids (random in the code, so never reused)
    Replicas,   \* wps processes
    Connected,  \* those whose nats.Connect succeeded at boot
    Outcomes,   \* how a process may end: a subset of {"succeeded", "failed"}
    MaxFaults   \* bound: processes killed, status writes of workers that fail

ASSUME JobsAssumption == Jobs # {}
ASSUME ReplicasAssumption == Connected \subseteq Replicas
ASSUME OutcomesAssumption == Outcomes \subseteq {"succeeded", "failed"}
ASSUME FaultsAssumption == MaxFaults \in Nat

VARIABLES
    file,       \* [Jobs -> Content]: the status files
    request,    \* [Jobs -> Request]: the Execute request of each job
    alive,      \* [Replicas -> BOOLEAN]
    subscribed, \* replicas whose worker has subscribed
    inbox,      \* [Replicas -> Seq(Jobs)]: messages of the subscription
    worker,     \* [Replicas -> Worker]: the subscription's callback
    polled,     \* [Jobs -> Polled]: the status a client was last shown
    faults,     \* how many of those there were
    \* history variables
    sentTo,     \* [Jobs -> SUBSET Replicas]: workers the job was delivered to
    ranBy       \* [Jobs -> SUBSET Replicas]: workers that executed the job

vars == << file, request, alive, subscribed, inbox, worker, polled, faults,
           sentTo, ranBy >>

-----------------------------------------------------------------------------
(* Types.                                                                  *)

Final == {"succeeded", "failed"}
Statuses == {"accepted", "running"} \cup Final

\* "none": no file; "empty": truncated and not yet written; "garbled": one
\* status followed by the tail of a longer one, which json.Unmarshal rejects.
Content == {"none", "empty", "garbled"} \cup Statuses

Request == [pc : {"new", "open", "write", "publish", "answered", "failed"},
            at : Replicas]

Worker == [pc : {"idle", "openRunning", "writeRunning", "exec", "openFinal",
                 "writeFinal"},
           job : Jobs, outcome : Final]

IdleWorker == [pc |-> "idle", job |-> CHOOSE j \in Jobs : TRUE,
               outcome |-> "failed"]

Polled == Statuses \cup {"none"}

\* Jobs.Status: a file that is missing or is not JSON is "job not found".
Status(j) == IF file[j] \in Statuses THEN file[j] ELSE "404"

Init ==
    /\ file = [j \in Jobs |-> "none"]
    /\ request \in [Jobs -> [pc : {"new"}, at : Replicas]]
    /\ alive = [r \in Replicas |-> TRUE]
    /\ subscribed = {}
    /\ inbox = [r \in Replicas |-> << >>]
    /\ worker = [r \in Replicas |-> IdleWorker]
    /\ polled = [j \in Jobs |-> "none"]
    /\ faults = 0
    /\ sentTo = [j \in Jobs |-> {}]
    /\ ranBy = [j \in Jobs |-> {}]

-----------------------------------------------------------------------------
(* writeStatus.                                                            *)

OpenStatus(j) == file' = [file EXCEPT ![j] = "empty"]

\* Bytes written over what another writer put there since the file was opened
\* leave the other's tail when they are shorter; the lengths are left open.
WriteStatus(j, st) ==
    \/ file' = [file EXCEPT ![j] = st]
    \/ /\ file[j] \notin {"empty", st}
       /\ file' = [file EXCEPT ![j] = "garbled"]

-----------------------------------------------------------------------------
(* Enqueue, at the replica the request was routed to.                      *)

GotoRequest(j, pc) == request' = [request EXCEPT ![j].pc = pc]
workerVars == << alive, subscribed, inbox, worker, polled, faults, sentTo, ranBy >>

Execute(j) ==
    /\ request[j].pc = "new"
    /\ alive[request[j].at]
    /\ GotoRequest(j, "open")
    /\ UNCHANGED << file, workerVars >>

\* Core NATS delivers to who is subscribed at that moment: to every worker.
Deliver(j) ==
    /\ inbox' = [r \in Replicas |-> IF r \in subscribed THEN Append(inbox[r], j)
                                                        ELSE inbox[r]]
    /\ sentTo' = [sentTo EXCEPT ![j] = subscribed]

\* Slip: the job is sent before its status file is written.
EnqueueOpenAndSend(j) ==
    /\ request[j].pc = "open"
    /\ OpenStatus(j)
    /\ GotoRequest(j, "write")
    /\ Deliver(j)
    /\ UNCHANGED << alive, subscribed, worker, polled, faults, ranBy >>

EnqueueOpen(j) ==
    /\ request[j].pc = "open"
    /\ OpenStatus(j)
    /\ GotoRequest(j, "write")
    /\ UNCHANGED workerVars

EnqueueWrite(j) ==
    /\ request[j].pc = "write"
    /\ WriteStatus(j, "accepted")
    /\ GotoRequest(j, "publish")
    /\ UNCHANGED workerVars

\* The status file cannot be written: an exception is answered.
EnqueueWriteFails(j) ==
    /\ request[j].pc \in {"open", "write"}
    /\ GotoRequest(j, "failed")
    /\ UNCHANGED << file, workerVars >>

\* Without a connection nothing is published and the request is answered all
\* the same; a failing Publish answers an exception and leaves the file.
EnqueuePublish(j) ==
    /\ request[j].pc = "publish"
    /\ IF request[j].at \in Connected
       THEN \/ Deliver(j) /\ GotoRequest(j, "answered")
            \/ GotoRequest(j, "failed") /\ UNCHANGED << inbox, sentTo >>
       ELSE GotoRequest(j, "answered") /\ UNCHANGED << inbox, sentTo >>
    /\ UNCHANGED << file, alive, subscribed, worker, polled, faults, ranBy >>

-----------------------------------------------------------------------------
(* RunWorker's callback; messages of one subscription are handled in turn. *)

requestVars == << request, alive, subscribed, polled, faults, sentTo >>
GotoWorker(r, pc) == worker' = [worker EXCEPT ![r].pc = pc]

\* Slip: the message may stay in the queue.
ReceiveAgain(r) ==
    /\ alive[r]
    /\ worker[r].pc = "idle"
    /\ inbox[r] # << >>
    /\ worker' = [worker EXCEPT ![r].pc = "openRunning", ![r].job = Head(inbox[r])]
    /\ inbox' \in {inbox, [inbox EXCEPT ![r] = Tail(@)]}
    /\ UNCHANGED << requestVars, file, ranBy >>

Receive(r) ==
    /\ alive[r]
    /\ worker[r].pc = "idle"
    /\ inbox[r] # << >>
    /\ worker' = [worker EXCEPT ![r].pc = "openRunning", ![r].job = Head(inbox[r])]
    /\ inbox' = [inbox EXCEPT ![r] = Tail(@)]
    /\ UNCHANGED << requestVars, file, ranBy >>

RunningOpen(r) ==
    /\ worker[r].pc = "openRunning"
    /\ OpenStatus(worker[r].job)
    /\ GotoWorker(r, "writeRunning")
    /\ UNCHANGED << requestVars, inbox, ranBy >>

RunningWrite(r) ==
    /\ worker[r].pc = "writeRunning"
    /\ WriteStatus(worker[r].job, "running")
    /\ GotoWorker(r, "exec")
    /\ UNCHANGED << requestVars, inbox, ranBy >>

ExecNow(r) ==
    /\ worker[r].pc = "exec"
    /\ \E o \in Outcomes :
         worker' = [worker EXCEPT ![r].pc = "openFinal", ![r].outcome = o]
    /\ ranBy' = [ranBy EXCEPT ![worker[r].job] = @ \cup {r}]
    /\ UNCHANGED << requestVars, inbox, file >>

\* Slip: the error of a failed process is dropped.
FinalOpenIfSucceeded(r) ==
    /\ worker[r].pc = "openFinal"
    /\ IF worker[r].outcome = "failed"
       THEN /\ worker' = [worker EXCEPT ![r] = IdleWorker]
            /\ UNCHANGED file
       ELSE /\ OpenStatus(worker[r].job)
            /\ GotoWorker(r, "writeFinal")
    /\ UNCHANGED << requestVars, inbox, ranBy >>

FinalOpen(r) ==
    /\ worker[r].pc = "openFinal"
    /\ OpenStatus(worker[r].job)
    /\ GotoWorker(r, "writeFinal")
    /\ UNCHANGED << requestVars, inbox, ranBy >>

FinalWrite(r) ==
    /\ worker[r].pc = "writeFinal"
    /\ WriteStatus(worker[r].job, worker[r].outcome)
    /\ worker' = [worker EXCEPT ![r] = IdleWorker]
    /\ UNCHANGED << requestVars, inbox, ranBy >>

\* The error of writeStatus is discarded and the callback goes on.  The file is
\* as it was, or truncated; part of a status counts as empty.
WorkerWriteFails(r) ==
    /\ faults < MaxFaults
    /\ faults' = faults + 1
    /\ \/ worker[r].pc \in {"openRunning", "writeRunning"} /\ GotoWorker(r, "exec")
       \/ /\ worker[r].pc \in {"openFinal", "writeFinal"}
          /\ worker' = [worker EXCEPT ![r] = IdleWorker]
    /\ UNCHANGED << file, request, alive, subscribed, inbox, polled, sentTo, ranBy >>

-----------------------------------------------------------------------------
(* GET /wps/status/{id}, at any replica, by a client that was given the id *)
(* in Execute's answer.                                                    *)

Poll(j) ==
    /\ request[j].pc = "answered"
    /\ \E r \in Replicas : alive[r]
    /\ polled' = [polled EXCEPT ![j] = IF Status(j) = "404" THEN @ ELSE Status(j)]
    /\ UNCHANGED << file, request, alive, subscribed, inbox, worker, faults,
                    sentTo, ranBy >>

-----------------------------------------------------------------------------
(* A replica is killed with its requests, its inbox and its callback; the  *)
(* files stay as they are.                                                 *)

\* Slip: the dead worker stays in the list of subscribers.
CrashStaysSubscribed(r) ==
    /\ alive[r]
    /\ faults < MaxFaults
    /\ faults' = faults + 1
    /\ alive' = [alive EXCEPT ![r] = FALSE]
    /\ inbox' = [inbox EXCEPT ![r] = << >>]
    /\ worker' = [worker EXCEPT ![r] = IdleWorker]
    /\ request' = [j \in Jobs |->
                     IF request[j].at = r
                        /\ request[j].pc \in {"open", "write", "publish"}
                     THEN [request[j] EXCEPT !.pc = "failed"] ELSE request[j]]
    /\ UNCHANGED << file, subscribed, polled, sentTo, ranBy >>

Crash(r) ==
    /\ alive[r]
    /\ faults < MaxFaults
    /\ faults' = faults + 1
    /\ alive' = [alive EXCEPT ![r] = FALSE]
    /\ subscribed' = subscribed \ {r}
    /\ inbox' = [inbox EXCEPT ![r] = << >>]
    /\ worker' = [worker EXCEPT ![r] = IdleWorker]
    /\ request' = [j \in Jobs |->
                     IF request[j].at = r
                        /\ request[j].pc \in {"open", "write", "publish"}
                     THEN [request[j] EXCEPT !.pc = "failed"] ELSE request[j]]
    /\ UNCHANGED << file, polled, sentTo, ranBy >>

Boot(r) ==
    /\ ~alive[r]
    /\ alive' = [alive EXCEPT ![r] = TRUE]
    /\ UNCHANGED << file, request, subscribed, inbox, worker, polled, faults,
                    sentTo, ranBy >>

\* RunWorker runs beside the server and may subscribe at any time; its error is
\* discarded, so that a connected replica may stay without a worker.
Subscribe(r) ==
    /\ alive[r]
    /\ r \in Connected \ subscribed
    /\ subscribed' = subscribed \cup {r}
    /\ UNCHANGED << file, request, alive, inbox, worker, polled, faults, sentTo,
                    ranBy >>

-----------------------------------------------------------------------------
(* Specification.                                                          *)

EnqueueStep(j) ==
    EnqueueOpen(j) \/ EnqueueWrite(j) \/ EnqueueWriteFails(j) \/ EnqueuePublish(j)

WorkerStep(r) ==
    \/ Receive(r) \/ RunningOpen(r) \/ RunningWrite(r) \/ ExecNow(r)
    \/ FinalOpen(r) \/ FinalWrite(r)

Next ==
    \/ \E j \in Jobs : Execute(j) \/ EnqueueStep(j) \/ Poll(j)
    \/ \E r \in Replicas :
         WorkerStep(r) \/ WorkerWriteFails(r) \/ Crash(r) \/ Boot(r) \/ Subscribe(r)

Spec == Init /\ [][Next]_vars

\* A live process runs its handlers and its callback to their end.  Requests,
\* faults, boots and subscriptions are free.
Fairness ==
    /\ \A j \in Jobs : WF_vars(EnqueueStep(j))
    /\ \A r \in Replicas : WF_vars(WorkerStep(r))

FairSpec == Spec /\ Fairness

-----------------------------------------------------------------------------
(* Properties.                                                             *)

\* Types of the variables; only live replicas that are connected have a worker,
\* and only who was given a job has executed it.
TypeOK ==
    /\ file \in [Jobs -> Content]
    /\ request \in [Jobs -> Request]
    /\ alive \in [Replicas -> BOOLEAN]
    /\ subscribed \subseteq {r \in Connected : alive[r]}
    /\ inbox \in [Replicas -> Seq(Jobs)]
    /\ worker \in [Replicas -> Worker]
    /\ polled \in [Jobs -> Polled]
    /\ faults \in 0 .. MaxFaults
    /\ sentTo \in [Jobs -> SUBSET Connected]
    /\ \A j \in Jobs : ranBy[j] \subseteq sentTo[j]
    /\ ranBy \in [Jobs -> SUBSET Replicas]

\* A job is executed only for a request that wrote "accepted" and sent it: the
\* file of a job in a worker's hands is out of its request's hands, so the two
\* never write it together (jobs.go: writeStatus before Publish).
RequestThenWorker ==
    \A j \in Jobs, r \in Replicas :
        \/ \E i \in 1 .. Len(inbox[r]) : inbox[r][i] = j
        \/ worker[r].pc # "idle" /\ worker[r].job = j
        => /\ r \in sentTo[j]
           /\ request[j].pc = "answered"
           /\ file[j] # "none"

\* Every worker executes every job it is given and writes the job's one file: a
\* job two workers were given is promised nothing.
Shared(j) == \E r, q \in sentTo[j] : r # q

Rank(st) == CASE st = "accepted" -> 1 [] st = "running" -> 2 [] OTHER -> 3

\* What a client polls of a job that was given to one worker at most never goes
\* back: accepted, running, then its outcome (jobs.go:21), and an outcome does
\* not change, however many workers other jobs were given to.  Between two of
\* them a poll may find nothing.
StatusMovesForward ==
    [][\A j \in Jobs : polled[j] # "none" /\ ~Shared(j) =>
         /\ Rank(polled[j]) <= Rank(polled'[j])
         /\ polled[j] \in Final => polled'[j] = polled[j]
       ]_vars

\* How far a job has come, by its file and by who has executed it.
Phase(j) ==
    IF Shared(j) THEN "shared"
    ELSE IF file[j] \in Final THEN file[j]
    ELSE IF ranBy[j] # {} THEN "executed"
    ELSE IF file[j] = "running" THEN "running"
    ELSE IF file[j] = "accepted" \/ request[j].pc = "answered" THEN "accepted"
    ELSE "none"

Life == INSTANCE JobLife WITH phase <- [j \in Jobs |-> Phase(j)], shown <- polled

\* A job that is given to one worker at most is executed at most once and only
\* after it was accepted, has an outcome only then and keeps it, and its client
\* is never shown more than it has reached, whatever process is killed, whatever
\* write of a worker fails and whatever becomes of other jobs; nothing of this
\* is said of a job two workers are given (jobs.go Enqueue, RunWorker, Status).
JobsLiveOnce == Life!Spec

\* Unless a process dies or a write fails, every job that was given to one worker
\* reaches an outcome and keeps it (docs/services/wps.md: a worker "executes and
\* updates status").  One that no worker had subscribed for stays accepted, and
\* the file of one that two had may end up garbled.
SentJobsEnd ==
    [](faults = 0) =>
        \A j \in Jobs :
            (sentTo[j] # {} /\ ~Shared(j)) ~> [](file[j] \in Final)

=============================================================================
