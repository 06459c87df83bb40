------------------------------ MODULE JobLife ------------------------------
(***************************************************************************)
(* What asynchronous execution in services/wps promises about each job: it *)
(* is accepted, executed at most once and then has an outcome, which stays,*)
(* and who asks for its status is shown no more than it has reached and    *)
(* nothing behind what was shown before.  A job may stop anywhere.  A job  *)
(* that several workers share is only promised to show nothing but         *)
(* statuses.                                                               *)
(***************************************************************************)
CONSTANTS Jobs, Outcomes

VARIABLES
    phase,      \* [Jobs -> how far the job has come]
    shown       \* [Jobs -> the status its client was last shown, or "none"]

vars == << phase, shown >>

Init ==
    /\ phase = [j \in Jobs |-> "none"]
    /\ shown = [j \in Jobs |-> "none"]

Goto(j, from, to) ==
    /\ phase[j] \in from
    /\ phase' = [phase EXCEPT ![j] = to]
    /\ UNCHANGED shown

Accept(j)  == Goto(j, {"none"}, "accepted")
Share(j)   == Goto(j, {"accepted"}, "shared")
Start(j)   == Goto(j, {"accepted"}, "running")
Execute(j) == Goto(j, {"accepted", "running"}, "executed")
End(j)     == \E o \in Outcomes : Goto(j, {"executed"}, o)

\* That a job has started may not be written, nor is that it was executed: its
\* outcome is.
Reached(j) ==
    CASE phase[j] = "none"                    -> {}
      [] phase[j] = "accepted"                -> {"accepted"}
      [] phase[j] \in {"running", "executed"} -> {"accepted", "running"}
      [] phase[j] = "shared"                  -> {"accepted", "running"} \cup Outcomes
      [] OTHER                                -> {phase[j]}

Behind(st, other) == st = "accepted" /\ other = "running"

Show(j) ==
    \E st \in Reached(j) :
        /\ phase[j] # "shared" => ~Behind(st, shown[j])
        /\ shown' = [shown EXCEPT ![j] = st]
        /\ UNCHANGED phase

Next ==
    \E j \in Jobs :
        Accept(j) \/ Share(j) \/ Start(j) \/ Execute(j) \/ End(j) \/ Show(j)

Spec == Init /\ [][Next]_vars
=============================================================================
