\* Two jobs, two replicas with a worker each, one fault.
SPECIFICATION FairSpec
CONSTANTS
    Jobs = {j1, j2}
    Replicas = {r1, r2}
    Connected = {r1, r2}
    Outcomes = {"succeeded", "failed"}
    MaxFaults = 1
CHECK_DEADLOCK FALSE
INVARIANTS
    TypeOK
PROPERTIES
    JobsLiveOnce
    StatusMovesForward
    SentJobsEnd
