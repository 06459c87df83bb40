\* Clients that try again, at two replicas that restart, with failing queries.
SPECIFICATION FairSpec
CONSTANTS
    Layers = {l1}
    TableOf <- ATable
    Ids = {1, 2}
    Vals = {"a", "b"}
    Replicas = {r1, r2}
    Lockers = {q1}
    LockFilters <- MCLockFilters
    Minutes = {1}
    Txs = {c1}
    Scripts <- RetryScripts
    LockIds = {k1}
    NoLock = NoLock
    MaxDbErrors = 1
    MaxRestarts = 1
CHECK_DEADLOCK FALSE
PROPERTIES
    RefusedGoesThrough
