\* Two lock requests and two transactions at one process, one failing query, one
\* restart.
SPECIFICATION Spec
SYMMETRY Symmetry
CONSTANTS
    Layers = {l1}
    TableOf <- ATable
    Ids = {1, 2}
    Vals = {"a", "b"}
    Replicas = {r1}
    Lockers = {q1, q2}
    LockFilters <- FirstFilter
    Minutes = {1}
    Txs = {c1, c2}
    Scripts <- MCScripts
    LockIds = {k1, k2}
    NoLock = NoLock
    MaxDbErrors = 1
    MaxRestarts = 1
CHECK_DEADLOCK FALSE
INVARIANTS
    TypeOK
PROPERTIES
    HeldLocksEnforced
