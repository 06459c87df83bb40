\* Three replicas boot on a database that has none, some or all migrations; the second migration is repeatable.
SPECIFICATION FairSpec
CONSTANTS
    r1 = r1
    r2 = r2
    r3 = r3
    Replicas = {r1, r2, r3}
    Known <- MCKnown
    Databases = {0, 1, 3}
    Repeatable = {2}
    MaxFaults = 2
CHECK_DEADLOCK FALSE
INVARIANTS
    TypeOK
    LoneBootServes
PROPERTIES
    SomeReplicaServes
    PasswordKept
    UpgradesInOrder
