\* Truncate against a running seed.
SPECIFICATION Spec
CONSTANTS
    Tiles = {t1}
    Servers = {p1}
    Seeders = {s1}
    Replicas = {r1}
    MaxConf = 1
    MaxRows = 0
    MaxTruncates = 1
    MaxOutages = 0
    MaxCrashes = 0
INVARIANTS
    TruncateInvalidates
