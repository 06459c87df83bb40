\* A request and a seed run against a catalog change, an edit, a truncate, an
\* outage of Redis and a crash.
SPECIFICATION Spec
CONSTANTS
    Tiles = {t1}
    Servers = {p1}
    Seeders = {s1}
    Replicas = {r1}
    MaxConf = 1
    MaxRows = 0
    MaxTruncates = 1
    MaxOutages = 1
    MaxCrashes = 1
INVARIANTS
    TypeOK
    StaleOnlyIfTainted
    WholeUnlessContended
    FreshUnlessSeedOrOutage
