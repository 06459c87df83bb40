\* Without seeds and faults every catalog change reaches the tiles.
SPECIFICATION FairSpec
CONSTANTS
    Tiles = {t1}
    Servers = {p1}
    Seeders = {}
    Replicas = {r1, r2}
    MaxConf = 2
    MaxRows = 1
    MaxTruncates = 0
    MaxOutages = 0
    MaxCrashes = 0
PROPERTIES
    EditsReachTiles
INVARIANTS
    HandledChangesShow
