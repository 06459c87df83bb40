SPECIFICATION FairSpec
CONSTANTS
    Requests = {"r1", "r2"}
    Tables = {"t"}
    Self = "self"
    Dsns = {"self", "other"}
    Columns = {"id", "name", "e-mail", "geom", "shape"}
    Shapes <- MCShapes
    Namesakes <- MCNamesakes
    Idents = {"t", "id", "name", "geom", "shape"}
    Features = {1, 2, 3}
    Asks <- MCAsks
    TTL = 1
    MaxChanges = 1
    MaxFaults = 1
INVARIANTS TypeOK PoolsBounded RowsAsAsked
PROPERTIES HitsAreFresh RefusedOnlyIfChanged CurrentInTheEnd
