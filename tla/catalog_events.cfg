\* Two requests of every kind against each other, with a fault of each kind.
SPECIFICATION Spec
SYMMETRY Symmetry
CONSTANTS
    w = w
    v = v
    s = s
    u = u
    n = n
    m = m
    Workspaces = {w, v}
    StoreNames = {s, u}
    Names = {n, m}
    Styles <- MCStyles
    Metas <- MCMetas
    Bodies <- MCBodies
    Conns <- MCConns
    Rasters <- MCRasters
    sanitizeIdent <- MCSanitizeIdent
    Requests = {r1, r2}
    Calls <- MCCalls
    Catalogs <- MCCatalogs
    Seeder = Seeder
    MaxDbErrors = 1
    MaxLost = 1
    MaxKills = 1
CHECK_DEADLOCK FALSE
INVARIANTS
    TypeOK
    ChangesAnnounced
PROPERTIES
    DeletesSpareWhatTheySaw
