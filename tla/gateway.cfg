SPECIFICATION FairSpec
CONSTANTS
    Folded <- MCFolded
    Requests = {"r1", "r2"}
    Clients = {"c1", "c2"}
    Messages <- MCMessages
    Roles <- MCRoles
    Backends = {"WFS", "WMS"}
    NewRules <- MCNewRules
    DefaultAllow = TRUE
    Limit = 1
    Burst = 1
    MaxClock = 1
    MaxChanges = 2
INVARIANTS TypeOK ServedAsDecided VersionNegotiated
PROPERTIES RateExact AnsweredInTheEnd
CHECK_DEADLOCK FALSE
