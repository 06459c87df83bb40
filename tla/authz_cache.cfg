SPECIFICATION FairSpec
CONSTANTS
    Checks = {c1}
    Mutators = {m1, m2}
    Schemes = {"Basic", "Bearer"}
    MaxRules = 1
    MaxRoles = 1
    MaxFaults = 1
INVARIANTS
    TypeOK
    RulesFresh
PROPERTIES
    DecisionsConverge
