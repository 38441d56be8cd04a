SPECIFICATION AuditSpec
CONSTANTS
    LogSize = 9
    FixedSize = 2
    MacSize = 1
    Sizes <- MCSizes
    StampMod = 4
INVARIANT RetrievedIntact
PROPERTY LogRefined
