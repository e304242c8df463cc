SPECIFICATION Spec
CONSTANTS
    AddrBits = 1
    Lines <- AuditLines
    MaxLines = 4
    Tuples <- AllTuples
    Interfaces = {"inside", "outside"}
INVARIANTS
    ShadowedRemovable
    LateNeverDecides
    DuplicatesMatchAlike
CHECK_DEADLOCK FALSE
