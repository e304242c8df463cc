SPECIFICATION Spec
CONSTANTS
    AddrBits = 1
    Lines <- InterfaceLines
    MaxLines = 3
    Tuples <- AllTuples
    Interfaces = {"inside", "outside"}
INVARIANTS
    ShadowedEverywhere
CHECK_DEADLOCK FALSE
