SPECIFICATION Spec
CONSTANTS
    AddrBits = 2
    MaxU32 = 2
    Lines <- ManagedLines
    Objects <- ManagedObjects
    Packets <- NoPackets
    MaxRules = 3
    MaxLines = 2
    MaxGeneration = 3
INVARIANTS
    WarningsReported
    LookupsAgree
PROPERTIES
    ErasureIsLocal
