SPECIFICATION SpecHeld
CONSTANTS
    AddrBits = 2
    MaxU32 = 2
    Lines <- MatchLines
    Objects <- NoObjects
    Packets <- AllPackets
    MaxRules = 2
    MaxLines = 2
    MaxGeneration = 2
INVARIANTS
    DuplicatesMatchAlike
    SnapshotHonest
PROPERTIES
    FileConflictsWarned
