SPECIFICATION SpecSession
CONSTANTS
    AddrBits = 2
    Roles = {"allow", "block", "indicator"}
    Inputs <- SessionInputs
    Packets <- SessionPackets
    Digests <- NoDigests
    GenerationMod = 2
    MaxId = 3
    MaxBatch = 3
    Lines <- UrlLines
    MaxLines = 2
INVARIANTS
    LinesUnderstood
