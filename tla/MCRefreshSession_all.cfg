SPECIFICATION SpecSession
CONSTANTS
    AddrBits = 2
    Roles = {"allow", "block", "indicator"}
    Inputs <- SessionInputs
    Packets <- SessionPackets
    Digests <- NoDigests
    GenerationMod = 1
    MaxId = 3
    MaxBatch = 3
    Lines <- AllLines
    MaxLines = 3
INVARIANTS
    AnswersLastText
    KeysUnique
    MergeIsConcatenation
    WholeLinesUnderstood
