SPECIFICATION SpecTrie
CONSTANTS
    AddrBits = 3
    Roles = {"allow", "block"}
    Inputs <- SomeInputs
    Packets <- SomePackets
    Digests <- HashesSeen
    GenerationMod = 1
    MaxId = 3
    MaxBatch = 2
INVARIANTS
    LookupsExact
    IndexAgreesWithScan
    TablesCurrent
    ArrayExact
PROPERTIES
    IdsStable
    ImplementsStore
    OperationsImplement
