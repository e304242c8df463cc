SPECIFICATION Spec
CONSTANTS
    Messages <- TwoNames
    DepthLimit = 2
    NameLimit = 2
INVARIANTS
    NameBounded
CHECK_DEADLOCK FALSE
