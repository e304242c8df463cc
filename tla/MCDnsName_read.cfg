SPECIFICATION Spec
CONSTANTS
    Messages <- ShortMessages
    DepthLimit = 2
    NameLimit = 3
INVARIANTS
    CursorAdvances
    LabelsReal
    LoopsRefused
PROPERTIES
    Terminates
CHECK_DEADLOCK FALSE
