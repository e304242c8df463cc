SPECIFICATION Spec
CONSTANTS
    Messages <- AllMessages
    Written <- AllWritten
    DepthLimit = 12
    NameLimit = 255
INVARIANTS
    ItemsTile
    AllOrNothing
    DecodesWhatWasWritten
