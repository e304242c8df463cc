CHECK_DEADLOCK FALSE
SPECIFICATION Spec
CONSTANTS
    SizeMod = 10
    AddrBits = 4
    UIntMod = 1000
    ByteMod = 4
    FracDigits = 2
    MaxSeconds = 500
    Questions <- AllQuestions
INVARIANTS SpansInside ValuesExact RangesExact MergeIsMaximal ChecksumVerifies TextsSurvive CatalogConsistent
PROPERTIES NothingTwice
