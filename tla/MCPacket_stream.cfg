SPECIFICATION Spec
CONSTANTS
    INT = 1
    Sizes <- SmallSizes
    MaxItems = 3
    MaxIndex = 9
    SIZE_T = 256
    NDEBUG = FALSE
INVARIANTS TypeOK StreamSound RoundTrip
PROPERTIES ReadBack ReadsAppended AccessorsSafe
CHECK_DEADLOCK FALSE
