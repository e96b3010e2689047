SPECIFICATION Spec
CONSTANTS
    INT = 1
    Sizes <- SmallSizes
    MaxItems = 3
    MaxIndex = 9
    SIZE_T = 256
    NDEBUG = TRUE
INVARIANT StringReadWritten
CHECK_DEADLOCK FALSE
