SPECIFICATION Spec
CONSTANTS
    MaxId = 2
    MaxWrites = 1
    AppOps <- AllOps
    CloseOwnIn <- InReceive
INVARIANT SendAssertionHolds
CHECK_DEADLOCK FALSE
