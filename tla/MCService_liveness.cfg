SPECIFICATION FairSpec
CONSTANTS
    MaxId = 2
    MaxWrites = 2
    AppOps <- AllOps
    CloseOwnIn <- InBoth
INVARIANTS RegistrySound NoSessionLeak
PROPERTIES DisconnectNoticed ShutdownEnds
CHECK_DEADLOCK FALSE
