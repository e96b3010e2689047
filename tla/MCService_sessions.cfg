SPECIFICATION Spec
CONSTANTS
    MaxId = 3
    MaxWrites = 1
    AppOps <- AllOps
    CloseOwnIn <- InReceive
INVARIANTS TypeOK RegistrySound NoSessionLeak ReadsReachRegistered NoDeafSession
PROPERTIES CallbacksGetLiveSessions ImplementsHandlerContract
CHECK_DEADLOCK FALSE
