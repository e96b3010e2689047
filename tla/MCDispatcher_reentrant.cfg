SPECIFICATION FairSpec
CONSTANTS
    login = login
    logout = logout
    a = a
    b = b
    c = c
    Ids <- MCIds
    Listeners <- MCListeners
    NullListeners <- MCNull
    CallbackOps <- AllOps
    MaxDepth = 2
INVARIANTS TypeOK NoDuplicates NoReceiverLeak InvokedPrefix
PROPERTIES ExactlyOnce IteratorsValid ImplementsEventBus DispatchTerminates
CHECK_DEADLOCK FALSE
