SPECIFICATION FairAppSpec
CONSTANTS
    request = request
    return = return
    on_request = on_request
    on_return = on_return
    a = a
    b = b
    Ids <- MCIds
    Listeners <- MCListeners
    NullListeners <- MCNull
    CallbackOps <- AllOps
    MaxDepth = 2
    SS_REGISTER_REQUEST = request
    SS_REGISTER_RETURN = return
    on_registerserver_request = on_request
    on_registerserver_return = on_return
INVARIANTS AppTypeOK AppListens
PROPERTIES ShutdownExits
CHECK_DEADLOCK FALSE
