\* Servers and clients: two connections, one WebSocket session, one exception.
CONSTANTS
    Session = {s1, s2}
    None = None
    MaxAccept = 2
    WsAddress = {w1}
    MaxConnect = 1
    MaxThrow = 1
SPECIFICATION ServerSpec
INVARIANTS ServerTypeOK EraseNeverRefused ShutdownShutsAll LockGivenBack
    StaysUntilShutdown CleanAfterCallback SessionsDestroyedFirst
PROPERTY DestructorReturns
\* the server ends
CHECK_DEADLOCK FALSE
