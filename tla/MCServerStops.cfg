\* A server is shut down that has no session.
CONSTANTS
    Session = {s1}
    None = None
    MaxAccept = 0
    WsAddress = {w1}
    MaxConnect = 0
    MaxThrow = 0
SPECIFICATION ServerSpec
INVARIANT StoppedWhenFinished
\* the server ends
CHECK_DEADLOCK FALSE
