\* One thread or several: shutdown with calls, connects and ends of sessions.
CONSTANTS
    Session = {s1, s2}
    None = None
    Stage1 = {"handshake", "open"}
    MaxConnect = 3
    MaxCall = 1
SPECIFICATION ServiceSpec
INVARIANTS ServiceTypeOK LockWhileSessions ServiceEndsLast FinishedWhenErased
PROPERTIES ShutdownCompletes NoSessionAfterShutdown
\* the service ends
CHECK_DEADLOCK FALSE
