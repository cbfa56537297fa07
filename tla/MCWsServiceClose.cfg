\* A session whose handshake is under way misses the shutdown.
CONSTANTS
    Session = {s1}
    None = None
    Stage1 = {"handshake"}
    MaxConnect = 1
    MaxCall = 0
SPECIFICATION ServiceSpec
INVARIANT ShutdownClosesAll
\* the service ends
CHECK_DEADLOCK FALSE
