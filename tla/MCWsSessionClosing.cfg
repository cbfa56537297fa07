\* A client session that the service closes once.
CONSTANTS
    Role = {"client"}
    WriteMax = 1
    MaxCall = 1
    MaxRecv = 0
    MaxPending = 1
SPECIFICATION WsSpec
PROPERTY SilentPeerDropped
CHECK_DEADLOCK FALSE
