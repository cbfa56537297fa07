\* A server session, without any call of the service.
CONSTANTS
    Role = {"server"}
    WriteMax = 1
    MaxCall = 0
    MaxRecv = 1
    MaxPending = 1
SPECIFICATION WsSpec
INVARIANT TimerLive
CHECK_DEADLOCK FALSE
