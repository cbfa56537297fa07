\* Both roles, on one thread and on several.
CONSTANTS
    Role = {"client", "server"}
    WriteMax = 2
    MaxCall = 3
    MaxRecv = 1
    MaxPending = 1
SPECIFICATION WsSpec
INVARIANTS WsTypeOK ClientTimerLive NoStuckQueue WireInOrder CallbacksInOrder
    ErasedAfterLast
PROPERTIES OpenSilentPeerDropped CloseCompletes StepsAsInService
\* the session ends when it is destroyed
CHECK_DEADLOCK FALSE
