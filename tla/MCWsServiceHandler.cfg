\* Two names, five calls, against the shutdown.
CONSTANTS
    Name = {n1, n2}
    None = None
    MaxCall = 5
SPECIFICATION HandlerSpec
INVARIANTS HandlerTypeOK IteratorValid FinishedWithoutServices
PROPERTIES DestroyedAfterEnd EraseCompletes
\* the handler ends
CHECK_DEADLOCK FALSE
