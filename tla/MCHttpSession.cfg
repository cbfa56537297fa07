\* Five requests and a queue of three: the queue fills, with a shutdown.
CONSTANTS
    Limit = 3
    MaxRequest = 5
SPECIFICATION HttpSpec
INVARIANTS HttpTypeOK HttpErasedAfterLast ResponsesInOrder NoStuckResponse
    OpenHasTimer
PROPERTIES HttpEnds StepsAsInSet
\* the session ends when it is destroyed
CHECK_DEADLOCK FALSE
