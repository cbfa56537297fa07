\* The last session ends while shutdown() is between its two locks.
CONSTANTS
    Session = {s1}
    None = None
    MaxAccept = 1
SPECIFICATION SetSpec
INVARIANT ShutdownNoThrow
\* the server ends
CHECK_DEADLOCK FALSE
