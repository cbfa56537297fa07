\* Callers that hold a lock, as the handlers of the library do.
CONSTANTS
    Thread = {t1, t2, t3}
    Outsider = {}
    Lock = {l1, l2, l3, l4}
    Queue = queue
    MaxFirst = 1
SPECIFICATION LockerSpec
INVARIANTS LockerTypeOK CountExact LastAsyncIsLast HolderNeverRefused
PROPERTY ImplementsLatch
SYMMETRY LockerSymmetry
\* the program ends when the callback has run
CHECK_DEADLOCK FALSE
