\* One caller of make_lock() holds no lock, as the strand of a service that
\* calls send() or close() of a session.
CONSTANTS
    Thread = {t1, t2}
    Outsider = {t2}
    Lock = {l1, l2}
    Queue = queue
    MaxFirst = 1
SPECIFICATION LockerSpec
INVARIANT LastAsyncIsLast
SYMMETRY LockerSymmetry
CHECK_DEADLOCK FALSE
