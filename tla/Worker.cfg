\* One order delivered twice, three process starts, failing writes.
SPECIFICATION Spec
CONSTANTS
    o1 = o1
    Orders = {o1}
    Capacity = 2
    MaxDeliver = 2
    MaxBoots = 3
    StoreMayFail = TRUE
INVARIANTS
    TypeOK
    ExecutedOnce
    SequencesFresh
    ClosedIsReported
    SavedBootRecovered
\* The orders and restarts of the instance are used up in the end.
CHECK_DEADLOCK FALSE
