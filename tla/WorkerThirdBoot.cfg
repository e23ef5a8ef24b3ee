\* A third process start.
SPECIFICATION Spec
CONSTANTS
    o1 = o1
    Orders = {o1}
    Capacity = 1
    MaxDeliver = 1
    MaxBoots = 3
    StoreMayFail = FALSE
INVARIANTS
    NoOrphans
\* The orders and restarts of the instance are used up in the end.
CHECK_DEADLOCK FALSE
