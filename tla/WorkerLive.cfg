\* An order shares one slot with its cancel order; the second start recovers.
SPECIFICATION FairSpec
CONSTANTS
    o1 = o1
    Orders = {o1}
    Capacity = 1
    MaxDeliver = 2
    MaxBoots = 2
    StoreMayFail = FALSE
INVARIANTS
    CleanStop
PROPERTIES
    OutcomeSent
    CancelHandled
\* The orders and restarts of the instance are used up in the end.
CHECK_DEADLOCK FALSE
