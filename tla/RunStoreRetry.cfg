\* One run with two attempts that may land on two runners; its start deadline has passed or is long.
SPECIFICATION FairSpec
CONSTANTS
    r1 = r1
    r2 = r2
    w1 = w1
    w2 = w2
    x1 = x1
    Runs = {r1}
    Runners = {w1, w2}
    Resources = {x1}
    Replaceable = {}
    MaxAttempts <- TwoEach
    Requires <- ShareX1
    Policy <- FirstRetries
    Capacity <- OneSlot
    RetryDelay <- Backoff
    StartDelay = 1
    Deadlines = {0, 3}
    Duration = 1
    LeaseGrace = 0
    StaleGrace = 1
    CancelDelay = 0
INVARIANTS
    SingleActiveAttempt
    RunHasAttempt
    AttemptsBounded
PROPERTIES
    HistoryFrozen
    ClosedRunsStay
    RunsSettle
