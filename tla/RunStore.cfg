\* Two runs sharing an exclusive resource, one runner with two slots.
SPECIFICATION Spec
CONSTANTS
    r1 = r1
    r2 = r2
    w1 = w1
    w2 = w2
    x1 = x1
    Runs = {r1, r2}
    Runners = {w1}
    Resources = {x1}
    Replaceable = {r2}
    MaxAttempts <- OneEach
    Requires <- ShareX1
    Policy <- FirstRetries
    Capacity <- TwoSlots
    RetryDelay <- Backoff
    StartDelay = 1
    Deadlines = {2}
    Duration = 1
    LeaseGrace = 0
    StaleGrace = 1
    CancelDelay = 1
INVARIANTS
    TypeOK
    SlotsAccounted
    LeasesExclusive
PROPERTIES
    ImplementsExecution
