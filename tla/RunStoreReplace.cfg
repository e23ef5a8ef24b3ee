\* A REPLACE schedule supersedes a queued run.
SPECIFICATION Spec
CONSTANTS
    r1 = r1
    r2 = r2
    w1 = w1
    w2 = w2
    x1 = x1
    Runs = {r1}
    Runners = {w1}
    Resources = {x1}
    Replaceable = {r1}
    MaxAttempts <- TwoEach
    Requires <- ShareX1
    Policy <- Manual
    Capacity <- OneSlot
    RetryDelay <- Backoff
    StartDelay = 1
    Deadlines = {0, 2}
    Duration = 1
    LeaseGrace = 0
    StaleGrace = 1
    CancelDelay = 1
INVARIANT
    CancellingHasWorker
