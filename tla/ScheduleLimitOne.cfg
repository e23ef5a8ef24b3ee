\* A RUN_UP_TO_N schedule with limit 1 after an outage.
SPECIFICATION Spec
CONSTANTS
    s1 = s1
    s2 = s2
    Schedules = {s1}
    Definitions <- UpToOne
    Edits <- UpToOne
    MissedLimit = 4
    PollLimit = 3
    MaxTime = 4
    MaxVersion = 1
INVARIANTS
    SchedulerSurvives
