\* A SKIP schedule whose run was dispatched and has not started.
SPECIFICATION Spec
CONSTANTS
    s1 = s1
    s2 = s2
    Schedules = {s1}
    Definitions <- SkipOnly
    Edits <- SkipOnly
    MissedLimit = 4
    PollLimit = 3
    MaxTime = 4
    MaxVersion = 1
PROPERTIES
    SkipWhileActive
