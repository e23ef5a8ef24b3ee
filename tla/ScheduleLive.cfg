\* Two schedules sharing the poll budget, polls that may fail.
SPECIFICATION FairSpec
CONSTANTS
    s1 = s1
    s2 = s2
    Schedules = {s1, s2}
    Definitions <- LiveDefinitions
    Edits <- LiveDefinitions
    MissedLimit = 4
    PollLimit = 2
    MaxTime = 3
    MaxVersion = 1
PROPERTIES
    CatchesUp
