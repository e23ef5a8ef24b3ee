\* One schedule under every pair of policies, edited while polls are under way.
SPECIFICATION Spec
CONSTANTS
    s1 = s1
    s2 = s2
    Schedules = {s1}
    Definitions <- AllDefinitions
    Edits <- EditDefinitions
    MissedLimit = 4
    PollLimit = 2
    MaxTime = 4
    MaxVersion = 2
INVARIANTS
    TypeOK
    OneRunPerOccurrence
    NoneLost
    WaitingBounded
PROPERTIES
    MissedDiscarded
