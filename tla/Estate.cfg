\* One runner, two machines and two tokens; two pools; three capacity updates; two resources and two attempts; one
\* message to the control plane or one to a worker, and two copies; one task and two edits; two secrets, two orders and
\* one administrator; two schedules; four bytes of output.
SPECIFICATION Spec
CONSTANTS
    k1 = k1
    k2 = k2
    k3 = k3
    n1 = n1
    n2 = n2
    v1 = v1
    v2 = v2
    s1 = s1
    s2 = s2
    x1 = x1
    x2 = x2
    r1 = r1
    m1 = m1
    Runners = {r1}
    Tokens = {k1, k2}
    Machines = {n1, n2}
    MaxBoots = 2
    Pools = {k1, k2}
    Members = {x1}
    Workloads = {x2}
    Sizes = {1, 2}
    Enrolled = 1
    Updates = {k1, k2, k3}
    Resources = {k1, k2}
    Attempts = {n1, n2}
    Clients = {x1}
    MaxToken = 2
    Originals = {m1, x1}
    Sinkless = {x1}
    Copies = {k1, k2}
    Admins = {n1, n2}
    MaxDeliver = 2
    MaxRetries = 3
    Tasks = {x1}
    Variables = {x1, x2}
    Names = {v1, v2}
    Secrets = {s1, s2}
    Edits = {k1, k2}
    Definitions <- TaskDefinitions
    MaxVersions = 2
    Sealed = {n1, n2}
    Orders = {k1, k2}
    Upserts = {x1}
    Plans = {n1, n2}
    Jobs = {m1}
    Exclusive = {x1, x2}
    FireTimes <- Fires
    JobChoices <- JobRows
    Planners = {k1, k2}
    Horizon = 4
    MaxBytes = 4
    ChannelSize = 2
    OutputLimit = 3
    ChunkBytes = 2
    ReadLimit = 2
    Text <- Characters
    Postgres = TRUE
SYMMETRY Interchangeable
INVARIANTS
    EstateTypeOK
    DeletedPoolsUnused
    CapacityAgrees
    VersionsResolve
    SecretsSound
    ConflictsFound
    OutputComplete
PROPERTIES
    KeysDecide
    LeasesHold
    LettersAccounted
\* Tokens, boots and messages of the instance are used up in the end.
CHECK_DEADLOCK FALSE
