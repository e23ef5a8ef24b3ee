\* Two accounts, two requests at once, one SSO subject; two setting changes at once; three sessions;
\* three requests at the gateway; two rows under retention.
SPECIFICATION Spec
CONSTANTS
    u1 = u1
    u2 = u2
    p1 = p1
    h1 = h1
    h2 = h2
    q1 = q1
    o1 = o1
    s1 = s1
    e1 = e1
    e2 = e2
    member = member
    Users = {u1, u2}
    Subjects = {p1}
    Handlers = {h1, h2}
    DefaultRole = member
    Grantable = {"admin"}
    MappingChoices <- GroupMaps
    SystemAdmins <- ConfiguredAdmins
    Bootstrap = {u1}
    Requests = {h1, h2}
    CustomRoles = {member}
    MapChoices <- CustomMaps
    Calls = {h1, h2}
    Owners = {o1}
    Challenges = {s1}
    AccessLife = 1
    RefreshLife = 2
    ChallengeLife = 1
    MaxSessions = 3
    Hits = {h1, h2, q1}
    Levels = {4, 8, 30}
    Admissions = {o1}
    Records = {e1, e2}
    KindOf <- KindsOfRecord
    MaxRounds = 2
SYMMETRY Interchangeable
INVARIANTS
    AccessTypeOK
    SignInWorks
PROPERTIES
    AdministratorsRemain
    TokensHold
    RequestsAccountable
    StorageGuarded
\* A start that finds no default role ends the process.
CHECK_DEADLOCK FALSE
