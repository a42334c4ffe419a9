SPECIFICATION MCSpec
CONSTANTS
    Calls = {c1, c2}
    Requests = {r1, r2}
    Incoming = {q1, q2}
    Registrations = {g1}
    Endpoints = {popup, page}
    Members = {popup}
    None = None
    Capacity = 1
    Serial = TRUE
    MaxMembers = 2
    MaxOthers = 1
    MaxLoad = 4
INVARIANTS
    TypeOK
    SingleLoop
    AnswerNotMissed
    BroadcastAccountsForAll
PROPERTIES
    FatalStops
    RequestEnds
    SlowHandlersDelayNobody
    AllServed
CHECK_DEADLOCK FALSE
