\* Three casts of one refresh call at a time, and one of three calls for one session.
SPECIFICATION CastSpec
CONSTANTS
    a1 = a1
    c1 = c1
    v1 = v1
    Account = {a1, a2}
    Refreshable = {a1}
    Caller = {c1, c2, c3}
    Reader = {r1}
    Attempt = {v1}
    Login = {l1}
    MaxGeneration = 4
    MaxKey = 3
INVARIANTS AuthenticatedWasAccepted OneFlightPerSession
PROPERTIES
    RefreshContinuesItsSource
    RejectionBelongsToSession
    EndedAttemptsDoNothing
    JoinedAreAnswered
CHECK_DEADLOCK FALSE
