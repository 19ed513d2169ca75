\* Two sources, one call of activate() at a time, chains of two releaseAfter
\* futures; three loads at the engine, two operations waiting for their turn.
CONSTANTS
    Lease = {l1, l2}
    NoLease = none
    Caller = {k1}
    MaxOperations = 2
    MaxRevision = 2
    Load = {a, b, c}
    NoLoad = noLoad
    MaxTail = 2
SPECIFICATION MutePlatformSpec
INVARIANTS
    FocusAccounted
    NoForeignCleanup
    OwnsItsSource
    OnePlayer
PROPERTIES
    KeepsToken
    EveryCallAnswered
    ClosedEventuallyFree
    LoadsEnd
CHECK_DEADLOCK FALSE
