\* Every operation on queues of up to three entries drawn from two tracks, so
\* that a queue holds the same track twice; a collection of three rows, of which
\* up to three are known when it is chosen, and three related tracks.
CONSTANTS
    Track = {1, 2, 3}
    InvalidTrack = bad
    MaxLength = 3
    MaxBatch = 2
    MaxRow = 3
    Targets = {0, 2}
    MaxInitialPages = 1
    Lookahead = 0
    EmptyPageBudget = 2
    MaxIntents = 3
SPECIFICATION CastSpec
INVARIANTS
    CycleMatchesQueue
    GatewayAccepts
    PlaysTheCurrentEntry
    CollectionInOrder
PROPERTIES
    NavigationAsAnnounced
    NoImmediateReplay
    ChoiceWins
    KeepsIntent
    EveryEntryPlays
\* The commands of the controller are used up.
CHECK_DEADLOCK FALSE
