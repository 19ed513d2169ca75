\* Roaming is turned on, or what plays is chosen, while an entry comes to its end.
CONSTANTS
    Track = {1, 2}
    InvalidTrack = bad
    MaxLength = 2
    MaxBatch = 1
    MaxRow = 2
    Targets = {0}
    MaxInitialPages = 0
    Lookahead = 0
    EmptyPageBudget = 2
    MaxIntents = 3
SPECIFICATION CastSpec
INVARIANTS
    RoamLoadingIsActive
CHECK_DEADLOCK FALSE
