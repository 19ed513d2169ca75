\* One track, two choices, an engine and a provider that answer.
CONSTANTS
    Source = {s1}
    NoSource = none
    Level = {loud}
    FullVolume = loud
    MaxGeneration = 6
    MaxControls = 0
    MaxTransport = 1
    MaxIntents = 2
    MaxActivations = 0
SPECIFICATION AnsweringSpec
PROPERTIES
    ResolvingEnds
    DetachedEventuallyGone
CHECK_DEADLOCK FALSE
