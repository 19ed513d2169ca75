\* Two tracks, two choices and two presses of the button; or two loads of one source, a
\* seek or a change of the volume at a time beside the volume that a load applies.
CONSTANTS
    Source = {s1, s2}
    NoSource = none
    Level = {loud, quiet}
    FullVolume = loud
    MaxGeneration = 6
    MaxControls = 1
    MaxTransport = 2
    MaxIntents = 2
    MaxActivations = 1
SPECIFICATION MCSpec
SYMMETRY TrackSymmetry
INVARIANTS
    PlaysTheShownTrack
    LiveIsAttached
    SeekNeverSticks
    VolumeReached
    PlayingShown
PROPERTIES
    ActivationKeepsItsTrack
\* Every bounded behaviour ends: the bounds of the model are used up.
CHECK_DEADLOCK FALSE
