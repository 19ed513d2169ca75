\* Two songs, both of them written; every kind of handle, run up to twice at once.
CONSTANTS Track = {t1, t2} Writable = {t1, t2} Elsewhere = TRUE Run = {r1, r2}
SPECIFICATION MCSpec
INVARIANTS Truthful AppliedIsNeverDenied CancelledInTimeStaysCancelled
PROPERTIES RefreshKeepsSnapshot RefreshEnds CancelLetsGo
CHECK_DEADLOCK FALSE
