\* A wheel of two slots whose revolution counter wraps at 2; callbacks add timers and
\* remove any, one by one or by tag, while their list is walked; the ticker may be stopped between two Ticks.
SPECIFICATION Spec
CONSTANTS
    N = 2  M = 2  R = 1
    CanSkip = FALSE
    Diffs = {1, 3}
    Timers = {t1, t2, t3}
    Tags = {g1}
    MaxFrame = 2  MaxTime = 2  MaxSince = 0  MaxStops = 1
    RemoveAny = TRUE  StopInCalls = FALSE  SetInCalls = TRUE
    Nil = Nil  Orphan = Orphan
SYMMETRY Symmetry
INVARIANTS WellLinked OnTime EveryFrame NoNilCall
