\* can_skip: a wheel that falls behind by more than a revolution, and one whose callbacks
\* set, remove and stop; a Stop between ticks or in a callback.
SPECIFICATION PlannedSpec
CONSTANTS
    N = 2  M = 3  R = 2
    CanSkip = TRUE
    Plans <- BothPlans
    Diffs = {1}
    Timers = {t1, t2}
    Tags = {g1}
    MaxFrame = 6  MaxTime = 7  MaxSince = 8  MaxStops = 1
    RemoveAny = TRUE  StopInCalls = TRUE  SetInCalls = TRUE
    Nil = Nil  Orphan = Orphan
INVARIANTS WellLinked LateWheel
PROPERTIES TickEnds
