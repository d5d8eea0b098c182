\* Timers whose callbacks add, remove, clear and fail; every plain expression of two
\* fields over a small calendar; every sequence of insertions and deletions of six keys.
SPECIFICATION StageSpec
CONSTANTS
    TimerKeys = {k1, k2}
    Intervals = {1, 2}
    MaxOps = 5  MaxFails = 1
    Secs = 2  Mins = 3  Hours = 2
    MonthDays <- MCMonths
    WeekLen = 3  Years = 3
    Exprs <- MCExprs
    Starts <- MCStarts
    Keys = {1, 2, 3, 4, 5, 6}
    Nil = Nil
INVARIANTS LivingKept TypeOK LinksAgree Contents BalancedByInsert
PROPERTIES CallsTheLiving LivingCalled FirstThatFits CallsReturn
CHECK_DEADLOCK FALSE
