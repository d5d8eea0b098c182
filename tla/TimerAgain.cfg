\* A timer added again after clearAll, by a callback of the same walk.
SPECIFICATION TimerSpec
CONSTANTS
    TimerKeys = {k1, k2}
    Intervals = {1, 2}
    MaxOps = 5  MaxFails = 0
INVARIANTS AddedIsKept
CHECK_DEADLOCK FALSE
