\* The search of BattleMap runs out of cells.
SPECIFICATION SearchSpec
CONSTANTS
    astarSize = 5
    Plans <- MCPlans
    Tasks <- MCTasks
    MaxRuns = 2
INVARIANTS AllCanMove
CHECK_DEADLOCK FALSE
