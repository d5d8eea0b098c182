\* The path finder on every map of 4 x 2 cells with open corners and two searches, and on
\* one map with deadlines, resumptions and updates; the registry of four battlers; a heap
\* of seven places; two searches of a battle in a row on five maps of 5 x 5 cells.
SPECIFICATION StageSpec
CONSTANTS
    W = 4  H = 2
    Maps <- OpenCorners
    Flags <- FlagSets
    Settings <- BothSettings
    Queries <- MixedQueries
    Durations = {TRUE, FALSE}
    Heights <- BlockOrLower
    Dps = 1  Speed = 1
    MaxSearches = 3  MaxUpdates = 1
    Nil = Nil
    Soldiers = {}
    Heroes = {h}
    Captains = {}
    Builds = {b, w, d}
    Walls = {w}
    Decor = {d}
    Summoned = {}
    Btype <- MCBtype
    MaxExtra = 2
    Costs = {1, 2, 3}
    MaxHeap = 7
    astarSize = 5
    Plans <- MCPlans
    Tasks <- MCTasks
    MaxRuns = 2
INVARIANTS SafeTop ListsIndexed TypesCount WallsWeigh AnswerLeads
PROPERTIES WalkablePath Cheapest NoneMeansUnreachable CallsReturn QueueKept
CHECK_DEADLOCK FALSE
