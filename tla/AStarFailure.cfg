\* The first id handed out is the number that stands for failure.
SPECIFICATION Spec
CONSTANTS
    W = 3  H = 2
    Maps <- FewSmall
    Flags <- NoFlags
    Queries <- CornerQueries
    Durations = {TRUE}
    Heights = {}
    Dps = 1  Speed = 1
    MaxSearches = 1  MaxUpdates = 0
    Nil = Nil
INVARIANTS FailureIsDistinct
