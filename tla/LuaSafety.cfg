\* A queue of searches with colliding keys, commands that make Tick raise, and Clear; a
\* field whose callbacks set it, bind and unbind, three Sets within each other.
SPECIFICATION StageSpec
CONSTANTS
    Requests <- SomeRequests
    Strengths <- Attackers
    Raising = {"MultiSearch"}
    MaxCmds = 5  MaxClears = 1
    Pending = Pending
    BindTags = {t1, t2}
    Values = {1, 2}
    MaxFrames = 3  MaxBinds = 4
INVARIANTS TypeOK OwnAnswer KeptOrAnswered EveryoneTold
PROPERTIES AnswerStable
