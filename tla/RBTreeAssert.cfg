\* The assertion of TickTest.lua after a deletion.
SPECIFICATION Spec
CONSTANTS
    Keys = {1, 2, 3, 4, 5, 6}
    Nil = Nil
INVARIANTS RedsApart
