------------------------------ MODULE AStarMC -------------------------------
(* Instances of AStarPaths for TLC. *)
EXTENDS AStarPaths

\* Every map of blocked, open and walled cells; wall 30 costs min(31*Speed, 80).
AllMaps == [Cells -> {-1, 0, 30}]
\* No wall, a wall on a short path, a wall and a blocked cell.
FewSmall == {NoWalls, [NoWalls EXCEPT ![1] = 30], [NoWalls EXCEPT ![1] = -1, ![4] = 30]}

Normal(s, e) == [kind |-> "Normal", start |-> s, goals |-> {e}]
CornerQueries == {Normal(0, W * H - 1), Normal(W - 1, 0)}
MixedQueries ==
    {Normal(0, W * H - 1),
     [kind |-> "Multi", start |-> 0, goals |-> {2, W * H - 2}],
     [kind |-> "Flag", start |-> W * H - 1, goals |-> {}]}
BlockOrLower == {-1, 5}
NoFlags == {{}}
FlagSets == {{}, {0}, {1, W * H - 3}}
=============================================================================
