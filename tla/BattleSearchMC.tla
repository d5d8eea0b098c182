---------------------------- MODULE BattleSearchMC ----------------------------
(* Instances of BattleSearch for TLC: five cells a side. *)
EXTENDS BattleSearch

(* A fort of eight walls about a building, with a gap, with a wall that    *)
(* only the grid knows, filled, and an open field.                        *)
At(x, y) == x + y * astarSize + 1
Ring == {At(1,1), At(2,1), At(3,1), At(1,2), At(3,2), At(1,3), At(2,3), At(3,3)}
MCPlans == {
  [walls |-> Ring, others |-> {}, likes |-> {At(2,2)}],
  [walls |-> Ring \ {At(2,1)}, others |-> {}, likes |-> {At(2,2)}],
  [walls |-> Ring \ {At(1,1)}, others |-> {At(1,1)}, likes |-> {}],
  [walls |-> Ring \cup {At(2,2)}, others |-> {}, likes |-> {}],
  [walls |-> {}, others |-> {}, likes |-> {}]}
MCTasks == {
  [from |-> At(0,0), to |-> At(2,2), range |-> 0],
  [from |-> At(2,4), to |-> At(2,2), range |-> 1],
  [from |-> At(2,2), to |-> At(4,1), range |-> 0],
  [from |-> At(1,2), to |-> At(3,3), range |-> 2],
  [from |-> At(4,0), to |-> At(0,4), range |-> 1]}
=============================================================================
