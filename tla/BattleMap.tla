------------------------------ MODULE BattleMap ------------------------------
(***************************************************************************)
(* The registry of one battle (src/Debug/BattleMap.lua): who takes part,   *)
(* in arrays that are kept without holes, each battler carrying its own    *)
(* index in every array; how many buildings of each type there are; and    *)
(* what the walls weigh for the search.  The weights have three writers:   *)
(* the registry, the grid of the map (GameMap.lua) and the search.         *)
(***************************************************************************)
EXTENDS Integers, Sequences, FiniteSets, Functions

CONSTANTS
  Soldiers, Heroes, Captains,  \* avatars whose sid is below, above, at 1000
  Builds,
  Walls,                       \* the buildings whose bid is 50
  Decor,                       \* the buildings whose btt is 2
  Summoned,                    \* avatars that are not recorded when they die
  Btype,                       \* what a building is: info.btype
  MaxExtra                     \* bound: buildings whose calls are not in balance

Avatars == Soldiers \cup Heroes \cup Captains
Battlers == Avatars \cup Builds

ASSUME BattleAssumption ==
  /\ Avatars \cap Builds = {}
  /\ Soldiers \cap Heroes = {} /\ Captains \cap (Soldiers \cup Heroes) = {}
  /\ Walls \subseteq Builds /\ Decor \subseteq Builds \ Walls
  /\ IsFiniteSet(Builds) /\ Btype \in [Builds -> 0..5]

VARIABLES
  lists,     \* the arrays and the indices their members carry
  types,     \* how many buildings of a type: types, 0 stands for "any"
  allWalls,  \* the walls of allWalls, each at the key of its own cell
  weight,    \* the weight of a wall's cell: searchCells[key][2]
  grid,      \* the walls on the grid of the map: _grids
  extra      \* history: calls for a building that found it so already
battleVars == <<lists, types, allWalls, weight, grid, extra>>

Lists == {"battlerAll", "battler", "build", "hero", "mer",
          "fav1", "fav2", "fav5", "diedHero", "diedMer"}
Types == {0, 1, 2, 5}
TypeList == [f \in Types |-> CASE f = 0 -> "build" [] f = 1 -> "fav1"
                               [] f = 2 -> "fav2"  [] f = 5 -> "fav5"]

(* An array and the index every battler carries for it, 0 for nil.  The    *)
(* counter of the array (_btaid, ...) is the length of seq.                *)
Empty == [seq |-> <<>>, at |-> [b \in Battlers |-> 0]]

AddObj(r, b) ==
  IF r.at[b] # 0 THEN r
  ELSE [seq |-> Append(r.seq, b), at |-> [r.at EXCEPT ![b] = Len(r.seq) + 1]]

(* Mutant: the member that takes the place keeps its old index. *)
RemoveObjStale(r, b) ==
  IF r.at[b] = 0 THEN r
  ELSE LET n == Len(r.seq)
       IN [seq |-> [i \in 1..n - 1 |-> IF i = r.at[b] THEN r.seq[n] ELSE r.seq[i]],
           at |-> [r.at EXCEPT ![b] = 0]]

(* The last member takes the place of the one that leaves. *)
RemoveObj(r, b) ==
  IF r.at[b] = 0 THEN r
  ELSE LET n == Len(r.seq)
           last == r.seq[n]
       IN [seq |-> [i \in 1..n - 1 |-> IF i = r.at[b] THEN last ELSE r.seq[i]],
           at |-> [c \in Battlers |-> IF c = b THEN 0
                                      ELSE IF c = last THEN r.at[b] ELSE r.at[c]]]

RemoveAllObj(r) ==
  [seq |-> <<>>, at |-> [b \in Battlers |-> IF b \in Range(r.seq) THEN 0 ELSE r.at[b]]]

(* The types a building counts for, and the arrays a battler is shown in. *)
Counted(b) == IF b \notin Builds THEN {}
              ELSE ({Btype[b]} \cap {1, 2, 5}) \cup (IF Btype[b] < 4 THEN {0} ELSE {})

Home(b) ==
  {"battlerAll"}
  \cup (IF b \in Avatars THEN {"battler"} ELSE {})
  \cup (IF b \in Soldiers THEN {"mer"} ELSE {})
  \cup (IF b \in Heroes THEN {"hero"} ELSE {})
  \cup {TypeList[f] : f \in Counted(b)}
  \cup (IF 0 \in Counted(b) THEN {"battler"} ELSE {})

(* Where a death is recorded: whoever is no soldier goes with the heroes. *)
Grave(b) == IF b \in Soldiers THEN "diedMer" ELSE "diedHero"

Registered(b) == lists["battlerAll"].at[b] # 0
Listed(b) == \E f \in Counted(b) : lists[TypeList[f]].at[b] # 0

AddTo(ls, L, b) == [l \in Lists |-> IF l \in L THEN AddObj(ls[l], b) ELSE ls[l]]
RemoveFrom(ls, L, b) == [l \in Lists |-> IF l \in L THEN RemoveObj(ls[l], b) ELSE ls[l]]
Count(b, d) == [f \in Types |-> IF f \in Counted(b) THEN types[f] + d ELSE types[f]]

(* The callers may show what is shown and hide or destroy what is hidden;  *)
(* the history keeps the balance of such calls.                            *)
Redundant(b, redundant, d) ==
  /\ extra' = IF b \in Builds /\ redundant THEN [extra EXCEPT ![b] = @ + d] ELSE extra
  /\ \A c \in Builds : extra'[c] \in {-1, 0, 1}
  /\ Cardinality({c \in Builds : extra'[c] # 0}) <= MaxExtra

BattleInit ==
  /\ lists = [l \in Lists |-> Empty]
  /\ types = [f \in Types |-> 0]
  /\ allWalls = {}
  /\ weight = [w \in Walls |-> 0]
  /\ grid \in SUBSET Walls
  /\ extra = [b \in Builds |-> 0]

ShowBattler(b) ==
  /\ lists' = AddTo(lists, Home(b), b)
  /\ types' = Count(b, 1)
  /\ Redundant(b, Listed(b), 1)
  /\ UNCHANGED <<allWalls, weight, grid>>

(* Mutant: the general count is forgotten. *)
HideBattlerUncounted(b) ==
  /\ lists' = RemoveFrom(lists, Home(b), b)
  /\ types' = [f \in Types |-> IF f = 0 THEN types[f] ELSE Count(b, -1)[f]]
  /\ Redundant(b, ~Listed(b), -1)
  /\ UNCHANGED <<allWalls, weight, grid>>

HideBattler(b) ==
  /\ lists' = RemoveFrom(lists, Home(b), b)
  /\ types' = Count(b, -1)
  /\ Redundant(b, ~Listed(b), -1)
  /\ UNCHANGED <<allWalls, weight, grid>>

(* A building of decoration, like one without a state or hit points, is    *)
(* turned away.                                                            *)
AddBattler(b) ==
  /\ b \notin Decor
  /\ lists' = AddTo(lists, Home(b), b)
  /\ types' = Count(b, 1)
  /\ allWalls' = allWalls \cup ({b} \cap Walls)
  /\ weight' = [w \in Walls |-> IF w = b THEN 200 ELSE weight[w]]
  /\ Redundant(b, Listed(b), 1)
  /\ UNCHANGED grid

RemoveAvatar(b) ==
  /\ b \in Avatars
  /\ LET gone == RemoveFrom(lists, Home(b), b)
     IN lists' = IF b \in Summoned THEN gone ELSE AddTo(gone, {Grave(b)}, b)
  /\ UNCHANGED <<types, allWalls, weight, grid, extra>>

(* Mutant: a wall that falls keeps its weight. *)
DestroyBuildWeighing(b) ==
  /\ b \in Builds \ Decor
  /\ lists' = RemoveFrom(lists, Home(b), b)
  /\ types' = Count(b, -1)
  /\ allWalls' = allWalls \ {b}
  /\ Redundant(b, ~Listed(b), -1)
  /\ UNCHANGED <<weight, grid>>

DestroyBuild(b) ==
  /\ b \in Builds \ Decor
  /\ lists' = RemoveFrom(lists, Home(b), b)
  /\ types' = Count(b, -1)
  /\ allWalls' = allWalls \ {b}
  /\ weight' = [w \in Walls |-> IF w = b THEN 0 ELSE weight[w]]
  /\ Redundant(b, ~Listed(b), -1)
  /\ UNCHANGED grid

(* destroyBuild returns at once for decoration, after removeBattler took   *)
(* it out of the two general arrays.                                       *)
RemoveDecor(b) ==
  /\ b \in Decor
  /\ lists' = RemoveFrom(lists, {"battlerAll", "battler"}, b)
  /\ UNCHANGED <<types, allWalls, weight, grid, extra>>

RemoveBattler(b) == RemoveAvatar(b) \/ DestroyBuild(b) \/ RemoveDecor(b)

(* clear() empties the arrays and drops every field; ctor() and init() set *)
(* the fields up again.  The grid belongs to the map and stays.            *)
NewBattle ==
  /\ lists' = [l \in Lists |-> RemoveAllObj(lists[l])]
  /\ types' = [f \in Types |-> 0]
  /\ allWalls' = {}
  /\ weight' = [w \in Walls |-> 0]
  /\ extra' = [b \in Builds |-> 0]
  /\ UNCHANGED grid

(* setGridUse and clearGridUse go through _setGrid, cell by cell. *)
SetGrid(w) ==
  /\ w \notin grid
  /\ grid' = grid \cup {w}
  /\ weight' = [weight EXCEPT ![w] = 80]
  /\ UNCHANGED <<lists, types, allWalls, extra>>

ClearGrid(w) ==
  /\ w \in grid
  /\ grid' = grid \ {w}
  /\ weight' = [weight EXCEPT ![w] = 0]
  /\ UNCHANGED <<lists, types, allWalls, extra>>

(* A search whose path crosses a wall makes it the target of the attack    *)
(* and its cell cheap, so that the next soldiers come here too.            *)
ChooseWall(w) ==
  /\ w \in allWalls /\ weight[w] > 0
  /\ weight' = [weight EXCEPT ![w] = 60]
  /\ UNCHANGED <<lists, types, allWalls, grid, extra>>

BattleNext ==
  \/ \E b \in Battlers : ShowBattler(b)
  \/ \E b \in Battlers : HideBattler(b)
  \/ \E b \in Battlers : AddBattler(b)
  \/ \E b \in Battlers : RemoveBattler(b)
  \/ \E w \in Walls : SetGrid(w) \/ ClearGrid(w) \/ ChooseWall(w)
  \/ NewBattle

BattleSpec == BattleInit /\ [][BattleNext]_battleVars

-----------------------------------------------------------------------------
(* An array has no hole, and a battler's index is where it stands.         *)
Indexed(r) ==
  /\ r \in [seq : Seq(Battlers), at : [Battlers -> Nat]]
  /\ \A i \in 1..Len(r.seq) : r.at[r.seq[i]] = i
  /\ \A b \in Battlers : r.at[b] # 0 => r.at[b] <= Len(r.seq) /\ r.seq[r.at[b]] = b

(* However calls to show, hide, add and remove battlers and to start over  *)
(* follow on each other, every array agrees with the indices its members   *)
(* carry (addObj, removeObj and clear trust them blindly), and the arrays  *)
(* of one battler agree with each other: it is in all that fit it, or in   *)
(* none.  Decoration that is removed after it was shown is the exception.  *)
ListsIndexed ==
  /\ \A l \in Lists : Indexed(lists[l])
  /\ \A b \in Battlers \ Decor : \A l \in Lists \ {Grave(b)} :
       (lists[l].at[b] # 0) <=> (l \in Home(b) /\ Registered(b))

(* hasType() answers from the counts of types alone, which showBattler,    *)
(* hideBattler, addBattler and destroyBuild change without a look at the   *)
(* arrays: a count is off by exactly what its buildings were shown too     *)
(* often, or hidden and destroyed too often.                               *)
TypesCount ==
  \A f \in Types :
    types[f] = Len(lists[TypeList[f]].seq)
               + FoldFunctionOnSet(+, 0, extra, {b \in Builds : f \in Counted(b)})

(* Three writers share the weight of a wall's cell: no cell weighs as a    *)
(* wall where neither the registry nor the grid has one, and a wall that   *)
(* both have never becomes a cell to walk over.                            *)
WallsWeigh ==
  \A w \in Walls : /\ weight[w] > 0 => w \in allWalls \cup grid
                   /\ w \in allWalls \cap grid => weight[w] > 0
=============================================================================
