-------------------------- MODULE AStarSettingsMC ---------------------------
(***************************************************************************)
(* AStarPaths in settings: each behaviour takes place in one, which says   *)
(* on which maps it does so, how many calls it makes, whether they may     *)
(* have deadlines, and whether the map is changed between them.            *)
(***************************************************************************)
EXTENDS AStarMC

CONSTANT Settings

VARIABLE setting   \* the setting of this behaviour

\* Every map with open corners, where searches begin, and two searches, the first
\* of which makes its walls attractive; a few maps with searches that are put away
\* and resumed while a cell changes.
OpenCorners == {m \in AllMaps : \A c \in {0, W * H - 1} : m[c] = 0}
SomeFlags == FlagSets \ NoFlags
EveryMap == [maps |-> OpenCorners, flags |-> SomeFlags, searches |-> 2,
             timed |-> FALSE, update |-> FALSE]
\* A wall next to the start and three blocked cells, so that the path to the far
\* corner crosses the wall; lowered to 5 afterwards, it is entered at a negative
\* cost, and going to and fro between it and a neighbour gets ever cheaper.
OneSmall == {[c \in Cells |-> CASE c \in {3, 4, 5} -> -1 [] c = 1 -> 30 [] OTHER -> 0]}
Deadlines == [maps |-> OneSmall, flags |-> NoFlags, searches |-> 3,
              timed |-> TRUE, update |-> TRUE]
BothSettings == {EveryMap, Deadlines}

planned == <<vars, setting>>

PlannedInit == /\ Init
               /\ setting \in Settings
               /\ height \in setting.maps /\ flagged \in setting.flags

WithinSetting == /\ searches' <= setting.searches
                 /\ run' # Nil => (run'.timed => setting.timed)
                 /\ UNCHANGED <<height, flagged>> \/ setting.update

PlannedNext == /\ UNCHANGED setting
               /\ \/ Next /\ WithinSetting
                  \/ run = Nil /\ searches = setting.searches /\ UNCHANGED vars

\* A call runs in its caller's thread; asked only of the setting that changes maps,
\* where steps of negative cost can come about.
InCall == setting.update /\ (Return \/ Stop \/ Expand)
PlannedSpec == PlannedInit /\ [][PlannedNext]_planned /\ WF_vars(InCall)

-----------------------------------------------------------------------------
(* Property *)

\* Every call returns, whatever the other calls and the changes of the map did to
\* the walls before (the loops of AStarNavigation.h:141-239).
CallsReturn == setting.update /\ run # Nil ~> run = Nil
=============================================================================
