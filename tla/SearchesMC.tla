------------------------------ MODULE SearchesMC ------------------------------
(* The two path finders, with what the one of a battle needs: its registry *)
(* and its heap.  They share no state: each runs on its own, in the stage  *)
(* that is chosen at the start.                                            *)
EXTENDS AStarSettingsMC, BattleMap, HeapQ, BattleSearchMC

VARIABLE stage

MCBtype == [b \in Builds |-> IF b \in Walls THEN 3 ELSE IF b \in Decor THEN 2 ELSE 1]

Stages == {"astar", "registry", "heap", "search"}

\* Only the stage that runs chooses among initial states.
FirstSetting == /\ setting = CHOOSE s \in Settings : TRUE
                /\ height = CHOOSE m \in setting.maps : TRUE
                /\ flagged = CHOOSE f \in setting.flags : TRUE
StageInit == /\ PlannedInit /\ BattleInit /\ HeapInit /\ SearchInit
             /\ stage \in Stages
             /\ stage = "astar" \/ FirstSetting
             /\ stage = "registry" \/ grid = {}
             /\ stage = "search" \/ plan = CHOOSE p \in Plans : TRUE

StageNext ==
    /\ IF stage = "astar" THEN PlannedNext ELSE UNCHANGED planned
    /\ IF stage = "registry" THEN BattleNext ELSE UNCHANGED battleVars
    /\ IF stage = "heap" THEN HeapNext ELSE UNCHANGED heapVars
    /\ IF stage = "search" THEN SearchNext ELSE UNCHANGED searchVars
    /\ UNCHANGED stage

\* The fairness of PlannedSpec, in its stage.
StageSpec == /\ StageInit
             /\ [][StageNext]_<<planned, battleVars, heapVars, searchVars, stage>>
             /\ WF_vars(stage = "astar" /\ InCall)
=============================================================================
