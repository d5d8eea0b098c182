----------------------------- MODULE LuaSafetyMC -----------------------------
(* The queue of searches and the fields with callbacks, whose promises are *)
(* all of safety, share no state: each runs on its own, in the stage that  *)
(* is chosen at the start.                                                 *)
EXTENDS NavSysMC, Binder

VARIABLE stage

\* Only the stage that runs chooses among initial states.
StageInit == /\ Init /\ BinderInit
             /\ stage \in {"queue", "field"}
             /\ stage = "field" \/ value = CHOOSE v \in Values : TRUE

StageNext == /\ IF stage = "queue" THEN Next ELSE UNCHANGED vars
             /\ IF stage = "field" THEN BinderNext ELSE UNCHANGED binderVars
             /\ UNCHANGED stage

StageSpec == StageInit /\ [][StageNext]_<<vars, binderVars, stage>>
=============================================================================
