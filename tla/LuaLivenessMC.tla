---------------------------- MODULE LuaLivenessMC ----------------------------
(* The parts of the Lua side that also promise to come to an end: timers   *)
(* by key, the next time of an expression, the tree.  They share no state: *)
(* each runs on its own, in the stage that is chosen at the start.         *)
EXTENDS Timer, Cron, RBTree

VARIABLE stage

(* Expressions with at most two fields that are not "*": one value, every  *)
(* second one, or a list of the lowest and the highest.                    *)
MCMonths == <<3, 2>>
Every(f) == [lo |-> IF f \in {day, month, wday} THEN 1 ELSE 0,
           hi |-> IF f = year THEN Years - 1 ELSE Highest(f), diff |-> 1, list |-> <<>>]
Forms(f) == {Every(f),
             [Every(f) EXCEPT !.lo = Every(f).lo + 1, !.hi = Every(f).lo + 1],
             [Every(f) EXCEPT !.diff = 2],
             [Every(f) EXCEPT !.list = <<Every(f).lo, Every(f).hi>>]}
MCExprs == UNION {{[h \in Fields |-> IF h = f THEN p ELSE IF h = g THEN q ELSE Every(h)] :
                     p \in Forms(f), q \in Forms(g)} : f \in Fields, g \in Fields}
MCStarts == 0..YearDays * DayLen - 1

CronOff == /\ expr = <<>> /\ start = 0 /\ now = 0 /\ field = sec
           /\ bFail = FALSE /\ done = FALSE /\ goal = -1

\* Only the stage that runs chooses among initial states.
StageInit == /\ TimerInit /\ Init
             /\ stage \in {"timer", "cron", "tree"}
             /\ IF stage = "cron" THEN CronInit ELSE CronOff

StageNext ==
    /\ IF stage = "timer" THEN TimerNext ELSE UNCHANGED timerVars
    /\ IF stage = "cron" THEN CronNext ELSE UNCHANGED cronVars
    /\ IF stage = "tree" THEN Next ELSE UNCHANGED vars
    /\ UNCHANGED stage

allVars == <<timerVars, cronVars, vars, stage>>

\* The fairness of each part, in its stage.
StageSpec ==
    /\ StageInit /\ [][StageNext]_allVars
    /\ WF_allVars(stage = "timer" /\ Frames /\ UNCHANGED <<cronVars, vars, stage>>)
    /\ WF_allVars(stage = "cron" /\ CronNext /\ UNCHANGED <<timerVars, vars, stage>>)
    /\ WF_allVars(stage = "tree" /\ Loops /\ UNCHANGED <<timerVars, cronVars, stage>>)
=============================================================================
