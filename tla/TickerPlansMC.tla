---------------------------- MODULE TickerPlansMC ---------------------------
(***************************************************************************)
(* Ticker with can_skip under plans: each behaviour follows one plan, which *)
(* says what a Tick may be told and how far the clock may advance between  *)
(* two of them, how far the wheel may fall behind, and whether callbacks   *)
(* use the whole API or only remove their own timer.                       *)
(***************************************************************************)
EXTENDS TickerMC

CONSTANT Plans

\* Frames are pairs: the diff that Tick is given and the advance of the clock.  Unless
\* callbacks use the whole API the clock is never ahead of the wheel, as in TickTest.lua.
ASSUME PlansAssumption == \A p \in Plans :
    /\ p.frames \subseteq (0..MaxFrame) \X (0..MaxFrame)
    /\ ~p.calls => \A frame \in p.frames : frame[2] <= frame[1]

VARIABLE plan   \* the plan of this behaviour

\* A wheel that falls behind by more than a revolution; callbacks that set,
\* remove and stop, on a wheel that is in time.
Late  == [frames |-> {<<3, 3>>, <<6, 6>>, <<6, 2>>}, backlog |-> 7, calls |-> FALSE]
Calls == [frames |-> {<<4, 6>>}, backlog |-> 4, calls |-> TRUE]
BothPlans == {Late, Calls}

planned == <<vars, plan>>

PlannedInit == Init /\ plan \in Plans

PlannedNext ==
    /\ UNCHANGED plan
    /\ \/ (pc = "idle" \/ plan.calls) /\ Api
       \/ InCall /\ RemoveTimer(last)
       \/ \E frame \in plan.frames : Tick(frame[1], frame[2]) /\ time' <= plan.backlog
       \/ Inside
       \/ Raised

\* Lua runs a Tick to its end, if the callbacks return.
PlannedSpec == PlannedInit /\ [][PlannedNext]_planned /\ WF_vars(Inside)

-----------------------------------------------------------------------------
(* Property *)

\* A wheel that is late by more than a revolution still calls every timer when the
\* wheel has made as many steps as its period, and the revolutions left out, say,
\* and it leaves out no more than it is really behind (Ticker.lua:84-101).  Not so
\* for timers that callbacks of a late Tick set: their LastCall lies in the past; nor
\* when the clock advances by more than Tick is told: it goes by the clock (:95).
LateWheel == ~plan.calls => OnTime /\ SkipsOnlyThePast
=============================================================================
