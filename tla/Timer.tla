-------------------------------- MODULE Timer --------------------------------
(***************************************************************************)
(* The timers by key (src/Debug/Timer.lua): once per frame _trigger walks  *)
(* the table of handlers and calls those that are due; callbacks add and   *)
(* remove timers or clear all of them while the walk is going on, and may  *)
(* fail.  A removal is only marked; the marks are carried out when the     *)
(* walk has ended.  A frame takes one unit of time.                        *)
(***************************************************************************)
EXTENDS Integers, FiniteSets, FiniteSetsExt

CONSTANTS
  TimerKeys,
  Intervals,    \* what timers are added with
  MaxOps,       \* bound: calls of the module's functions
  MaxFails      \* bound: callbacks that fail

ASSUME TimerAssumption ==
  Intervals \subseteq Nat /\ \E m \in Intervals : \A i \in Intervals : i <= m

VARIABLES
  handlers,     \* _timerGroup.handlers: key -> {callback, interval, elapse}
  removes,      \* _timerGroup.removes
  rmvs,         \* the removes of before a clearAll in this walk, which the
                \*   walk still holds, as a set; empty when there are none
  todo,         \* the keys pairs() has still to come to
  calling,      \* the key whose callback runs, as a set
  walking,      \* _trigger is running
  ops, fails,   \* calls and failures so far
  alive,        \* history: added, and neither removed, cleared nor used up
  age,          \* history: frames since then or since it was last called
  unsure,       \* history: keys whose frames may be counted wrong, since a
                \*   key was inserted while pairs() was under way
  reborn        \* history: keys added again after a clearAll in one walk
timerVars == <<handlers, removes, rmvs, todo, calling, walking, ops, fails,
               alive, age, unsure, reborn>>

Present == DOMAIN handlers
Put(k, h) == [j \in Present \cup {k} |-> IF j = k THEN h ELSE handlers[j]]
MaxInterval == Max(Intervals)
Capped(n) == IF n > MaxInterval THEN MaxInterval ELSE n

TimerInit ==
  /\ handlers = [k \in {} |-> 0]
  /\ removes = {} /\ rmvs = {} /\ todo = {} /\ calling = {} /\ walking = FALSE
  /\ ops = 0 /\ fails = 0
  /\ alive = {} /\ age = [k \in TimerKeys |-> 0] /\ unsure = {} /\ reborn = {}

(* The module is called between two frames and by callbacks.               *)
Callable == (walking => calling # {}) /\ ops < MaxOps
Spend == ops' = ops + 1

(* Mutant: a mark of the same key stays. *)
AddTimerMarked(k, interval, once) ==
  /\ Callable /\ Spend
  /\ handlers' = Put(k, [once |-> once, interval |-> interval, elapse |-> 0])
  /\ removes' = removes
  /\ UNCHANGED <<rmvs, todo, calling, walking, fails>>
  /\ alive' = alive \cup {k} /\ age' = [age EXCEPT ![k] = IF walking THEN 1 ELSE 0]
  /\ UNCHANGED <<unsure, reborn>>

(* addTimer and addTimerOnce.  A key that the walked table does not have   *)
(* yet leaves it open which keys pairs() comes to from here on, visited    *)
(* ones again or others not at all; a table clearAll has put in place is   *)
(* not walked.                                                             *)
AddTimer(k, interval, once) ==
  /\ Callable /\ Spend
  /\ handlers' = Put(k, [once |-> once, interval |-> interval, elapse |-> 0])
  /\ removes' = removes \ {k}
  /\ IF walking /\ rmvs = {} /\ k \notin Present
     THEN todo' \in SUBSET (Present \cup {k}) /\ unsure' = Present \cup {k}
     ELSE todo' = todo /\ unsure' = IF k \in todo THEN unsure ELSE unsure \ {k}
  /\ reborn' = IF k \in UNION rmvs THEN reborn \cup {k} ELSE reborn \ {k}
  /\ alive' = alive \cup {k}
  /\ age' = [age EXCEPT ![k] = IF walking THEN 1 ELSE 0]
  /\ UNCHANGED <<rmvs, calling, walking, fails>>

RemoveTimer(k) ==
  /\ Callable /\ Spend
  /\ removes' = removes \cup {k}
  /\ alive' = alive \ {k}
  /\ UNCHANGED <<handlers, rmvs, todo, calling, walking, fails, age, unsure, reborn>>

(* All that is there gets a mark in the removes the walk looks at; then    *)
(* both tables are replaced.                                               *)
ClearAll ==
  /\ Callable /\ Spend
  /\ rmvs' = IF walking /\ rmvs = {} THEN {removes \cup Present} ELSE rmvs
  /\ handlers' = [k \in {} |-> 0]
  /\ removes' = {}
  /\ todo' = {}
  /\ alive' = {} /\ reborn' = {}
  /\ UNCHANGED <<calling, walking, fails, age, unsure>>

BeginTrigger ==
  /\ ~walking
  /\ walking' = TRUE
  /\ todo' = Present
  /\ age' = [k \in TimerKeys |-> Capped(age[k] + 1)]
  /\ UNCHANGED <<handlers, removes, rmvs, calling, ops, fails, alive, unsure, reborn>>

Elapsed(k) == [handlers EXCEPT ![k].elapse = Capped(@ + 1)]
Due(k) == Capped(handlers[k].elapse + 1) >= handlers[k].interval

Pass(k) ==
  /\ walking /\ calling = {} /\ k \in todo
  /\ ~Due(k) \/ k \in removes
  /\ handlers' = Elapsed(k)
  /\ todo' = todo \ {k}
  /\ UNCHANGED <<removes, rmvs, calling, walking, ops, fails, alive, age, unsure, reborn>>

(* Mutant: a mark is not looked at. *)
CallDead(k) ==
  /\ walking /\ calling = {} /\ k \in todo
  /\ Due(k)
  /\ handlers' = Elapsed(k)
  /\ todo' = todo \ {k}
  /\ calling' = {k}
  /\ IF handlers[k].once THEN removes' = removes \cup {k} /\ alive' = alive \ {k}
                         ELSE UNCHANGED <<removes, alive>>
  /\ UNCHANGED <<rmvs, walking, ops, fails, age, unsure, reborn>>

(* The callback of addTimerOnce removes its timer before anything else.    *)
Call(k) ==
  /\ walking /\ calling = {} /\ k \in todo
  /\ Due(k) /\ k \notin removes
  /\ handlers' = Elapsed(k)
  /\ todo' = todo \ {k}
  /\ calling' = {k}
  /\ IF handlers[k].once THEN removes' = removes \cup {k} /\ alive' = alive \ {k}
                         ELSE UNCHANGED <<removes, alive>>
  /\ UNCHANGED <<rmvs, walking, ops, fails, age, unsure, reborn>>

(* handler[3] = 0.  A handler that was added again meanwhile has it at 0.  *)
Return ==
  \E k \in calling :
    /\ calling' = {}
    /\ handlers' = IF k \in Present THEN [handlers EXCEPT ![k].elapse = 0] ELSE handlers
    /\ age' = [age EXCEPT ![k] = 0]
    /\ unsure' = IF k \in todo THEN unsure ELSE unsure \ {k}
    /\ UNCHANGED <<removes, rmvs, todo, walking, ops, fails, alive, reborn>>

(* An error leaves _trigger at once: no reset, no sweep of the marks.      *)
Fail ==
  /\ calling # {} /\ fails < MaxFails
  /\ fails' = fails + 1
  /\ calling' = {} /\ walking' = FALSE /\ todo' = {} /\ rmvs' = {}
  /\ UNCHANGED <<handlers, removes, ops, alive, age, unsure>>
  /\ reborn' = reborn \ Present

(* The sweep: the marks of the removes the walk holds, carried out on the  *)
(* handlers of now.                                                        *)
EndTrigger ==
  /\ walking /\ calling = {} /\ todo = {}
  /\ LET marks == IF rmvs = {} THEN removes ELSE UNION rmvs
     IN /\ handlers' = [k \in Present \ marks |-> handlers[k]]
        /\ removes' = IF rmvs = {} THEN {} ELSE removes
  /\ walking' = FALSE /\ rmvs' = {}
  /\ UNCHANGED <<todo, calling, ops, fails, alive, age, unsure, reborn>>

TimerNext ==
  \/ \E k \in TimerKeys, i \in Intervals, o \in BOOLEAN : AddTimer(k, i, o)
  \/ \E k \in TimerKeys : RemoveTimer(k) \/ Pass(k) \/ Call(k)
  \/ ClearAll \/ BeginTrigger \/ Return \/ Fail \/ EndTrigger

(* The scheduler comes round again and callbacks return.                   *)
Frames == BeginTrigger \/ Return \/ EndTrigger \/ \E k \in TimerKeys : Pass(k) \/ Call(k)

TimerSpec == TimerInit /\ [][TimerNext]_timerVars /\ WF_timerVars(Frames)

-----------------------------------------------------------------------------
(* A callback is only called while its timer lives: never after            *)
(* removeTimer or clearAll, in the walk or before it, and that of          *)
(* addTimerOnce never twice; and never before its interval has passed in   *)
(* whole frames, the one it was added in counted, wherever calls and       *)
(* failures of other callbacks fall (:33-40, :113-116, :213-221), unless a *)
(* key was inserted into the table being walked: pairs() may come to the   *)
(* same timer twice then, whose interval is wrong till it is called.       *)
CallsTheLiving ==
  [][\A k \in TimerKeys :
       (calling = {} /\ k \in calling') =>
          /\ k \in alive
          /\ k \in unsure \/ age[k] >= handlers[k].interval]_timerVars

(* Between frames the table holds exactly the timers that live, those that *)
(* are to be dropped marked.  The exception: a timer added after a         *)
(* clearAll of the same walk is lost in the sweep when its key had a mark  *)
(* or a handler before (:39-42 with :221).                                 *)
LivingKept ==
  ~walking => /\ alive \ reborn \subseteq Present \ removes
              /\ Present \ removes \subseteq alive

(* "If it is being removed, clear that" (:102): a timer that was added and *)
(* not removed or cleared since keeps its handler.  It does not when a     *)
(* callback calls clearAll first: the sweep has the marks of before.       *)
AddedIsKept == ~walking => alive \subseteq Present

(* A timer that lives and was not lost that way is called again and again, *)
(* whatever the callbacks did while calls and failures lasted.             *)
LivingCalled ==
  \A k \in TimerKeys : []<>(k \in calling \/ k \notin alive \/ k \in reborn)
=============================================================================
