------------------------------- MODULE Ticker -------------------------------
(***************************************************************************)
(* The timing wheel of Base/Function/Ticker.lua: N slots of one min_diff   *)
(* each, a revolution counter, and in every slot one doubly linked list of *)
(* timers per period.  Callbacks are called from inside Tick and may call  *)
(* the ticker again, so each action runs from one callback boundary to the *)
(* next; what a callback does is chosen among the operations of the API.   *)
(*                                                                         *)
(* Time is counted in units of min_diff / R; periods are multiples of      *)
(* min_diff, which is what ConstraintDiff makes of them.                   *)
(***************************************************************************)
EXTENDS Integers, FiniteSets, FiniteSetsExt

CONSTANTS N,           \* __max_group_id__: the slots of the wheel
          M,           \* __max_group_count__: revolutions before the counter wraps
          R,           \* units of time in one min_diff
          CanSkip,     \* __can_skip__
          Diffs,       \* the periods in use, in min_diff
          Timers, Tags,
          MaxFrame,    \* bound: units of time one Tick is told of, or the clock advances
          MaxTime,     \* bound: the backlog __time__ may reach
          MaxSince,    \* bound: units after which the age of a call is not counted
          MaxStops,    \* bound: calls of Stop
          RemoveAny,   \* callbacks remove any timer, or only their own
          StopInCalls, \* callbacks may call Stop
          SetInCalls,  \* callbacks may call SetTimer and SetTick
          Nil, Orphan

ASSUME TickerAssumption ==
    /\ N \in Nat \ {0} /\ M \in Nat \ {0} /\ R \in Nat \ {0}
    /\ Diffs \subseteq 1..(M * N - 1)
    /\ CanSkip \in BOOLEAN /\ RemoveAny \in BOOLEAN
    /\ StopInCalls \in BOOLEAN /\ SetInCalls \in BOOLEAN
    /\ MaxFrame \in Nat /\ MaxTime \in Nat /\ MaxSince \in Nat /\ MaxStops \in Nat
    /\ IsFiniteSet(Timers) /\ Nil \notin Timers /\ Orphan # Nil

\* A list is named by its slot, its revolution and its period.  Slot 0 names the
\* lists of the slot that Call has taken out of the wheel and works on.
Taken(d) == <<0, 0, d>>
Keys == ((1..N) \X (0..M) \X Diffs) \cup {Taken(d) : d \in Diffs}

ASSUME NamesAssumption == {Nil, Orphan} \cap Keys = {}

VARIABLES
    heap,      \* the timers' Next, Last, Group, Call (present or nil), the lists'
               \* Head and Tail, and the list __tick__ of the timers without period
    tagged,    \* __tag_timer__
    run, time, cur, count,  \* __run__, __time__, __cur_group_id__, __group_count__
    since,     \* __now__ - LastCall of each timer, as it is when the clock runs
    pc,        \* where Tick is: between two callbacks, or inside one
    cursor, last,           \* the locals tick / head and last of TickCall and Call
    todo, v, df,            \* Call: periods still to do, the current one, its df
    group, loop,            \* Tick: slots to advance, and how many are left
    period, left, rung, extra,  \* history: what each timer is owed (see Advance)
    own,                   \* history: this Tick's callbacks took out no other timer
    stops

wheel == <<heap, tagged, run, time, cur, count, since>>
local == <<pc, cursor, last, todo, v, df, group, loop>>
owed  == <<period, left, rung, extra, own>>
vars  == <<wheel, local, owed, stops>>

Empty == [head |-> Nil, tail |-> Nil]

Init == /\ heap = [next  |-> [t \in Timers |-> Nil], last |-> [t \in Timers |-> Nil],
                   group |-> [t \in Timers |-> Nil], call |-> [t \in Timers |-> FALSE],
                   list  |-> [k \in Keys |-> Empty], tick |-> Nil]
        /\ tagged = [g \in Tags |-> {}]
        /\ run = FALSE /\ time = 0 /\ cur = 0 /\ count = 0
        /\ since = [t \in Timers |-> 0]
        /\ pc = "idle" /\ cursor = Nil /\ last = Nil
        /\ todo = {} /\ v = 0 /\ df = 0 /\ group = 0 /\ loop = 0
        /\ period = [t \in Timers |-> 0] /\ left = [t \in Timers |-> 0]
        /\ rung = [t \in Timers |-> 0] /\ extra = [t \in Timers |-> 0]
        /\ own = TRUE /\ stops = 0

-----------------------------------------------------------------------------
(* Slots. *)

AtMost(x, y) == IF x <= y THEN x ELSE y

\* The slot diff steps after slot id, and the revolutions passed on the way.
NextGroupId(id, diff) ==
    LET s == id + diff
    IN  IF s > N THEN <<s - N, 1>> ELSE IF s < 1 THEN <<s + N, -1>> ELSE <<s, 0>>

GroupCountConstraint(n) == IF n >= 1 THEN ((n - 1) % M) + 1 ELSE 0

\* Mutant: the revolution that NextGroupId completed is forgotten.
SlotOfNoCarry(id, n, d, gdiff) ==
    <<NextGroupId(id, d % N)[1], GroupCountConstraint(n + d \div N + gdiff), d>>

\* Where SetTimerList puts a timer of period d, gdiff revolutions later.
SlotOf(id, n, d, gdiff) ==
    LET next == NextGroupId(id, d % N)
    IN  <<next[1], GroupCountConstraint(n + d \div N + next[2] + gdiff), d>>

-----------------------------------------------------------------------------
(* Lists. *)

\* The timers from t on, in at most as many steps as there are timers.
Walk(h, t) ==
    LET at[i \in 0..Cardinality(Timers)] ==
            IF i = 0 THEN t ELSE IF at[i - 1] = Nil THEN Nil ELSE h.next[at[i - 1]]
    IN  at
Chain(h, t) == {Walk(h, t)[i] : i \in 0..Cardinality(Timers)} \ {Nil}
EndOf(h, t) == CHOOSE u \in Chain(h, t) : h.next[u] = Nil

\* Mutant: only the first timer learns its new list.
LinkedHeadOnly(h, t, k) ==
    LET tail == h.list[k].tail
    IN  [h EXCEPT !.group[t] = k,
                  !.last[t] = tail,
                  !.next = IF tail = Nil THEN @ ELSE [@ EXCEPT ![tail] = t],
                  !.list[k] = [head |-> IF tail = Nil THEN t ELSE @.head,
                               tail |-> EndOf(h, t)]]

\* SetTimerList: t and all that follow it move to the end of list k.
Linked(h, t, k) ==
    LET tail  == h.list[k].tail
        chain == Chain(h, t)
    IN  [h EXCEPT !.group = [u \in Timers |-> IF u \in chain THEN k ELSE @[u]],
                  !.last[t] = tail,
                  !.next = IF tail = Nil THEN @ ELSE [@ EXCEPT ![tail] = t],
                  !.list[k] = [head |-> IF tail = Nil THEN t ELSE @.head,
                               tail |-> EndOf(h, t)]]

Blank(h, t) == [h EXCEPT !.call[t] = FALSE, !.last[t] = Nil, !.next[t] = Nil,
                         !.group[t] = Nil]

\* Mutants: the list keeps its tail; the list __tick__ keeps its head.
RemovedKeepsTail(h, t) ==
    LET p == h.last[t]
        n == h.next[t]
    IN  Blank([h EXCEPT !.last = IF n = Nil THEN @ ELSE [@ EXCEPT ![n] = p],
                        !.next = IF p = Nil THEN @ ELSE [@ EXCEPT ![p] = n],
                        !.list = IF p = Nil /\ h.group[t] \in Keys
                                 THEN [@ EXCEPT ![h.group[t]].head = n] ELSE @,
                        !.tick = IF @ = t THEN n ELSE @], t)

RemovedKeepsTick(h, t) ==
    LET p == h.last[t]
        n == h.next[t]
    IN  Blank([h EXCEPT !.last = IF n = Nil THEN @ ELSE [@ EXCEPT ![n] = p],
                        !.next = IF p = Nil THEN @ ELSE [@ EXCEPT ![p] = n],
                        !.list = IF h.group[t] \in Keys
                                 THEN [@ EXCEPT ![h.group[t]] =
                                        [head |-> IF p = Nil THEN n ELSE @.head,
                                         tail |-> IF n = Nil THEN p ELSE @.tail]] ELSE @], t)

Removed(h, t) ==
    LET p == h.last[t]
        n == h.next[t]
        k == h.group[t]
        after == IF n = Nil THEN h.last
                 ELSE [h.last EXCEPT ![n] = IF h.tick = t THEN Nil ELSE p]
        before == IF h.tick = t \/ p = Nil THEN h.next ELSE [h.next EXCEPT ![p] = n]
        list == IF h.tick = t \/ k \notin Keys THEN h.list
                ELSE [h.list EXCEPT ![k] = [head |-> IF p = Nil THEN n ELSE @.head,
                                            tail |-> IF n = Nil THEN p ELSE @.tail]]
    IN  Blank([h EXCEPT !.last = after, !.next = before, !.list = list,
                        !.tick = IF @ = t THEN n ELSE @], t)

RemovedAll(h, S) == FoldSet(LAMBDA t, acc : Removed(acc, t), h, S)

-----------------------------------------------------------------------------
(* The API: called from outside, or from a callback. *)

InCall == pc \in {"tickCall", "listCall"}

\* A timer object nobody refers to any more stands for a new one.
Fresh(t) == ~heap.call[t] /\ t \notin {cursor, last}

Since(x) == IF CanSkip THEN AtMost(x, MaxSince) ELSE 0

\* The clock advances by e.
Older(e) == [t \in Timers |-> IF heap.call[t] THEN Since(since[t] + e) ELSE since[t]]

\* SetTimer and SetTick start the ticker (Begin) when it is not running, and read
\* the clock then; callbacks take no time on it.
Started == /\ run' = TRUE
           /\ cur' = IF run THEN cur ELSE 0
           /\ time' = IF run THEN time ELSE 0
AgesAtStart == IF run THEN {since} ELSE {Older(e) : e \in 0..MaxFrame}

SetTimer(d, g) == \E t \in Timers, ages \in AgesAtStart :
    /\ pc = "idle" \/ (InCall /\ SetInCalls)
    /\ Fresh(t)
    /\ Started
    /\ heap' = Linked([heap EXCEPT !.call[t] = TRUE], t, SlotOf(cur', count, d, 0))
    /\ since' = [ages EXCEPT ![t] = Since(time' - R)]
    /\ tagged' = [tagged EXCEPT ![g] = @ \cup {t}]
    /\ period' = [period EXCEPT ![t] = d]
    /\ left' = [left EXCEPT ![t] = d]
    /\ rung' = [rung EXCEPT ![t] = 0]
    /\ extra' = [extra EXCEPT ![t] = 0]
    /\ UNCHANGED <<count, local, own, stops>>

\* Mutants: the old head is not linked in; a new timer goes to the end.
SetTickAlone(g) == \E t \in Timers, ages \in AgesAtStart :
    /\ pc = "idle" \/ (InCall /\ SetInCalls)
    /\ Fresh(t)
    /\ Started
    /\ heap' = [heap EXCEPT !.call[t] = TRUE, !.tick = t]
    /\ since' = [ages EXCEPT ![t] = 0]
    /\ tagged' = [tagged EXCEPT ![g] = @ \cup {t}]
    /\ period' = [period EXCEPT ![t] = 0]
    /\ rung' = [rung EXCEPT ![t] = 1]
    /\ UNCHANGED <<count, local, left, extra, own, stops>>

SetTickAtEnd(g) == \E t \in Timers, ages \in AgesAtStart :
    /\ pc = "idle" \/ (InCall /\ SetInCalls)
    /\ Fresh(t)
    /\ Started
    /\ LET end == IF heap.tick = Nil THEN Nil ELSE EndOf(heap, heap.tick)
       IN  /\ heap' = [heap EXCEPT !.call[t] = TRUE, !.last[t] = end,
                          !.tick = IF @ = Nil THEN t ELSE @,
                          !.next = IF end = Nil THEN @ ELSE [@ EXCEPT ![end] = t]]
           /\ cursor' = IF pc = "tickCall" /\ cursor = Nil THEN t ELSE cursor
    /\ since' = [ages EXCEPT ![t] = 0]
    /\ tagged' = [tagged EXCEPT ![g] = @ \cup {t}]
    /\ period' = [period EXCEPT ![t] = 0]
    /\ rung' = [rung EXCEPT ![t] = 0]
    /\ UNCHANGED <<count, pc, last, todo, v, df, group, loop, left, extra, own, stops>>

\* A period below min_diff: called in every Tick, from the next one on.
SetTick(g) == \E t \in Timers, ages \in AgesAtStart :
    /\ pc = "idle" \/ (InCall /\ SetInCalls)
    /\ Fresh(t)
    /\ Started
    /\ heap' = [heap EXCEPT !.call[t] = TRUE, !.next[t] = heap.tick, !.tick = t,
                   !.last = IF heap.tick = Nil THEN @ ELSE [@ EXCEPT ![heap.tick] = t]]
    /\ since' = [ages EXCEPT ![t] = 0]
    /\ tagged' = [tagged EXCEPT ![g] = @ \cup {t}]
    /\ period' = [period EXCEPT ![t] = 0]
    /\ rung' = [rung EXCEPT ![t] = 1]
    /\ UNCHANGED <<count, local, left, extra, own, stops>>

\* A removed timer stays in the list of its tag, where removing it once more
\* changes nothing: here the list forgets it.
RemoveTimer(t) ==
    /\ pc = "idle" \/ (InCall /\ (RemoveAny \/ t = last))
    /\ heap.call[t]
    /\ heap' = Removed(heap, t)
    /\ tagged' = [g \in Tags |-> tagged[g] \ {t}]
    /\ own' = (own /\ (InCall => t = last))
    /\ UNCHANGED <<run, time, cur, count, since, local, period, left, rung, extra, stops>>

RemoveTimerByTag(g) ==
    /\ pc = "idle" \/ (InCall /\ RemoveAny)
    /\ heap' = RemovedAll(heap, tagged[g])
    /\ tagged' = [tagged EXCEPT ![g] = {}]
    /\ own' = (own /\ (InCall => tagged[g] \subseteq {last}))
    /\ UNCHANGED <<run, time, cur, count, since, local, period, left, rung, extra, stops>>

\* Clear gives every slot a new table.  Lists that Call is working on survive in
\* its locals; the other timers are out of the ticker's reach for good.
Cleared(h) == [h EXCEPT
    !.list = [k \in Keys |-> IF k[1] = 0 THEN @[k] ELSE Empty],
    !.group = [t \in Timers |-> IF @[t] \in {k \in Keys : k[1] # 0} THEN Orphan ELSE @[t]],
    !.tick = Nil]

BlankAll(h) == [h EXCEPT !.next = [t \in Timers |-> Nil], !.last = [t \in Timers |-> Nil],
                         !.group = [t \in Timers |-> Nil], !.call = [t \in Timers |-> FALSE]]

Stop ==
    /\ pc = "idle" \/ (InCall /\ StopInCalls)
    /\ stops < MaxStops
    /\ stops' = stops + 1
    /\ run' = FALSE
    /\ heap' = IF pc = "idle" THEN BlankAll(Cleared(heap)) ELSE Cleared(heap)
    /\ time' = 0 /\ cur' = 0
    /\ tagged' = [g \in Tags |-> {}]
    /\ UNCHANGED <<count, since, local, owed>>

Api == \/ \E g \in Tags : SetTick(g) \/ RemoveTimerByTag(g) \/ \E d \in Diffs : SetTimer(d, g)
       \/ \E t \in Timers : RemoveTimer(t)
       \/ Stop

-----------------------------------------------------------------------------
(* Tick. *)

Go(from, to) == pc = from /\ pc' = to

\* The wheel is told that f has passed, while the clock has advanced by e: the same
\* if the caller passes no diff; TickTest.lua passes one of its own, and never less.
\* The list of timers without period comes first.
Tick(f, e) ==
    /\ run
    /\ time + f <= MaxTime
    /\ Go("idle", "tick")
    /\ time' = time + f
    /\ since' = Older(e)
    /\ cursor' = heap.tick
    /\ rung' = [t \in Timers |-> IF period[t] = 0 THEN 0 ELSE rung[t]]
    /\ UNCHANGED <<heap, tagged, run, cur, count, last, todo, v, df, group, loop,
                   period, left, extra, own, stops>>

\* The next timer of the list is called.  Its successor is read before the call;
\* the Call of a timer removed meanwhile is nil, and calling it is an error.
CallNext(from, to) ==
    /\ cursor # Nil
    /\ Go(from, IF heap.call[cursor] THEN to ELSE "error")
    /\ last' = cursor
    /\ cursor' = heap.next[cursor]
    /\ rung' = [rung EXCEPT ![cursor] = @ + 1]
    /\ UNCHANGED <<wheel, todo, v, df, group, loop, period, left, extra, own, stops>>

TickStep == CallNext("tick", "tickCall")

TickReturn == Go("tickCall", "tick") /\ UNCHANGED <<wheel, cursor, last, todo, v, df, group,
                                                    loop, owed, stops>>

\* TickCall is done: how many slots the wheel advances, one revolution at most.
TickEnd ==
    /\ cursor = Nil
    /\ Go("tick", "loop")
    /\ group' = AtMost(time \div R, N)
    /\ loop' = group'
    /\ UNCHANGED <<wheel, cursor, last, todo, v, df, owed, stops>>

\* Call: the lists of the current slot leave the wheel.
CallSlot ==
    LET here == {k \in Keys : cur # 0 /\ k[1] = cur /\ k[2] = count}
    IN  /\ loop > 0
        /\ Go("loop", "groups")
        /\ todo' = {k[3] : k \in {j \in here : heap.list[j].head # Nil}}
        /\ heap' = [heap EXCEPT
               !.list = [k \in Keys |-> IF k[1] = 0 /\ cur # 0 THEN @[<<cur, count, k[3]>>]
                                        ELSE IF k \in here THEN Empty ELSE @[k]],
               !.group = [t \in Timers |-> IF @[t] \in here THEN Taken(@[t][3]) ELSE @[t]]]
        /\ UNCHANGED <<tagged, run, time, cur, count, since, cursor, last, v, df, group, loop,
                       owed, stops>>

\* The periods of a slot come in any order.  After a Stop __now__ is 0, and df is
\* not above 0.
ListStart ==
    /\ Go("groups", "list")
    /\ \E d \in todo :
        LET head == heap.list[Taken(d)].head
        IN  /\ todo' = todo \ {d}
            /\ v' = d
            /\ cursor' = head
            /\ df' = IF CanSkip /\ run /\ head # Nil THEN since[head] ELSE 0
    /\ UNCHANGED <<wheel, last, group, loop, owed, stops>>

ListStep == CallNext("list", "listCall")

\* The timer is called now; after a Stop LastCall is 0, which is long ago.
ListReturn ==
    /\ Go("listCall", "list")
    /\ since' = [since EXCEPT ![last] = IF run THEN 0 ELSE Since(MaxSince)]
    /\ UNCHANGED <<heap, tagged, run, time, cur, count, cursor, last, todo, v, df, group,
                   loop, owed, stops>>

\* Mutant: rounded up.
OverRoundedUp == IF CanSkip /\ df > v * R THEN (df - v * R + N * R - 1) \div (N * R) ELSE 0

\* Revolutions to leave out when the wheel is late.
Over == IF CanSkip /\ df > v * R THEN (df - v * R) \div (N * R) ELSE 0

\* What is left of the list is linked in again, one period ahead.
ListEnd ==
    LET head == heap.list[Taken(v)].head
        free == [heap EXCEPT !.list[Taken(v)] = Empty]
    IN  /\ cursor = Nil
        /\ Go("list", "groups")
        /\ heap' = IF head = Nil THEN heap ELSE Linked(free, head, SlotOf(cur, count, v, Over))
        /\ extra' = [t \in Timers |-> IF heap.group[t] = Taken(v) THEN Over * N ELSE extra[t]]
        /\ UNCHANGED <<tagged, run, time, cur, count, since, cursor, last, todo, v, df, group,
                       loop, period, left, rung, own, stops>>

\* Call is done; the wheel goes on by one slot.  (History: so does what is owed.)
Advance ==
    /\ todo = {}
    /\ Go("groups", "loop")
    /\ cur' = NextGroupId(cur, 1)[1]
    /\ count' = IF cur = N THEN GroupCountConstraint(count + 1) ELSE count
    /\ loop' = loop - 1
    /\ left' = [t \in Timers |-> IF period[t] = 0 THEN 0
                                  ELSE (IF left[t] = 0 THEN period[t] + extra[t] ELSE left[t]) - 1]
    /\ rung' = [t \in Timers |-> IF period[t] = 0 THEN rung[t] ELSE 0]
    /\ extra' = [t \in Timers |-> 0]
    /\ UNCHANGED <<heap, tagged, run, time, since, cursor, last, todo, v, df, group, period,
                   own, stops>>

\* After a Stop in a callback the time is negative, and so is the number of slots.
LoopEnd ==
    /\ loop <= 0
    /\ Go("loop", "idle")
    /\ time' = time - group * R
    /\ last' = Nil /\ v' = 0 /\ df' = 0 /\ group' = 0
    /\ own' = TRUE
    /\ UNCHANGED <<heap, tagged, run, cur, count, since, cursor, todo, loop, period, left,
                   rung, extra, stops>>

Inside == \/ TickStep \/ TickReturn \/ TickEnd \/ CallSlot \/ ListStart \/ ListStep
          \/ ListReturn \/ ListEnd \/ Advance \/ LoopEnd

\* The error leaves Tick; what its caller does then is not modelled.
Raised == pc = "error" /\ UNCHANGED vars

Next == Api \/ (\E f, e \in 0..MaxFrame : Tick(f, e)) \/ Inside \/ Raised

Spec == Init /\ [][Next]_vars
-----------------------------------------------------------------------------
(* Properties. *)

TypeOK == /\ heap.next \in [Timers -> Timers \cup {Nil}]
          /\ heap.last \in [Timers -> Timers \cup {Nil}]
          /\ heap.group \in [Timers -> Keys \cup {Nil, Orphan}]
          /\ heap.call \in [Timers -> BOOLEAN]
          /\ heap.list \in [Keys -> [head : Timers \cup {Nil}, tail : Timers \cup {Nil}]]
          /\ heap.tick \in Timers \cup {Nil}
          /\ tagged \in [Tags -> SUBSET Timers]
          /\ run \in BOOLEAN /\ time \in Int /\ cur \in 0..N /\ count \in 0..M
          /\ pc \in {"idle", "tick", "tickCall", "loop", "groups", "list", "listCall", "error"}
          /\ {cursor, last} \subseteq Timers \cup {Nil}
          /\ todo \subseteq Diffs /\ v \in Diffs \cup {0} /\ group <= N /\ loop <= N

\* The list that starts at head is linked both ways, ends at tail, and holds
\* exactly the live timers S.
IsList(head, tail, S) ==
    /\ Chain(heap, head) = S
    /\ head = Nil <=> tail = Nil
    /\ head # Nil => heap.last[head] = Nil /\ heap.next[tail] = Nil
    /\ \A t \in S : /\ heap.call[t]
                    /\ heap.next[t] # Nil => heap.last[heap.next[t]] = t

\* Whatever callbacks add or remove while a list is walked, each live timer is in
\* one list, and the list's links agree (Ticker.lua:209-236, :271-294).
WellLinked ==
    /\ TypeOK
    /\ \A k \in Keys : IsList(heap.list[k].head, heap.list[k].tail,
                              {t \in Timers : heap.group[t] = k})
    /\ \A t \in Chain(heap, heap.tick) : heap.call[t] /\ heap.group[t] = Nil
    /\ \A t \in Chain(heap, heap.tick) :
          heap.next[t] # Nil => heap.last[heap.next[t]] = t

\* Call reaches a timer when the wheel has made as many steps as its period says,
\* and once; no live timer's turn passes without a call.
OnTime ==
    /\ pc = "listCall" => left[last] = 0 /\ rung[last] = 1
    /\ pc = "groups" /\ todo = {} =>
         \A t \in Timers : heap.call[t] /\ period[t] > 0 =>
            rung[t] = IF left[t] = 0 THEN 1 ELSE 0

\* Every timer without period is called once in each Tick it lives through, also
\* when callbacks insert at the head of the list or take themselves out.
EveryFrame == \A t \in Timers : period[t] = 0 =>
    /\ rung[t] <= 1
    /\ pc = "loop" /\ heap.call[t] => rung[t] = 1

\* A walk calls nil, and raises, only after a callback of the same Tick took out
\* another timer than its own (Ticker.lua:90-91, :123-124).
NoNilCall == pc = "error" => ~own

\* A late timer skips revolutions only as far as the wheel is really behind.
SkipsOnlyThePast == pc \in {"groups", "list", "listCall"} =>
    \A t \in Timers : extra[t] * R <= time - (group - loop + 1) * R

\* A Tick ends, although its callbacks may go on adding timers.
TickEnds == pc # "idle" ~> pc \in {"idle", "error"}
=============================================================================
