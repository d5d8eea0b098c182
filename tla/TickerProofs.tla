---------------------------- MODULE TickerProofs ----------------------------
(***************************************************************************)
(* Theorems about the ticker, for any number of slots, revolutions, timers *)
(* and periods.  First the slots; then the lists, which callbacks rewrite  *)
(* while they are walked (ListsStayLinked, WalksCallTimers); then who has  *)
(* been called in a walk (TimersOfEachFrame), where a timer is seen from   *)
(* where the wheel is (TimersOnTime), and how far behind the wheel may be  *)
(* (LateWheelsCatchUp).                                                    *)
(***************************************************************************)
EXTENDS TickerPlansMC, Least

(* Slots, numbered through all revolutions: slot id of revolution n is the
   (n * N + id)-th. *)

\* Until the revolution counter wraps, constraining it changes nothing.
LEMMA CountBelowWrap ==
    ASSUME NEW n \in 0..M
    PROVE  GroupCountConstraint(n) = n
<1>1. M \in Nat \ {0}
  BY TickerAssumption
<1>2. CASE n = 0
  BY <1>2 DEF GroupCountConstraint
<1>3. CASE n >= 1
  <2>1. n - 1 \in 0..(M - 1)
    BY <1>1, <1>3
  <2>2. (n - 1) % M = n - 1
    BY <1>1, <2>1
  <2> QED
    BY <1>3, <2>2 DEF GroupCountConstraint
<1> QED
  BY <1>2, <1>3

\* NextGroupId moves by diff slots, and stays on the wheel.
LEMMA NextGroupIdMoves ==
    ASSUME NEW id \in 0..N, NEW diff \in 0..N
    PROVE  /\ NextGroupId(id, diff)[1] \in 1..N
           /\ NextGroupId(id, diff)[2] \in {-1, 0, 1}
           /\ NextGroupId(id, diff)[2] = -1 => id = 0 /\ diff = 0
           /\ NextGroupId(id, diff)[2] * N + NextGroupId(id, diff)[1] = id + diff
  BY TickerAssumption DEF NextGroupId

\* A timer of period d is put exactly d slots ahead of the current one
\* (SetTimerList, Ticker.lua:209-212), unless the counter wraps on the way.
THEOREM SlotIsPeriodAhead ==
    ASSUME NEW id \in 0..N, NEW n \in Nat, NEW d \in Nat \ {0},
           n + d \div N + 1 <= M
    PROVE  LET k == SlotOf(id, n, d, 0)
           IN  /\ k[1] \in 1..N
               /\ k[2] * N + k[1] = n * N + id + d
<1> DEFINE q == d \div N
           r == d % N
           next == NextGroupId(id, r)
<1>1. N \in Nat \ {0} /\ M \in Nat \ {0}
  BY TickerAssumption
<1>2. q \in Nat /\ r \in 0..(N - 1) /\ d = q * N + r
  BY <1>1
<1>3. next[1] \in 1..N /\ next[2] * N + next[1] = id + r /\ next[2] \in {-1, 0, 1}
  BY <1>1, <1>2, NextGroupIdMoves
<1>4. next[2] = -1 => q >= 1
  <2>1. next[2] = -1 => r = 0
    BY <1>1, <1>2, NextGroupIdMoves
  <2>2. r = 0 => q # 0
    BY <1>1, <1>2
  <2> QED
    BY <1>2, <2>1, <2>2
<1>5. n + q + next[2] \in 0..M
  BY <1>1, <1>2, <1>3, <1>4
<1>6. GroupCountConstraint(n + q + next[2] + 0) = n + q + next[2]
  BY <1>2, <1>3, <1>5, CountBelowWrap
<1>7. SlotOf(id, n, d, 0) = <<next[1], n + q + next[2], d>>
  BY <1>6 DEF SlotOf
<1>8. (n + q + next[2]) * N = n * N + q * N + next[2] * N
  BY <1>1, <1>2, <1>3
<1>9. (n + q + next[2]) * N + next[1] = n * N + id + d
  <2> HIDE DEF q, r, next
  <2>1. n * N \in Int /\ q * N \in Int /\ next[2] * N \in Int /\ next[1] \in Int
    BY <1>1, <1>2, <1>3
  <2>2. next[2] * N + next[1] = id + r
    BY <1>3
  <2> QED
    BY <1>2, <1>8, <2>1, <2>2
<1> QED
  BY <1>3, <1>7, <1>9

-----------------------------------------------------------------------------
(* Names. *)

LEMMA TimerNames ==
    /\ IsFiniteSet(Timers) /\ Nil \notin Timers /\ Orphan # Nil
    /\ Nil \notin Keys /\ Orphan \notin Keys
  BY TickerAssumption, NamesAssumption

-----------------------------------------------------------------------------
(* Lists.  What follows is about one heap h; the steps come below. *)

Places == Timers \cup {Nil}

Heaps == [next : [Timers -> Places], last : [Timers -> Places],
          group : [Timers -> Keys \cup {Nil, Orphan}], call : [Timers -> BOOLEAN],
          list : [Keys -> [head : Places, tail : Places]], tick : Places]

\* A timer that is not in the ticker is in no list.
DeadOut(h) == \A t \in Timers : ~h.call[t] =>
    h.next[t] = Nil /\ h.last[t] = Nil /\ h.group[t] = Nil

Linking(h) == \A t \in Timers :
    /\ h.next[t] # Nil => h.last[h.next[t]] = t /\ h.group[h.next[t]] = h.group[t]
    /\ h.last[t] # Nil => h.next[h.last[t]] = t

\* No list bites its tail: each set of timers has one that follows none of them.
Grounded(h) == \A S \in SUBSET Timers : S # {} => \E t \in S : h.last[t] \notin S

EndsIn(h) == \A k \in Keys :
    /\ h.list[k].head = Nil <=> h.list[k].tail = Nil
    /\ h.list[k].head # Nil => /\ h.group[h.list[k].head] = k /\ h.last[h.list[k].head] = Nil
                               /\ h.group[h.list[k].tail] = k /\ h.next[h.list[k].tail] = Nil

\* Only the ends of a list have no neighbour.
EndsOnly(h) == \A t \in Timers : h.group[t] \in Keys =>
    /\ h.last[t] = Nil => h.list[h.group[t]].head = t
    /\ h.next[t] = Nil => h.list[h.group[t]].tail = t

TickHead(h) == h.tick # Nil => h.call[h.tick] /\ h.group[h.tick] = Nil /\ h.last[h.tick] = Nil

Sound(h) == /\ h \in Heaps /\ DeadOut(h) /\ Linking(h) /\ Grounded(h)
            /\ EndsIn(h) /\ EndsOnly(h) /\ TickHead(h)

LEMMA HeapFields ==
    ASSUME NEW h \in Heaps
    PROVE  /\ h.next \in [Timers -> Places] /\ h.last \in [Timers -> Places]
           /\ h.group \in [Timers -> Keys \cup {Nil, Orphan}] /\ h.call \in [Timers -> BOOLEAN]
           /\ h.list \in [Keys -> [head : Places, tail : Places]] /\ h.tick \in Places
  BY DEF Heaps

\* The timers of a list, given its head.
Step(h) == [t \in Places |-> IF t = Nil THEN Nil ELSE h.next[t]]

LEMMA WalkIs ==
    ASSUME NEW h \in Heaps, NEW a \in Places
    PROVE  Iterates(Walk(h, a), Places, a, Step(h), Cardinality(Timers))
<1> DEFINE C == Cardinality(Timers)
           B(w) == [i \in 0..C |-> IF i = 0 THEN a
                                   ELSE IF w[i - 1] = Nil THEN Nil ELSE h.next[w[i - 1]]]
           W == CHOOSE w : w = B(w)
<1>1. Walk(h, a) = W
  BY DEF Walk
<1>2. C \in Nat
  BY TimerNames, FS_CardinalityType
<1>3. Step(h) \in [Places -> Places] /\ \A t \in Places : Step(h)[t] = IF t = Nil THEN Nil ELSE h.next[t]
  BY HeapFields DEF Step, Places
<1> HIDE DEF C
<1>4. PICK f : Iterates(f, Places, a, Step(h), C)
  BY <1>2, <1>3, IteratesExist
<1>5. f = [i \in 0..C |-> f[i]]
  BY <1>4 DEF Iterates
<1>6. \A i \in 0..C : f[i] = IF i = 0 THEN a ELSE IF f[i - 1] = Nil THEN Nil ELSE h.next[f[i - 1]]
  <2> TAKE i \in 0..C
  <2>1. CASE i = 0
    BY <1>4, <2>1 DEF Iterates
  <2>2. CASE i # 0
    <3>1. i \in 1..C /\ i - 1 \in 0..C
      BY <1>2, <2>2
    <3>2. f[i] = Step(h)[f[i - 1]] /\ f[i - 1] \in Places
      BY <1>4, <3>1 DEF Iterates
    <3> QED
      BY <1>3, <2>2, <3>2
  <2> QED
    BY <2>1, <2>2
<1>7. f = B(f)
  BY <1>5, <1>6
<1>8. W = B(W)
  BY <1>7
<1> HIDE DEF W
<1>9. W = [i \in 0..C |-> W[i]] /\ W[0] = a
      /\ \A i \in 1..C : W[i] = IF W[i - 1] = Nil THEN Nil ELSE h.next[W[i - 1]]
  <2>1. W = [i \in 0..C |-> W[i]]
    BY <1>8
  <2>2. W[0] = a
    BY <1>2, <1>8
  <2>3. ASSUME NEW i \in 1..C
        PROVE  W[i] = IF W[i - 1] = Nil THEN Nil ELSE h.next[W[i - 1]]
    <3>1. i \in 0..C /\ i # 0
      BY <1>2
    <3> QED
      BY <1>8, <3>1
  <2> QED
    BY <2>1, <2>2, <2>3
<1>10. \A i \in 1..C : W[i - 1] \in Places => W[i] = Step(h)[W[i - 1]] /\ W[i] \in Places
  BY <1>3, <1>9
<1>11. \A i \in 0..C : W[i] \in Places
  BY <1>2, <1>9, <1>10, IteratesStay
<1>12. W \in [0..C -> Places]
  BY <1>9, <1>11
<1>13. \A i \in 1..C : W[i] = Step(h)[W[i - 1]]
  BY <1>2, <1>10, <1>11
<1>14. Iterates(W, Places, a, Step(h), C)
  BY <1>9, <1>12, <1>13 DEF Iterates
<1> QED
  BY <1>1, <1>14 DEF C

LEMMA WalkSteps ==
    ASSUME NEW h \in Heaps, NEW a \in Places
    PROVE  /\ Cardinality(Timers) \in Nat
           /\ \A i \in 0..Cardinality(Timers) : Walk(h, a)[i] \in Places
           /\ Walk(h, a)[0] = a
           /\ \A i \in 1..Cardinality(Timers) : /\ i - 1 \in 0..Cardinality(Timers)
                  /\ Walk(h, a)[i] = IF Walk(h, a)[i - 1] = Nil THEN Nil
                                     ELSE h.next[Walk(h, a)[i - 1]]
<1> DEFINE C == Cardinality(Timers)
           W == Walk(h, a)
<1>1. C \in Nat
  BY TimerNames, FS_CardinalityType
<1>2. Iterates(W, Places, a, Step(h), C)
  BY WalkIs
<1> HIDE DEF C, W
<1>3. \A i \in 0..C : W[i] \in Places
  BY <1>2 DEF Iterates
<1>4. W[0] = a
  BY <1>2 DEF Iterates
<1>5. \A i \in 1..C : i - 1 \in 0..C
  BY <1>1
<1>6. \A i \in 1..C : W[i] = Step(h)[W[i - 1]]
  BY <1>2 DEF Iterates
<1>7. \A i \in 1..C : W[i] = IF W[i - 1] = Nil THEN Nil ELSE h.next[W[i - 1]]
  BY <1>3, <1>5, <1>6 DEF Step
<1> QED
  BY <1>1, <1>3, <1>4, <1>5, <1>7 DEF C, W

\* A set that next does not leave holds the chain of each of its timers.
LEMMA ChainStays ==
    ASSUME NEW h \in Heaps, NEW a \in Places, NEW P \in SUBSET Places, a \in P, Nil \in P,
           \A t \in P : t # Nil => h.next[t] \in P
    PROVE  Chain(h, a) \subseteq P \ {Nil}
<1> DEFINE C == Cardinality(Timers)
           W == Walk(h, a)
<1>1. /\ C \in Nat /\ W[0] = a /\ \A i \in 1..C : i - 1 \in 0..C
      /\ \A i \in 1..C : W[i] = IF W[i - 1] = Nil THEN Nil ELSE h.next[W[i - 1]]
  BY WalkSteps
<1>2. Chain(h, a) = {W[i] : i \in 0..C} \ {Nil}
  BY DEF Chain
<1> HIDE DEF C, W
<1>3. \A i \in 1..C : W[i - 1] \in P => W[i] \in P
  BY <1>1
<1>4. \A i \in 0..C : W[i] \in P
  BY <1>1, <1>3, IteratesStay
<1> QED
  BY <1>2, <1>4

\* A walk from a timer without predecessor does not run out of steps.
LEMMA WalkEnds ==
    ASSUME NEW h, Sound(h), NEW a \in Places, a # Nil => h.last[a] = Nil
    PROVE  Walk(h, a)[Cardinality(Timers)] = Nil
<1> DEFINE C == Cardinality(Timers)
           W == Walk(h, a)
<1>0. h \in Heaps /\ Linking(h)
  BY DEF Sound
<1>1. /\ C \in Nat /\ W[0] = a /\ \A i \in 1..C : i - 1 \in 0..C
      /\ \A i \in 0..C : W[i] \in Places
      /\ \A i \in 1..C : W[i] = IF W[i - 1] = Nil THEN Nil ELSE h.next[W[i - 1]]
  BY <1>0, WalkSteps
<1>2. IsFiniteSet(Timers) /\ Cardinality(Timers) = C /\ Nil \notin Timers
  BY TimerNames
<1> HIDE DEF C, W
<1> SUFFICES ASSUME W[C] # Nil PROVE FALSE
  BY DEF C, W
<1>3. \A i \in 0..C : W[i] # Nil
  <2> DEFINE Bad == {i \in 0..C : W[C - i] = Nil}
  <2> SUFFICES ASSUME Bad # {} PROVE FALSE
    <3>1. \A i \in 0..C : C - i \in 0..C /\ C - (C - i) = i
      BY <1>1
    <3> QED
      BY <3>1
  <2>1. PICK m \in Bad : \A k \in Bad : m <= k
    <3>1. Bad \in SUBSET Nat
      BY <1>1
    <3> HIDE DEF Bad
    <3> QED
      BY <3>1, LeastNumber
  <2>2. m # 0
    BY <1>1, <2>1
  <2>3. m - 1 \in 0..C /\ C - m + 1 \in 1..C /\ C - (m - 1) = C - m + 1 /\ (C - m + 1) - 1 = C - m
    BY <1>1, <2>1, <2>2
  <2>4. W[C - (m - 1)] = Nil
    BY <1>1, <2>1, <2>3
  <2>5. m - 1 \in Bad /\ ~(m <= m - 1)
    BY <1>1, <2>1, <2>3, <2>4
  <2> HIDE DEF Bad
  <2> QED
    BY <2>1, <2>5
<1>4. \A i \in 1..C : W[i] = h.next[W[i - 1]] /\ h.last[W[i]] = W[i - 1]
  BY <1>0, <1>1, <1>3 DEF Linking, Places
<1>5. \A i, j \in 0..C : W[i] = W[j] => i = j
  <2> DEFINE Bad == {i \in 0..C : \E j \in 0..C : i < j /\ W[i] = W[j]}
  <2>1. Bad = {}
    <3> SUFFICES ASSUME Bad # {} PROVE FALSE
      OBVIOUS
    <3>1. PICK m \in Bad : \A k \in Bad : m <= k
      <4>1. Bad \in SUBSET Nat
        BY <1>1
      <4> HIDE DEF Bad
      <4> QED
        BY <4>1, LeastNumber
    <3>2. PICK j \in 0..C : m < j /\ W[m] = W[j]
      BY <3>1
    <3>3. j \in 1..C /\ j - 1 \in 0..C
      BY <1>1, <3>1, <3>2
    <3>4. h.last[W[m]] = W[j - 1] /\ W[j - 1] # Nil
      BY <1>3, <1>4, <3>2, <3>3
    <3>5. m # 0
      BY <1>1, <1>3, <3>4
    <3>6. m \in 1..C /\ m - 1 \in 0..C /\ m - 1 < j - 1 /\ ~(m <= m - 1)
      BY <1>1, <3>1, <3>2, <3>5
    <3>7. W[m - 1] = W[j - 1]
      BY <1>4, <3>4, <3>6
    <3>8. m - 1 \in Bad
      BY <3>3, <3>6, <3>7
    <3> HIDE DEF Bad
    <3> QED
      BY <3>1, <3>6, <3>8
  <2>2. \A i, j \in 0..C : i = j \/ i < j \/ j < i
    BY <1>1
  <2> QED
    BY <2>1, <2>2
<1> DEFINE F == [i \in 0..C |-> W[i]]
<1>6. F \in [0..C -> Timers]
  BY <1>1, <1>3 DEF Places
<1>7. IsFiniteSet(0..C) /\ Cardinality(0..C) = C + 1
  BY <1>1, FS_Interval
<1>8. \A i, j \in 0..C : F[i] = F[j] => i = j
  BY <1>5
<1> HIDE DEF F
<1>9. Cardinality(0..C) <= Cardinality(Timers)
  <2> DEFINE D == 0..C
  <2>1. F \in Injection(D, Timers)
    BY <1>6, <1>8 DEF Injection, IsInjective
  <2> HIDE DEF D
  <2>2. Cardinality(D) <= Cardinality(Timers)
    BY <1>2, <2>1, FS_Injection
  <2> QED
    BY <2>2 DEF D
<1> QED
  BY <1>1, <1>2, <1>7, <1>9

\* The chain of the head of list k is the timers whose Group is k.
LEMMA ChainIsGroup ==
    ASSUME NEW h, Sound(h), NEW k \in Keys
    PROVE  Chain(h, h.list[k].head) = {t \in Timers : h.group[t] = k}
<1> DEFINE C == Cardinality(Timers)
           a == h.list[k].head
           W == Walk(h, a)
           G == {t \in Timers : h.group[t] = k}
<1>0. h \in Heaps /\ Linking(h) /\ Grounded(h) /\ EndsIn(h) /\ EndsOnly(h) /\ DeadOut(h)
  BY DEF Sound
<1>1. a \in Places /\ (a # Nil => h.last[a] = Nil /\ h.group[a] = k)
  BY <1>0, HeapFields DEF EndsIn
<1>2. Chain(h, a) \subseteq G
  <2> DEFINE P == G \cup {Nil}
  <2>1. a \in P /\ P \in SUBSET Places
    BY <1>1 DEF Places
  <2>2. \A t \in P : t # Nil => h.next[t] \in P
    BY <1>0, HeapFields DEF Linking, Places
  <2>3. Chain(h, a) \subseteq P \ {Nil}
    <3> HIDE DEF P, a
    <3> QED
      BY <1>0, <1>1, <2>1, <2>2, ChainStays DEF P
  <2> QED
    BY <2>3
<1>3. G \subseteq Chain(h, a)
  <2> DEFINE S == G \ Chain(h, a)
  <2> SUFFICES ASSUME S # {} PROVE FALSE
    OBVIOUS
  <2>1. PICK t \in S : h.last[t] \notin S
    <3>1. S \in SUBSET Timers
      OBVIOUS
    <3> HIDE DEF S
    <3> QED
      BY <1>0, <3>1 DEF Grounded
  <2>2. /\ C \in Nat /\ W[0] = a /\ \A i \in 1..C : i - 1 \in 0..C
        /\ \A i \in 0..C : W[i] \in Places
        /\ \A i \in 1..C : W[i] = IF W[i - 1] = Nil THEN Nil ELSE h.next[W[i - 1]]
    BY <1>0, <1>1, WalkSteps
  <2>3. Chain(h, a) = {W[i] : i \in 0..C} \ {Nil}
    BY DEF Chain
  <2>4. W[C] = Nil
    BY <1>1, WalkEnds
  <2> HIDE DEF C, W
  <2>5. t \in Timers /\ h.group[t] = k /\ t \notin Chain(h, a) /\ Nil \notin Timers
    BY TimerNames
  <2>6. CASE h.last[t] = Nil
    <3>1. t = a
      BY <1>0, <2>5, <2>6 DEF EndsOnly
    <3>2. 0 \in 0..C /\ W[0] # Nil
      BY <2>2, <2>5, <3>1
    <3> HIDE DEF a
    <3> QED
      BY <2>2, <2>3, <2>5, <3>1, <3>2
  <2>7. CASE h.last[t] # Nil
    <3> DEFINE p == h.last[t]
    <3>1. p \in Timers /\ h.next[p] = t /\ h.group[p] = k
      BY <1>0, <2>5, <2>7, HeapFields DEF Linking, Places
    <3>2. p \in Chain(h, a)
      BY <2>1, <3>1
    <3> HIDE DEF p, a
    <3>3. PICK i \in 0..C : W[i] = p
      BY <2>3, <3>2
    <3>4. i # C /\ p # Nil
      BY <2>4, <2>5, <3>1, <3>3
    <3>5. i + 1 \in 1..C /\ (i + 1) - 1 = i /\ i + 1 \in 0..C
      BY <2>2, <3>4
    <3>6. W[i + 1] = t
      BY <2>2, <3>1, <3>3, <3>4, <3>5
    <3> QED
      BY <2>3, <2>5, <3>5, <3>6
  <2> QED
    BY <2>6, <2>7
<1> QED
  BY <1>2, <1>3

-----------------------------------------------------------------------------
(* The steps of the lists. *)

\* Linked, when the chain of t is S and ends at e.
Joined(h, t, e, S, k) ==
    LET tail == h.list[k].tail
    IN  [h EXCEPT !.group = [u \in Timers |-> IF u \in S THEN k ELSE @[u]],
                  !.last[t] = tail,
                  !.next = IF tail = Nil THEN @ ELSE [@ EXCEPT ![tail] = t],
                  !.list[k] = [head |-> IF tail = Nil THEN t ELSE @.head, tail |-> e]]

IsJoined(x, h, t, e, S, k) ==
    /\ x \in Heaps /\ x.call = h.call /\ x.tick = h.tick
    /\ \A u \in Timers :
          /\ x.group[u] = IF u \in S THEN k ELSE h.group[u]
          /\ x.last[u] = IF u = t THEN h.list[k].tail ELSE h.last[u]
          /\ x.next[u] = IF u = h.list[k].tail THEN t ELSE h.next[u]
    /\ \A j \in Keys : j # k => x.list[j] = h.list[j]
    /\ x.list[k].head = IF h.list[k].tail = Nil THEN t ELSE h.list[k].head
    /\ x.list[k].tail = e

LEMMA JoinedIs ==
    ASSUME NEW h \in Heaps, NEW S \in SUBSET Timers, NEW t \in S, NEW e \in S, NEW k \in Keys
    PROVE  IsJoined(Joined(h, t, e, S, k), h, t, e, S, k)
<1> DEFINE x == Joined(h, t, e, S, k)
           tail == h.list[k].tail
<1>1. /\ h.next \in [Timers -> Places] /\ h.last \in [Timers -> Places]
      /\ h.group \in [Timers -> Keys \cup {Nil, Orphan}] /\ h.call \in [Timers -> BOOLEAN]
      /\ h.list \in [Keys -> [head : Places, tail : Places]] /\ h.tick \in Places
  BY HeapFields
<1>2. tail \in Places /\ t \in Timers /\ e \in Timers /\ Nil \notin Timers
      /\ h.list[k].head \in Places
  BY <1>1, TimerNames
<1>3. /\ x.next = IF tail = Nil THEN h.next ELSE [h.next EXCEPT ![tail] = t]
      /\ x.last = [h.last EXCEPT ![t] = tail]
      /\ x.group = [u \in Timers |-> IF u \in S THEN k ELSE h.group[u]]
      /\ x.call = h.call /\ x.tick = h.tick
      /\ x.list = [h.list EXCEPT ![k] = [head |-> IF tail = Nil THEN t ELSE h.list[k].head,
                                         tail |-> e]]
  <2>1. x.next = IF tail = Nil THEN h.next ELSE [h.next EXCEPT ![tail] = t]
    BY DEF Joined, Heaps
  <2>2. x.last = [h.last EXCEPT ![t] = tail]
    BY DEF Joined, Heaps
  <2>3. x.group = [u \in Timers |-> IF u \in S THEN k ELSE h.group[u]]
    BY DEF Joined, Heaps
  <2>4. x.call = h.call /\ x.tick = h.tick
    BY DEF Joined, Heaps
  <2>5. x.list = [h.list EXCEPT ![k] = [head |-> IF tail = Nil THEN t ELSE h.list[k].head,
                                         tail |-> e]]
    <3> DEFINE r == [head |-> IF tail = Nil THEN t ELSE h.list[k].head, tail |-> e]
               g == [h EXCEPT !.group = [u \in Timers |-> IF u \in S THEN k ELSE @[u]],
                              !.last[t] = tail,
                              !.next = IF tail = Nil THEN @ ELSE [@ EXCEPT ![tail] = t]]
    <3>1. g.list = h.list
      BY DEF Heaps
    <3>2. x = [g EXCEPT !.list[k] = [head |-> IF tail = Nil THEN t ELSE @.head, tail |-> e]]
      BY DEF Joined
    <3>3. g \in Heaps
      BY <1>1, <1>2 DEF Heaps, Places
    <3> HIDE DEF g
    <3>4. x.list = [g.list EXCEPT ![k] = [head |-> IF tail = Nil THEN t ELSE g.list[k].head, tail |-> e]]
      BY <3>2, <3>3 DEF Heaps
    <3> QED
      BY <3>1, <3>4
  <2> QED
    BY <2>1, <2>2, <2>3, <2>4, <2>5
<1>5. x \in Heaps
  BY <1>1, <1>2 DEF Joined, Heaps, Places
<1> HIDE DEF x
<1>6. \A u \in Timers : /\ x.group[u] = IF u \in S THEN k ELSE h.group[u]
                        /\ x.last[u] = IF u = t THEN tail ELSE h.last[u]
                        /\ x.next[u] = IF u = tail THEN t ELSE h.next[u]
  BY <1>1, <1>2, <1>3
<1>7. /\ \A j \in Keys : j # k => x.list[j] = h.list[j]
      /\ x.list[k].head = IF tail = Nil THEN t ELSE h.list[k].head
      /\ x.list[k].tail = e
  BY <1>1, <1>2, <1>3
<1> QED
  BY <1>3, <1>5, <1>6, <1>7 DEF x, IsJoined

\* S is a list of its own, from t to e, that no list of the ticker reaches.
Loose(h, t, e, S) ==
    /\ h \in Heaps /\ DeadOut(h) /\ Linking(h) /\ Grounded(h) /\ EndsIn(h) /\ TickHead(h)
    /\ S \in SUBSET Timers /\ t \in S /\ e \in S /\ h.last[t] = Nil /\ h.next[e] = Nil
    /\ h.tick \notin S
    /\ \A u \in S : /\ h.call[u]
                    /\ h.next[u] \in S \cup {Nil} /\ h.last[u] \in S \cup {Nil}
                    /\ h.last[u] = Nil => u = t
                    /\ h.next[u] = Nil => u = e
                    /\ \A k \in Keys : h.list[k].head # u /\ h.list[k].tail # u
    /\ \A u \in Timers : u \notin S /\ h.group[u] \in Keys =>
                    /\ h.last[u] = Nil => h.list[h.group[u]].head = u
                    /\ h.next[u] = Nil => h.list[h.group[u]].tail = u

LEMMA JoinedSound ==
    ASSUME NEW h, NEW S, NEW t, NEW e, Loose(h, t, e, S), NEW k \in Keys
    PROVE  Sound(Joined(h, t, e, S, k))
<1> DEFINE x == Joined(h, t, e, S, k)
           tail == h.list[k].tail
<1>1. /\ h \in Heaps /\ S \in SUBSET Timers /\ t \in S /\ e \in S /\ t \in Timers /\ e \in Timers
      /\ h.last[t] = Nil /\ h.next[e] = Nil /\ h.tick \notin S
  BY DEF Loose
<1>2. /\ h.next \in [Timers -> Places] /\ h.last \in [Timers -> Places]
      /\ h.group \in [Timers -> Keys \cup {Nil, Orphan}]
      /\ h.list \in [Keys -> [head : Places, tail : Places]] /\ h.tick \in Places
  BY <1>1, HeapFields
<1>3. Nil \notin Timers /\ Nil \notin Keys /\ Orphan \notin Keys
  BY TimerNames
<1>0. IsJoined(x, h, t, e, S, k)
  BY <1>1, JoinedIs
<1> HIDE DEF x
<1>4. /\ x \in Heaps /\ x.call = h.call /\ x.tick = h.tick
      /\ \A u \in Timers : /\ x.group[u] = IF u \in S THEN k ELSE h.group[u]
                           /\ x.last[u] = IF u = t THEN tail ELSE h.last[u]
                           /\ x.next[u] = IF u = tail THEN t ELSE h.next[u]
      /\ \A j \in Keys : j # k => x.list[j] = h.list[j]
      /\ x.list[k].head = IF tail = Nil THEN t ELSE h.list[k].head
      /\ x.list[k].tail = e
  BY <1>0 DEF IsJoined
<1>5. tail \in Places /\ tail \notin S
      /\ (tail # Nil => tail \in Timers /\ h.group[tail] = k /\ h.next[tail] = Nil /\ h.call[tail]
                        /\ h.list[k].head # Nil)
      /\ (tail = Nil => h.list[k].head = Nil)
  <2>1. tail \in Places
    BY <1>2
  <2>2. tail \notin S
    BY DEF Loose
  <2>3. (tail = Nil <=> h.list[k].head = Nil)
        /\ (tail # Nil => h.group[tail] = k /\ h.next[tail] = Nil)
    BY DEF Loose, EndsIn
  <2>4. tail # Nil => tail \in Timers /\ h.call[tail]
    BY <1>3, <2>1, <2>3 DEF Loose, DeadOut, Places
  <2> QED
    BY <2>1, <2>2, <2>3, <2>4
<1> HIDE DEF x, tail
<1>6. DeadOut(x)
  BY <1>1, <1>3, <1>4, <1>5 DEF Loose, DeadOut
<1>7. Linking(x)
  <2> SUFFICES ASSUME NEW u \in Timers
               PROVE  /\ x.next[u] # Nil => x.last[x.next[u]] = u /\ x.group[x.next[u]] = x.group[u]
                      /\ x.last[u] # Nil => x.next[x.last[u]] = u
    BY DEF Linking
  <2>0. /\ h.next[u] # Nil => h.next[u] \in Timers /\ h.last[h.next[u]] = u /\ h.group[h.next[u]] = h.group[u]
        /\ h.last[u] # Nil => h.last[u] \in Timers /\ h.next[h.last[u]] = u
    BY <1>2 DEF Loose, Linking, Places
  <2>1. ASSUME x.next[u] # Nil
        PROVE  x.last[x.next[u]] = u /\ x.group[x.next[u]] = x.group[u]
    <3>1. CASE u = tail
      BY <1>1, <1>3, <1>4, <1>5, <3>1
    <3>2. CASE u # tail
      <4>1. x.next[u] = h.next[u] /\ h.next[u] \in Timers
        BY <1>4, <2>0, <2>1, <3>2
      <4>2. h.next[u] # t
        BY <1>1, <1>3, <2>0, <2>1, <4>1
      <4>3. u \in S <=> h.next[u] \in S
        <5>1. u \in S => h.next[u] \in S
          BY <2>1, <4>1 DEF Loose
        <5>2. h.next[u] \in S => u \in S
          BY <2>0, <2>1, <4>1, <1>3 DEF Loose
        <5> QED
          BY <5>1, <5>2
      <4> QED
        BY <1>4, <2>0, <2>1, <4>1, <4>2, <4>3
    <3> QED
      BY <3>1, <3>2
  <2>2. ASSUME x.last[u] # Nil
        PROVE  x.next[x.last[u]] = u
    <3>1. CASE u = t
      BY <1>1, <1>3, <1>4, <1>5, <2>2, <3>1
    <3>2. CASE u # t
      <4>1. x.last[u] = h.last[u] /\ h.last[u] \in Timers /\ h.next[h.last[u]] = u
        BY <1>4, <2>0, <2>2, <3>2
      <4>2. h.last[u] # tail
        BY <1>3, <1>5, <4>1
      <4> QED
        BY <1>4, <4>1, <4>2
    <3> QED
      BY <3>1, <3>2
  <2> QED
    BY <2>1, <2>2
<1>8. Grounded(x)
  <2> SUFFICES ASSUME NEW P \in SUBSET Timers, P # {}
               PROVE  \E u \in P : x.last[u] \notin P
    BY DEF Grounded
  <2>1. CASE P \subseteq S
    <3>1. PICK u \in P : h.last[u] \notin P
      BY DEF Loose, Grounded
    <3>2. x.last[u] = tail \/ x.last[u] = h.last[u]
      BY <1>4
    <3> QED
      BY <1>5, <2>1, <3>1, <3>2
  <2>2. CASE ~(P \subseteq S)
    <3> DEFINE Q == P \ S
    <3>1. PICK u \in Q : h.last[u] \notin Q
      <4>1. Q \in SUBSET Timers /\ Q # {}
        BY <2>2
      <4> HIDE DEF Q
      <4> QED
        BY <4>1 DEF Loose, Grounded
    <3>2. h.last[u] \notin S
      <4> SUFFICES ASSUME h.last[u] \in S PROVE FALSE
        OBVIOUS
      <4>1. h.last[u] # Nil /\ h.last[u] \in Timers /\ h.next[h.last[u]] = u
        BY <1>1, <1>3 DEF Loose, Linking
      <4>2. u \in S \cup {Nil}
        BY <4>1 DEF Loose
      <4> QED
        BY <1>3, <3>1, <4>2
    <3>3. u # t /\ u \in Timers
      BY <1>1
    <3> QED
      BY <1>4, <3>1, <3>2, <3>3
  <2> QED
    BY <2>1, <2>2
<1>9. EndsIn(x)
  <2> SUFFICES ASSUME NEW j \in Keys
               PROVE  /\ x.list[j].head = Nil <=> x.list[j].tail = Nil
                      /\ x.list[j].head # Nil =>
                            /\ x.group[x.list[j].head] = j /\ x.last[x.list[j].head] = Nil
                            /\ x.group[x.list[j].tail] = j /\ x.next[x.list[j].tail] = Nil
    BY DEF EndsIn
  <2>0. /\ h.list[j].head \in Places /\ h.list[j].tail \in Places
        /\ h.list[j].head = Nil <=> h.list[j].tail = Nil
        /\ h.list[j].head # Nil => /\ h.group[h.list[j].head] = j /\ h.last[h.list[j].head] = Nil
                                   /\ h.group[h.list[j].tail] = j /\ h.next[h.list[j].tail] = Nil
    BY <1>2 DEF Loose, EndsIn
  <2>00. h.list[j].head \notin S /\ h.list[j].tail \notin S
    BY DEF Loose
  <2>1. CASE j = k
    <3>1. x.list[k].head # Nil /\ x.list[k].tail = e /\ e # Nil
      BY <1>1, <1>3, <1>4, <1>5
    <3>2. x.group[e] = k /\ x.next[e] = Nil
      BY <1>1, <1>4, <1>5
    <3>3. CASE tail = Nil
      <4>1. x.list[k].head = t /\ x.group[t] = k /\ x.last[t] = Nil
        BY <1>1, <1>4, <3>3
      <4> QED
        BY <2>1, <3>1, <3>2, <4>1
    <3>4. CASE tail # Nil
      <4>1. x.list[k].head = h.list[k].head /\ h.list[k].head \in Timers /\ h.list[k].head # t
        BY <1>1, <1>4, <1>5, <2>0, <2>00, <2>1, <3>4 DEF Places
      <4>2. x.group[x.list[k].head] = k /\ x.last[x.list[k].head] = Nil
        BY <1>4, <1>5, <2>0, <2>00, <2>1, <3>4, <4>1
      <4> QED
        BY <2>1, <3>1, <3>2, <4>2
    <3> QED
      BY <3>3, <3>4
  <2>2. CASE j # k
    <3>1. x.list[j] = h.list[j]
      BY <1>4, <2>2
    <3>2. CASE h.list[j].head = Nil
      BY <2>0, <3>1, <3>2
    <3>3. CASE h.list[j].head # Nil
      <4>1. h.list[j].head \in Timers /\ h.list[j].tail \in Timers
        BY <2>0, <3>3 DEF Places
      <4>2. h.list[j].head # t /\ h.list[j].tail # tail
        BY <1>1, <1>5, <2>0, <2>00, <2>2, <3>3, <4>1
      <4> QED
        BY <1>4, <2>0, <2>00, <3>1, <3>3, <4>1, <4>2
    <3> QED
      BY <3>2, <3>3
  <2> QED
    BY <2>1, <2>2
<1>10. EndsOnly(x)
  <2> SUFFICES ASSUME NEW u \in Timers, x.group[u] \in Keys
               PROVE  /\ x.last[u] = Nil => x.list[x.group[u]].head = u
                      /\ x.next[u] = Nil => x.list[x.group[u]].tail = u
    BY DEF EndsOnly
  <2>1. CASE u \in S
    <3>1. /\ h.last[u] = Nil => u = t
          /\ h.next[u] = Nil => u = e
      BY <2>1 DEF Loose
    <3>2. x.group[u] = k /\ x.next[u] = h.next[u]
      BY <1>4, <1>5, <2>1
    <3>3. x.last[u] = Nil => u = t /\ tail = Nil
      BY <1>4, <3>1
    <3> QED
      BY <1>4, <3>1, <3>2, <3>3
  <2>2. CASE u \notin S
    <3>1. /\ h.group[u] = x.group[u] /\ x.last[u] = h.last[u] /\ u # t
          /\ h.last[u] = Nil => h.list[h.group[u]].head = u
          /\ h.next[u] = Nil => h.list[h.group[u]].tail = u
      BY <1>1, <1>4, <2>2 DEF Loose
    <3>2. CASE h.group[u] = k
      <4>1. h.next[u] = Nil => u = tail
        BY <3>1, <3>2 DEF tail
      <4>2. x.next[u] # Nil
        BY <1>1, <1>3, <1>4, <4>1
      <4>3. x.last[u] = Nil => tail # Nil
        BY <1>3, <1>5, <3>1, <3>2
      <4> QED
        BY <1>4, <3>1, <3>2, <4>2, <4>3
    <3>3. CASE h.group[u] # k
      <4>1. u # tail
        BY <1>5, <3>3, <1>3
      <4> QED
        BY <1>4, <3>1, <3>3, <4>1
    <3> QED
      BY <3>2, <3>3
  <2> QED
    BY <2>1, <2>2
<1>11. TickHead(x)
  <2>1. h.tick # Nil => h.tick \in Timers /\ h.tick # t /\ h.tick \notin S
    BY <1>1, <1>2 DEF Places
  <2> QED
    BY <1>4, <2>1 DEF TickHead, Loose
<1> QED
  BY <1>4, <1>6, <1>7, <1>8, <1>9, <1>10, <1>11 DEF Sound, x

IsRemoved(x, h, t) ==
    /\ x \in Heaps
    /\ \A u \in Timers :
          /\ x.call[u] <=> u # t /\ h.call[u]
          /\ x.group[u] = IF u = t THEN Nil ELSE h.group[u]
          /\ x.last[u] = IF u = t THEN Nil ELSE IF u = h.next[t] THEN h.last[t] ELSE h.last[u]
          /\ x.next[u] = IF u = t THEN Nil ELSE IF u = h.last[t] THEN h.next[t] ELSE h.next[u]
    /\ \A k \in Keys :
          /\ x.list[k].head = IF k = h.group[t] /\ h.last[t] = Nil THEN h.next[t]
                              ELSE h.list[k].head
          /\ x.list[k].tail = IF k = h.group[t] /\ h.next[t] = Nil THEN h.last[t]
                              ELSE h.list[k].tail
    /\ x.tick = IF h.tick = t THEN h.next[t] ELSE h.tick

LEMMA RemovedIs ==
    ASSUME NEW h, Sound(h), NEW t \in Timers
    PROVE  IsRemoved(Removed(h, t), h, t)
<1> DEFINE p == h.last[t]
           n == h.next[t]
           k == h.group[t]
           after == IF n = Nil THEN h.last
                    ELSE [h.last EXCEPT ![n] = IF h.tick = t THEN Nil ELSE p]
           before == IF h.tick = t \/ p = Nil THEN h.next ELSE [h.next EXCEPT ![p] = n]
           list == IF h.tick = t \/ k \notin Keys THEN h.list
                   ELSE [h.list EXCEPT ![k] = [head |-> IF p = Nil THEN n ELSE @.head,
                                               tail |-> IF n = Nil THEN p ELSE @.tail]]
           y == [h EXCEPT !.last = after, !.next = before, !.list = list,
                          !.tick = IF @ = t THEN n ELSE @]
           x == Removed(h, t)
<1>0. h \in Heaps /\ TickHead(h)
  BY DEF Sound
<1>1. /\ h.next \in [Timers -> Places] /\ h.last \in [Timers -> Places]
      /\ h.group \in [Timers -> Keys \cup {Nil, Orphan}] /\ h.call \in [Timers -> BOOLEAN]
      /\ h.list \in [Keys -> [head : Places, tail : Places]] /\ h.tick \in Places
  BY <1>0, HeapFields
<1>2. Nil \notin Timers /\ Nil \notin Keys /\ Orphan \notin Keys
  BY TimerNames
<1>3. p \in Places /\ n \in Places /\ k \in Keys \cup {Nil, Orphan}
  BY <1>1
<1>4. h.tick = t => p = Nil /\ k = Nil
  BY <1>0, <1>2 DEF TickHead
<1>5. x = Blank(y, t)
  BY DEF Removed
<1> HIDE DEF p, n, k, x
<1>6. after \in [Timers -> Places]
      /\ \A u \in Timers : after[u] = IF u = n THEN p ELSE h.last[u]
  BY <1>1, <1>2, <1>3, <1>4 DEF Places
<1>7. before \in [Timers -> Places]
      /\ \A u \in Timers : before[u] = IF u = p THEN n ELSE h.next[u]
  BY <1>1, <1>2, <1>3, <1>4 DEF Places
<1>8. list \in [Keys -> [head : Places, tail : Places]]
      /\ \A j \in Keys : /\ list[j].head = IF j = k /\ p = Nil THEN n ELSE h.list[j].head
                         /\ list[j].tail = IF j = k /\ n = Nil THEN p ELSE h.list[j].tail
  BY <1>1, <1>2, <1>3, <1>4
<1> HIDE DEF after, before, list
<1>9. /\ y \in Heaps /\ y.last = after /\ y.next = before /\ y.list = list
      /\ y.tick = IF h.tick = t THEN n ELSE h.tick
      /\ y.group = h.group /\ y.call = h.call
  BY <1>0, <1>1, <1>3, <1>6, <1>7, <1>8 DEF Heaps
<1> HIDE DEF y
<1>10. /\ x.call = [y.call EXCEPT ![t] = FALSE] /\ x.last = [y.last EXCEPT ![t] = Nil]
       /\ x.next = [y.next EXCEPT ![t] = Nil] /\ x.group = [y.group EXCEPT ![t] = Nil]
       /\ x.list = y.list /\ x.tick = y.tick
  BY <1>5, <1>9 DEF Blank, Heaps
<1>11. x \in Heaps
  BY <1>5, <1>9 DEF Blank, Heaps, Places
<1>12. \A u \in Timers :
          /\ x.call[u] <=> u # t /\ h.call[u]
          /\ x.group[u] = IF u = t THEN Nil ELSE h.group[u]
          /\ x.last[u] = IF u = t THEN Nil ELSE IF u = n THEN p ELSE h.last[u]
          /\ x.next[u] = IF u = t THEN Nil ELSE IF u = p THEN n ELSE h.next[u]
  <2> TAKE u \in Timers
  <2>1. x.call[u] <=> u # t /\ h.call[u]
    BY <1>1, <1>9, <1>10
  <2>2. x.group[u] = IF u = t THEN Nil ELSE h.group[u]
    BY <1>1, <1>9, <1>10
  <2>3. x.last[u] = IF u = t THEN Nil ELSE IF u = n THEN p ELSE h.last[u]
    BY <1>6, <1>9, <1>10
  <2>4. x.next[u] = IF u = t THEN Nil ELSE IF u = p THEN n ELSE h.next[u]
    BY <1>7, <1>9, <1>10
  <2> QED
    BY <2>1, <2>2, <2>3, <2>4
<1>13. /\ \A j \in Keys : /\ x.list[j].head = IF j = k /\ p = Nil THEN n ELSE h.list[j].head
                          /\ x.list[j].tail = IF j = k /\ n = Nil THEN p ELSE h.list[j].tail
       /\ x.tick = IF h.tick = t THEN n ELSE h.tick
  BY <1>8, <1>9, <1>10
<1> QED
  BY <1>11, <1>12, <1>13 DEF IsRemoved, p, n, k, x

LEMMA RemovedSound ==
    ASSUME NEW h, Sound(h), NEW t \in Timers
    PROVE  Sound(Removed(h, t))
<1> DEFINE p == h.last[t]
           n == h.next[t]
           k == h.group[t]
           x == Removed(h, t)
<1>0. h \in Heaps /\ DeadOut(h) /\ Linking(h) /\ Grounded(h) /\ EndsIn(h) /\ EndsOnly(h)
      /\ TickHead(h)
  BY DEF Sound
<1>1. /\ h.next \in [Timers -> Places] /\ h.last \in [Timers -> Places]
      /\ h.group \in [Timers -> Keys \cup {Nil, Orphan}] /\ h.call \in [Timers -> BOOLEAN]
      /\ h.list \in [Keys -> [head : Places, tail : Places]] /\ h.tick \in Places
  BY <1>0, HeapFields
<1>2. Nil \notin Timers /\ Nil \notin Keys /\ Orphan \notin Keys
  BY TimerNames
<1>3. p \in Places /\ n \in Places /\ k \in Keys \cup {Nil, Orphan}
  BY <1>1
<1>4. IsRemoved(x, h, t)
  BY RemovedIs
<1> HIDE DEF x
<1>5. /\ p # Nil => p \in Timers /\ h.next[p] = t /\ h.group[p] = k /\ h.call[p]
      /\ n # Nil => n \in Timers /\ h.last[n] = t /\ h.group[n] = k /\ h.call[n]
  <2>1. p # Nil => p \in Timers /\ h.next[p] = t
    BY <1>0, <1>3 DEF Linking, Places
  <2>2. n # Nil => n \in Timers /\ h.last[n] = t /\ h.group[n] = k
    BY <1>0, <1>3 DEF Linking, Places
  <2>3. p # Nil => h.group[p] = k
    BY <1>0, <1>2, <2>1 DEF Linking
  <2> QED
    BY <1>0, <1>2, <2>1, <2>2, <2>3 DEF DeadOut
<1>6. p # t /\ n # t
  <2>1. \E u \in {t} : h.last[u] \notin {t}
    BY <1>0 DEF Grounded
  <2> QED
    BY <1>5, <2>1, <1>2
<1> HIDE DEF p, n, k
<1>7. /\ x \in Heaps
      /\ \A u \in Timers :
          /\ x.call[u] <=> u # t /\ h.call[u]
          /\ x.group[u] = IF u = t THEN Nil ELSE h.group[u]
          /\ x.last[u] = IF u = t THEN Nil ELSE IF u = n THEN p ELSE h.last[u]
          /\ x.next[u] = IF u = t THEN Nil ELSE IF u = p THEN n ELSE h.next[u]
      /\ \A j \in Keys : /\ x.list[j].head = IF j = k /\ p = Nil THEN n ELSE h.list[j].head
                         /\ x.list[j].tail = IF j = k /\ n = Nil THEN p ELSE h.list[j].tail
      /\ x.tick = IF h.tick = t THEN n ELSE h.tick
  BY <1>4 DEF IsRemoved, p, n, k
<1>8. DeadOut(x)
  <2> SUFFICES ASSUME NEW u \in Timers, ~x.call[u]
               PROVE  x.next[u] = Nil /\ x.last[u] = Nil /\ x.group[u] = Nil
    BY DEF DeadOut
  <2>1. CASE u = t
    BY <1>7, <2>1
  <2>2. CASE u # t
    <3>1. ~h.call[u]
      BY <1>7, <2>2
    <3>2. h.next[u] = Nil /\ h.last[u] = Nil /\ h.group[u] = Nil
      BY <1>0, <3>1 DEF DeadOut
    <3>3. u # n /\ u # p
      BY <1>2, <1>5, <3>1
    <3> QED
      BY <1>7, <2>2, <3>2, <3>3
  <2> QED
    BY <2>1, <2>2
<1>9. Linking(x)
  <2> SUFFICES ASSUME NEW u \in Timers
               PROVE  /\ x.next[u] # Nil => x.last[x.next[u]] = u /\ x.group[x.next[u]] = x.group[u]
                      /\ x.last[u] # Nil => x.next[x.last[u]] = u
    BY DEF Linking
  <2>0. /\ h.next[u] # Nil => h.next[u] \in Timers /\ h.last[h.next[u]] = u /\ h.group[h.next[u]] = h.group[u]
        /\ h.last[u] # Nil => h.last[u] \in Timers /\ h.next[h.last[u]] = u
    BY <1>0, <1>1 DEF Linking, Places
  <2>1. CASE u = t
    BY <1>7, <2>1
  <2>2. ASSUME u # t, x.next[u] # Nil
        PROVE  x.last[x.next[u]] = u /\ x.group[x.next[u]] = x.group[u]
    <3>1. CASE u = p
      BY <1>2, <1>5, <1>6, <1>7, <2>2, <3>1
    <3>2. CASE u # p
      <4>1. x.next[u] = h.next[u] /\ h.next[u] \in Timers
        BY <1>7, <2>0, <2>2, <3>2
      <4>2. h.next[u] # t /\ h.next[u] # n
        BY <1>5, <2>0, <2>2, <3>2, <4>1 DEF p
      <4> QED
        BY <1>7, <2>0, <2>2, <4>1, <4>2
    <3> QED
      BY <3>1, <3>2
  <2>3. ASSUME u # t, x.last[u] # Nil
        PROVE  x.next[x.last[u]] = u
    <3>1. CASE u = n
      BY <1>2, <1>5, <1>6, <1>7, <2>3, <3>1
    <3>2. CASE u # n
      <4>1. x.last[u] = h.last[u] /\ h.last[u] \in Timers
        BY <1>7, <2>0, <2>3, <3>2
      <4>2. h.last[u] # t /\ h.last[u] # p
        BY <1>5, <2>0, <2>3, <3>2, <4>1 DEF n
      <4> QED
        BY <1>7, <2>0, <2>3, <4>1, <4>2
    <3> QED
      BY <3>1, <3>2
  <2> QED
    BY <2>1, <2>2, <2>3
<1>10. Grounded(x)
  <2> SUFFICES ASSUME NEW P \in SUBSET Timers, P # {}
               PROVE  \E u \in P : x.last[u] \notin P
    BY DEF Grounded
  <2>1. CASE t \in P
    BY <1>2, <1>7, <2>1
  <2>2. CASE t \notin P
    <3>1. PICK u \in P : h.last[u] \notin P
      BY <1>0 DEF Grounded
    <3>2. CASE u # n
      BY <1>7, <2>2, <3>1, <3>2
    <3>3. CASE u = n /\ p \notin P
      BY <1>7, <2>2, <3>1, <3>3
    <3>4. CASE u = n /\ p \in P
      <4>1. PICK w \in P \cup {t} : h.last[w] \notin P \cup {t}
        BY <1>0 DEF Grounded
      <4>2. w # t
        BY <3>4, <4>1 DEF p
      <4>3. w # n
        BY <1>2, <1>5, <3>4, <4>1
      <4> QED
        BY <1>7, <4>1, <4>2, <4>3
    <3> QED
      BY <3>2, <3>3, <3>4
  <2> QED
    BY <2>1, <2>2
<1>11. EndsIn(x)
  <2> SUFFICES ASSUME NEW j \in Keys
               PROVE  /\ x.list[j].head = Nil <=> x.list[j].tail = Nil
                      /\ x.list[j].head # Nil =>
                            /\ x.group[x.list[j].head] = j /\ x.last[x.list[j].head] = Nil
                            /\ x.group[x.list[j].tail] = j /\ x.next[x.list[j].tail] = Nil
    BY DEF EndsIn
  <2> DEFINE a == h.list[j].head
             b == h.list[j].tail
  <2>1. /\ a \in Places /\ b \in Places /\ (a = Nil <=> b = Nil)
        /\ a # Nil => /\ a \in Timers /\ h.group[a] = j /\ h.last[a] = Nil
                      /\ b \in Timers /\ h.group[b] = j /\ h.next[b] = Nil
    BY <1>0, <1>1 DEF EndsIn, Places
  <2>2. j = k => /\ p = Nil => a = t
                 /\ n = Nil => b = t
    BY <1>0 DEF EndsOnly, p, n, k
  <2>3. /\ x.list[j].head = IF j = k /\ p = Nil THEN n ELSE a
        /\ x.list[j].tail = IF j = k /\ n = Nil THEN p ELSE b
    BY <1>7
  <2>4. h.group[t] = k /\ h.last[t] = p /\ h.next[t] = n
    BY DEF k, p, n
  <2>5. a # Nil => a # n /\ b # p
    BY <1>2, <1>5, <2>1
  <2> HIDE DEF a, b
  <2>6. CASE j # k
    <3>1. a # t /\ b # t
      BY <1>2, <2>1, <2>4, <2>6
    <3>2. x.list[j].head = a /\ x.list[j].tail = b
      BY <2>3, <2>6
    <3>3. a # Nil => /\ x.group[a] = j /\ x.last[a] = Nil
                     /\ x.group[b] = j /\ x.next[b] = Nil
      BY <1>7, <2>1, <2>5, <3>1
    <3> QED
      BY <2>1, <3>2, <3>3
  <2>7. CASE j = k
    <3>1. CASE p = Nil /\ n = Nil
      BY <2>3, <2>7, <3>1
    <3>2. CASE p = Nil /\ n # Nil
      <4>1. a = t /\ x.list[j].head = n /\ x.list[j].tail = b /\ b # t /\ b # Nil /\ b \in Timers
        BY <1>2, <2>1, <2>2, <2>3, <2>4, <2>7, <3>2
      <4>2. x.group[n] = j /\ x.last[n] = Nil
        BY <1>2, <1>5, <1>6, <1>7, <2>7, <3>2
      <4>3. x.group[b] = j /\ x.next[b] = Nil
        BY <1>7, <2>1, <2>5, <4>1
      <4> QED
        BY <3>2, <4>1, <4>2, <4>3
    <3>3. CASE p # Nil /\ n = Nil
      <4>1. b = t /\ x.list[j].head = a /\ x.list[j].tail = p /\ a # t /\ a # Nil /\ a \in Timers
        BY <1>2, <2>1, <2>2, <2>3, <2>4, <2>7, <3>3
      <4>2. x.group[p] = j /\ x.next[p] = Nil
        BY <1>2, <1>5, <1>6, <1>7, <2>7, <3>3
      <4>3. x.group[a] = j /\ x.last[a] = Nil
        BY <1>7, <2>1, <2>5, <4>1
      <4> QED
        BY <3>3, <4>1, <4>2, <4>3
    <3>4. CASE p # Nil /\ n # Nil
      <4>1. x.list[j].head = a /\ x.list[j].tail = b
        BY <2>3, <3>4
      <4>2. a # Nil => a # t /\ b # t
        BY <2>1, <2>4, <3>4
      <4> QED
        BY <1>7, <2>1, <2>5, <4>1, <4>2
    <3> QED
      BY <3>1, <3>2, <3>3, <3>4
  <2> QED
    BY <2>6, <2>7
<1>12. EndsOnly(x)
  <2> SUFFICES ASSUME NEW u \in Timers, x.group[u] \in Keys
               PROVE  /\ x.last[u] = Nil => x.list[x.group[u]].head = u
                      /\ x.next[u] = Nil => x.list[x.group[u]].tail = u
    BY DEF EndsOnly
  <2>1. u # t /\ x.group[u] = h.group[u]
    BY <1>2, <1>7
  <2>2. /\ h.last[u] = Nil => h.list[h.group[u]].head = u
        /\ h.next[u] = Nil => h.list[h.group[u]].tail = u
    BY <1>0, <2>1 DEF EndsOnly
  <2>3. h.group[u] = k => /\ p = Nil => h.list[h.group[u]].head = t
                          /\ n = Nil => h.list[h.group[u]].tail = t
    BY <1>0, <2>1 DEF EndsOnly, k, p, n
  <2>4. ASSUME x.last[u] = Nil PROVE x.list[x.group[u]].head = u
    <3>1. CASE u = n
      BY <1>2, <1>5, <1>7, <2>1, <2>4, <3>1
    <3>2. CASE u # n
      BY <1>7, <2>1, <2>2, <2>3, <2>4, <3>2
    <3> QED
      BY <3>1, <3>2
  <2>5. ASSUME x.next[u] = Nil PROVE x.list[x.group[u]].tail = u
    <3>1. CASE u = p
      BY <1>2, <1>5, <1>7, <2>1, <2>5, <3>1
    <3>2. CASE u # p
      BY <1>7, <2>1, <2>2, <2>3, <2>5, <3>2
    <3> QED
      BY <3>1, <3>2
  <2> QED
    BY <2>4, <2>5
<1>13. TickHead(x)
  <2>1. CASE h.tick = t
    <3>1. p = Nil /\ k = Nil
      BY <1>0, <1>2, <2>1 DEF TickHead, p, k
    <3>2. x.tick = n
      BY <1>7, <2>1
    <3>3. n # Nil => x.call[n] /\ x.group[n] = Nil /\ x.last[n] = Nil
      BY <1>5, <1>6, <1>7, <3>1
    <3> QED
      BY <3>2, <3>3 DEF TickHead
  <2>2. CASE h.tick # t
    <3>1. h.tick # Nil => h.tick \in Timers /\ h.tick # n
      BY <1>0, <1>1, <1>2, <1>5 DEF TickHead, Places
    <3> QED
      BY <1>0, <1>7, <2>2, <3>1 DEF TickHead
  <2> QED
    BY <2>1, <2>2
<1> QED
  BY <1>7, <1>8, <1>9, <1>10, <1>11, <1>12, <1>13 DEF Sound, x

\* What each removal keeps, the removal of a set keeps.
LEMMA RemovedAllKeeps ==
    ASSUME NEW P, NEW h \in P, NEW S \in SUBSET Timers,
           \A x \in P, t \in S : Removed(x, t) \in P
    PROVE  RemovedAll(h, S) \in P
<1> DEFINE iter == CHOOSE f : f = [s \in SUBSET S |->
                     IF s = {} THEN h ELSE Removed(f[s \ {Some(s)}], Some(s))]
           G == [t \in S |-> [x \in P |-> Removed(x, t)]]
<1>1. RemovedAll(h, S) = iter[S]
  BY DEF RemovedAll, FoldSet, MapThenFoldSet, Some
<1>2. IsFiniteSet(S)
  BY TimerNames, FS_Subset
<1>3. G \in [S -> [P -> P]] /\ \A t \in S, x \in P : G[t][x] = Removed(x, t)
  OBVIOUS
<1> HIDE DEF G
<1>4. PICK F \in [SUBSET S -> P] : Folds(F, h, G, S)
  BY <1>2, <1>3, FoldsExist
<1>5. ASSUME NEW s \in SUBSET S, s # {}
      PROVE  F[s] = Removed(F[s \ {Some(s)}], Some(s))
  <2>1. Some(s) \in S /\ F[s \ {Some(s)}] \in P
    BY <1>5, SomeIsIn
  <2> QED
    BY <1>3, <1>4, <1>5, <2>1 DEF Folds
<1>6. F[{}] = h
  BY <1>4 DEF Folds
<1>7. F = [s \in SUBSET S |-> IF s = {} THEN h ELSE Removed(F[s \ {Some(s)}], Some(s))]
  BY <1>5, <1>6
<1>8. iter = [s \in SUBSET S |-> IF s = {} THEN h ELSE Removed(iter[s \ {Some(s)}], Some(s))]
  BY <1>7
<1> HIDE DEF iter
<1> DEFINE Bad == {s \in SUBSET S : iter[s] \notin P}
<1>9. Bad = {}
  <2> SUFFICES ASSUME Bad # {} PROVE FALSE
    OBVIOUS
  <2>1. PICK m \in Bad : \A x \in m : m \ {x} \notin Bad
    <3>1. Bad \in SUBSET SUBSET S
      OBVIOUS
    <3> HIDE DEF Bad
    <3> QED
      BY <1>2, <3>1, LeastSubset
  <2>2. m # {}
    BY <1>8, <2>1
  <2>3. Some(m) \in m /\ Some(m) \in S /\ m \ {Some(m)} \in SUBSET S
    BY <2>1, <2>2, SomeIsIn
  <2>4. iter[m \ {Some(m)}] \in P
    BY <2>1, <2>3
  <2> QED
    BY <1>8, <2>1, <2>2, <2>3, <2>4
<1> QED
  BY <1>1, <1>9

-----------------------------------------------------------------------------
\* SetTimer: a new timer goes to the end of list k.
Called(h, t) == [h EXCEPT !.call[t] = TRUE]

LEMMA CalledIs ==
    ASSUME NEW h \in Heaps, NEW t \in Timers
    PROVE  /\ Called(h, t) \in Heaps
           /\ Called(h, t).next = h.next /\ Called(h, t).last = h.last
           /\ Called(h, t).group = h.group /\ Called(h, t).list = h.list
           /\ Called(h, t).tick = h.tick
           /\ \A u \in Timers : Called(h, t).call[u] <=> u = t \/ h.call[u]
  BY HeapFields DEF Called, Heaps

LEMMA FreshIsLoose ==
    ASSUME NEW h, Sound(h), NEW t \in Timers, ~h.call[t]
    PROVE  Loose(Called(h, t), t, t, {t})
<1> DEFINE x == Called(h, t)
<1>0. h \in Heaps /\ DeadOut(h) /\ Linking(h) /\ Grounded(h) /\ EndsIn(h) /\ EndsOnly(h)
      /\ TickHead(h)
  BY DEF Sound
<1>1. /\ x \in Heaps /\ x.next = h.next /\ x.last = h.last
      /\ x.group = h.group /\ x.list = h.list /\ x.tick = h.tick
      /\ \A u \in Timers : x.call[u] <=> u = t \/ h.call[u]
  BY <1>0, CalledIs
<1> HIDE DEF x
<1>2. h.next[t] = Nil /\ h.last[t] = Nil /\ h.group[t] = Nil
  BY <1>0 DEF DeadOut
<1>3. Nil \notin Timers /\ Nil \notin Keys /\ Orphan \notin Keys
  BY TimerNames
<1>4. DeadOut(x) /\ Linking(x) /\ Grounded(x) /\ EndsIn(x)
  BY <1>0, <1>1, <1>2 DEF DeadOut, Linking, Grounded, EndsIn
<1>5. TickHead(x)
  BY <1>0, <1>1, HeapFields DEF TickHead, Places
<1>6. h.tick # t
  BY <1>0, <1>3 DEF TickHead
<1>7. \A k \in Keys : h.list[k].head # t /\ h.list[k].tail # t
  BY <1>0, <1>2, <1>3 DEF EndsIn
<1>8. \A u \in Timers : u \notin {t} /\ x.group[u] \in Keys =>
                    /\ x.last[u] = Nil => x.list[x.group[u]].head = u
                    /\ x.next[u] = Nil => x.list[x.group[u]].tail = u
  BY <1>0, <1>1 DEF EndsOnly
<1> QED
  BY <1>1, <1>2, <1>4, <1>5, <1>6, <1>7, <1>8 DEF Loose, x

LEMMA LinkedFresh ==
    ASSUME NEW h, Sound(h), NEW t \in Timers, ~h.call[t], NEW k \in Keys
    PROVE  Linked(Called(h, t), t, k) = Joined(Called(h, t), t, t, {t}, k)
<1> DEFINE x == Called(h, t)
           W == Walk(x, t)
<1>0. h \in Heaps /\ DeadOut(h)
  BY DEF Sound
<1>1. x \in Heaps /\ x.next[t] = Nil
  BY <1>0, CalledIs DEF DeadOut
<1>2. Nil \notin Timers /\ t \in Places
  BY TimerNames DEF Places
<1> HIDE DEF x
<1>3. Chain(x, t) \subseteq {t}
  <2> DEFINE P == {t, Nil}
  <2>1. P \in SUBSET Places /\ t \in P /\ Nil \in P /\ \A u \in P : u # Nil => x.next[u] \in P
    BY <1>1 DEF Places
  <2> HIDE DEF P
  <2>2. Chain(x, t) \subseteq P \ {Nil}
    BY <1>1, <1>2, <2>1, ChainStays
  <2> QED
    BY <2>2 DEF P
<1>4. t \in Chain(x, t)
  <2>1. W[0] = t /\ 0 \in 0..Cardinality(Timers)
    BY <1>1, <1>2, WalkSteps
  <2> QED
    BY <1>2, <2>1 DEF Chain
<1>5. Chain(x, t) = {t}
  BY <1>3, <1>4
<1>6. EndOf(x, t) = t
  BY <1>1, <1>5 DEF EndOf
<1> QED
  BY <1>5, <1>6 DEF Linked, Joined, x

-----------------------------------------------------------------------------
\* ListEnd: a whole list goes to the end of list k.
Freed(h, j) == [h EXCEPT !.list[j] = Empty]
Members(h, j) == {t \in Timers : h.group[t] = j}

LEMMA FreedIs ==
    ASSUME NEW h \in Heaps, NEW j \in Keys
    PROVE  /\ Freed(h, j) \in Heaps
           /\ Freed(h, j).next = h.next /\ Freed(h, j).last = h.last
           /\ Freed(h, j).group = h.group /\ Freed(h, j).call = h.call
           /\ Freed(h, j).tick = h.tick
           /\ \A k \in Keys : Freed(h, j).list[k] = IF k = j THEN Empty ELSE h.list[k]
<1>1. Empty \in [head : Places, tail : Places]
  BY DEF Empty, Places
<1> QED
  BY <1>1, HeapFields DEF Freed, Heaps

LEMMA FreedIsLoose ==
    ASSUME NEW h, Sound(h), NEW j \in Keys, h.list[j].head # Nil
    PROVE  Loose(Freed(h, j), h.list[j].head, h.list[j].tail, Members(h, j))
<1> DEFINE x == Freed(h, j)
           a == h.list[j].head
           b == h.list[j].tail
           S == Members(h, j)
<1>0. h \in Heaps /\ DeadOut(h) /\ Linking(h) /\ Grounded(h) /\ EndsIn(h) /\ EndsOnly(h)
      /\ TickHead(h)
  BY DEF Sound
<1>1. /\ x \in Heaps /\ x.next = h.next /\ x.last = h.last
      /\ x.group = h.group /\ x.call = h.call /\ x.tick = h.tick
      /\ \A k \in Keys : x.list[k] = IF k = j THEN Empty ELSE h.list[k]
  BY <1>0, FreedIs
<1>2. /\ h.next \in [Timers -> Places] /\ h.last \in [Timers -> Places]
      /\ h.list \in [Keys -> [head : Places, tail : Places]] /\ h.tick \in Places
  BY <1>0, HeapFields
<1>3. Nil \notin Timers /\ Nil \notin Keys /\ Orphan \notin Keys
  BY TimerNames
<1>4. /\ a \in S /\ b \in S /\ h.last[a] = Nil /\ h.next[b] = Nil
  BY <1>0, <1>2 DEF EndsIn, Members, Places
<1>5. \A u \in S : u \in Timers /\ h.group[u] = j
  BY DEF Members
<1> HIDE DEF x
<1>6. DeadOut(x) /\ Linking(x) /\ Grounded(x) /\ TickHead(x)
  BY <1>0, <1>1 DEF DeadOut, Linking, Grounded, TickHead
<1>7. EndsIn(x)
  <2> SUFFICES ASSUME NEW k \in Keys
               PROVE  /\ x.list[k].head = Nil <=> x.list[k].tail = Nil
                      /\ x.list[k].head # Nil =>
                            /\ x.group[x.list[k].head] = k /\ x.last[x.list[k].head] = Nil
                            /\ x.group[x.list[k].tail] = k /\ x.next[x.list[k].tail] = Nil
    BY DEF EndsIn
  <2>1. CASE k = j
    BY <1>1, <2>1 DEF Empty
  <2>2. CASE k # j
    BY <1>0, <1>1, <2>2 DEF EndsIn
  <2> QED
    BY <2>1, <2>2
<1>8. h.tick \notin S
  BY <1>0, <1>3, <1>5 DEF TickHead
<1>9. ASSUME NEW u \in S
      PROVE  /\ h.call[u]
             /\ h.next[u] \in S \cup {Nil} /\ h.last[u] \in S \cup {Nil}
             /\ h.last[u] = Nil => u = a
             /\ h.next[u] = Nil => u = b
  <2>1. u \in Timers /\ h.group[u] = j
    BY <1>5
  <2>2. h.call[u]
    BY <1>0, <1>3, <2>1 DEF DeadOut
  <2>3. h.next[u] # Nil => h.next[u] \in Timers /\ h.group[h.next[u]] = j
    BY <1>0, <1>2, <2>1 DEF Linking, Places
  <2>4. h.last[u] # Nil => h.last[u] \in Timers /\ h.next[h.last[u]] = u
    BY <1>0, <1>2, <2>1 DEF Linking, Places
  <2>5. h.last[u] # Nil => h.group[h.last[u]] = j
    BY <1>0, <1>3, <2>1, <2>4 DEF Linking
  <2>6. /\ h.last[u] = Nil => u = a
        /\ h.next[u] = Nil => u = b
    BY <1>0, <2>1 DEF EndsOnly
  <2> QED
    BY <2>2, <2>3, <2>4, <2>5, <2>6 DEF Members
<1>10. ASSUME NEW u \in S, NEW k \in Keys
       PROVE  x.list[k].head # u /\ x.list[k].tail # u
  <2>1. u \in Timers /\ h.group[u] = j /\ u # Nil
    BY <1>3, <1>5
  <2>2. CASE k = j
    BY <1>1, <2>1, <2>2 DEF Empty
  <2>3. CASE k # j
    BY <1>0, <1>1, <2>1, <2>3 DEF EndsIn
  <2> QED
    BY <2>2, <2>3
<1>11. ASSUME NEW u \in Timers, u \notin S, x.group[u] \in Keys
       PROVE  /\ x.last[u] = Nil => x.list[x.group[u]].head = u
              /\ x.next[u] = Nil => x.list[x.group[u]].tail = u
  <2>1. h.group[u] # j
    BY <1>11 DEF Members
  <2> QED
    BY <1>0, <1>1, <1>11, <2>1 DEF EndsOnly
<1>12. S \in SUBSET Timers
  BY DEF Members
<1> HIDE DEF S, a, b
<1> QED
  BY <1>1, <1>4, <1>6, <1>7, <1>8, <1>9, <1>10, <1>11, <1>12 DEF Loose, x, S, a, b

LEMMA LinkedList ==
    ASSUME NEW h, Sound(h), NEW j \in Keys, h.list[j].head # Nil, NEW k \in Keys
    PROVE  Linked(Freed(h, j), h.list[j].head, k)
             = Joined(Freed(h, j), h.list[j].head, h.list[j].tail, Members(h, j), k)
<1> DEFINE x == Freed(h, j)
           a == h.list[j].head
           b == h.list[j].tail
<1>0. h \in Heaps /\ x.next = h.next
  BY FreedIs DEF Sound
<1> HIDE DEF x
<1>1. Chain(x, a) = Members(h, j)
  <2>1. Chain(x, a) = Chain(h, a)
    BY <1>0 DEF Chain, Walk
  <2> QED
    BY <2>1, ChainIsGroup DEF Members
<1>2. b \in Members(h, j) /\ h.next[b] = Nil
  BY HeapFields DEF Sound, EndsIn, Members, Places
<1>3. \A u \in Members(h, j) : h.next[u] = Nil => u = b
  BY DEF Sound, EndsOnly, Members
<1> HIDE DEF a, b
<1>4. EndOf(x, a) = b
  <2>1. EndOf(x, a) = CHOOSE u \in Members(h, j) : h.next[u] = Nil
    BY <1>0, <1>1 DEF EndOf
  <2> QED
    BY <1>2, <1>3, <2>1
<1> QED
  BY <1>1, <1>4 DEF Linked, Joined, x, a, b

-----------------------------------------------------------------------------
\* SetTick: a new timer goes to the head of the list of timers without period.
Ticked(h, t) == [h EXCEPT !.call[t] = TRUE, !.next[t] = h.tick, !.tick = t,
                    !.last = IF h.tick = Nil THEN @ ELSE [@ EXCEPT ![h.tick] = t]]

IsTicked(x, h, t) ==
    /\ x \in Heaps /\ x.group = h.group /\ x.list = h.list /\ x.tick = t
    /\ \A u \in Timers : /\ x.call[u] <=> u = t \/ h.call[u]
                         /\ x.next[u] = IF u = t THEN h.tick ELSE h.next[u]
                         /\ x.last[u] = IF u = h.tick THEN t ELSE h.last[u]

LEMMA TickedIs ==
    ASSUME NEW h \in Heaps, NEW t \in Timers
    PROVE  IsTicked(Ticked(h, t), h, t)
<1> DEFINE x == Ticked(h, t)
<1>1. /\ h.next \in [Timers -> Places] /\ h.last \in [Timers -> Places]
      /\ h.call \in [Timers -> BOOLEAN] /\ h.tick \in Places
  BY HeapFields
<1>2. Nil \notin Timers
  BY TimerNames
<1>3. x \in Heaps
  BY <1>1 DEF Ticked, Heaps, Places
<1>4. x.group = h.group /\ x.list = h.list /\ x.tick = t
  BY DEF Ticked, Heaps
<1>5. x.call = [h.call EXCEPT ![t] = TRUE] /\ x.next = [h.next EXCEPT ![t] = h.tick]
  BY DEF Ticked, Heaps
<1>6. x.last = IF h.tick = Nil THEN h.last ELSE [h.last EXCEPT ![h.tick] = t]
  BY DEF Ticked, Heaps
<1> HIDE DEF x
<1>7. \A u \in Timers : x.call[u] <=> u = t \/ h.call[u]
  BY <1>1, <1>5
<1>8. \A u \in Timers : x.next[u] = IF u = t THEN h.tick ELSE h.next[u]
  BY <1>1, <1>5
<1>9. \A u \in Timers : x.last[u] = IF u = h.tick THEN t ELSE h.last[u]
  BY <1>1, <1>2, <1>6 DEF Places
<1> QED
  BY <1>3, <1>4, <1>7, <1>8, <1>9 DEF IsTicked, x

LEMMA TickedSound ==
    ASSUME NEW h, Sound(h), NEW t \in Timers, ~h.call[t]
    PROVE  Sound(Ticked(h, t))
<1> DEFINE x == Ticked(h, t)
           a == h.tick
<1>0. h \in Heaps /\ DeadOut(h) /\ Linking(h) /\ Grounded(h) /\ EndsIn(h) /\ EndsOnly(h)
      /\ TickHead(h)
  BY DEF Sound
<1>1. IsTicked(x, h, t)
  BY <1>0, TickedIs
<1> HIDE DEF x
<1>2. /\ h.next \in [Timers -> Places] /\ h.last \in [Timers -> Places]
      /\ h.list \in [Keys -> [head : Places, tail : Places]]
      /\ a \in Places /\ Nil \notin Timers /\ Nil \notin Keys
  BY <1>0, HeapFields, TimerNames
<1>3. h.next[t] = Nil /\ h.last[t] = Nil /\ h.group[t] = Nil
  BY <1>0 DEF DeadOut
<1>4. a # Nil => a \in Timers /\ a # t /\ h.call[a] /\ h.group[a] = Nil /\ h.last[a] = Nil
  BY <1>0, <1>2 DEF TickHead, Places
<1> HIDE DEF a
<1>5. /\ x \in Heaps /\ x.group = h.group /\ x.list = h.list /\ x.tick = t
      /\ \A u \in Timers : /\ x.call[u] <=> u = t \/ h.call[u]
                           /\ x.next[u] = IF u = t THEN a ELSE h.next[u]
                           /\ x.last[u] = IF u = a THEN t ELSE h.last[u]
  BY <1>1 DEF IsTicked, a
<1>6. DeadOut(x)
  <2> SUFFICES ASSUME NEW u \in Timers, ~x.call[u]
               PROVE  x.next[u] = Nil /\ x.last[u] = Nil /\ x.group[u] = Nil
    BY DEF DeadOut
  <2>1. u # t /\ ~h.call[u]
    BY <1>5
  <2>2. u # a /\ h.next[u] = Nil /\ h.last[u] = Nil /\ h.group[u] = Nil
    BY <1>0, <1>2, <1>4, <2>1 DEF DeadOut
  <2> QED
    BY <1>5, <2>1, <2>2
<1>7. Linking(x)
  <2> SUFFICES ASSUME NEW u \in Timers
               PROVE  /\ x.next[u] # Nil => x.last[x.next[u]] = u /\ x.group[x.next[u]] = x.group[u]
                      /\ x.last[u] # Nil => x.next[x.last[u]] = u
    BY DEF Linking
  <2>0. /\ h.next[u] # Nil => h.next[u] \in Timers /\ h.last[h.next[u]] = u /\ h.group[h.next[u]] = h.group[u]
        /\ h.last[u] # Nil => h.last[u] \in Timers /\ h.next[h.last[u]] = u
    BY <1>0, <1>2 DEF Linking, Places
  <2>1. CASE u = t
    <3>1. x.next[u] # Nil => x.last[x.next[u]] = u /\ x.group[x.next[u]] = x.group[u]
      BY <1>3, <1>4, <1>5, <2>1
    <3>2. x.last[u] = Nil
      BY <1>2, <1>3, <1>4, <1>5, <2>1
    <3> QED
      BY <3>1, <3>2
  <2>2. CASE u # t
    <3>1. ASSUME x.next[u] # Nil
          PROVE  x.last[x.next[u]] = u /\ x.group[x.next[u]] = x.group[u]
      <4>1. x.next[u] = h.next[u] /\ h.next[u] \in Timers
        BY <1>5, <2>0, <2>2, <3>1
      <4>2. h.next[u] # a
        BY <1>2, <1>4, <2>0, <3>1, <4>1
      <4> QED
        BY <1>5, <2>0, <3>1, <4>1, <4>2
    <3>2. ASSUME x.last[u] # Nil
          PROVE  x.next[x.last[u]] = u
      <4>1. CASE u = a
        BY <1>5, <4>1
      <4>2. CASE u # a
        <5>1. x.last[u] = h.last[u] /\ h.last[u] \in Timers /\ h.last[u] # t
          BY <1>2, <1>3, <1>5, <2>0, <3>2, <4>2
        <5> QED
          BY <1>5, <2>0, <3>2, <5>1
      <4> QED
        BY <4>1, <4>2
    <3> QED
      BY <3>1, <3>2
  <2> QED
    BY <2>1, <2>2
<1>8. Grounded(x)
  <2> SUFFICES ASSUME NEW P \in SUBSET Timers, P # {}
               PROVE  \E u \in P : x.last[u] \notin P
    BY DEF Grounded
  <2>1. CASE t \in P
    <3>1. x.last[t] = Nil
      BY <1>2, <1>3, <1>4, <1>5
    <3> QED
      BY <1>2, <2>1, <3>1
  <2>2. CASE t \notin P
    <3>1. PICK u \in P : h.last[u] \notin P
      BY <1>0 DEF Grounded
    <3> QED
      BY <1>5, <2>2, <3>1
  <2> QED
    BY <2>1, <2>2
<1>9. EndsIn(x)
  <2> SUFFICES ASSUME NEW k \in Keys
               PROVE  /\ x.list[k].head = Nil <=> x.list[k].tail = Nil
                      /\ x.list[k].head # Nil =>
                            /\ x.group[x.list[k].head] = k /\ x.last[x.list[k].head] = Nil
                            /\ x.group[x.list[k].tail] = k /\ x.next[x.list[k].tail] = Nil
    BY DEF EndsIn
  <2>1. /\ h.list[k].head \in Places /\ h.list[k].tail \in Places
        /\ h.list[k].head = Nil <=> h.list[k].tail = Nil
        /\ h.list[k].head # Nil => /\ h.group[h.list[k].head] = k /\ h.last[h.list[k].head] = Nil
                                   /\ h.group[h.list[k].tail] = k /\ h.next[h.list[k].tail] = Nil
    BY <1>0, <1>2 DEF EndsIn
  <2>2. ASSUME h.list[k].head # Nil
        PROVE  /\ h.list[k].head \in Timers /\ h.list[k].head # a
               /\ h.list[k].tail \in Timers /\ h.list[k].tail # t
    BY <1>2, <1>3, <1>4, <2>1, <2>2 DEF Places
  <2> QED
    BY <1>5, <2>1, <2>2
<1>10. EndsOnly(x)
  <2> SUFFICES ASSUME NEW u \in Timers, x.group[u] \in Keys
               PROVE  /\ x.last[u] = Nil => x.list[x.group[u]].head = u
                      /\ x.next[u] = Nil => x.list[x.group[u]].tail = u
    BY DEF EndsOnly
  <2>1. h.group[u] \in Keys /\ u # t /\ u # a
    BY <1>2, <1>3, <1>4, <1>5
  <2> QED
    BY <1>0, <1>5, <2>1 DEF EndsOnly
<1>11. TickHead(x)
  <2>1. x.last[t] = Nil
    BY <1>2, <1>3, <1>4, <1>5
  <2> QED
    BY <1>3, <1>5, <2>1 DEF TickHead
<1> QED
  BY <1>5, <1>6, <1>7, <1>8, <1>9, <1>10, <1>11 DEF Sound, x

-----------------------------------------------------------------------------
(* Slots. *)

LEMMA KeyParts ==
    /\ \A d \in Diffs : /\ Taken(d) \in Keys /\ Taken(d)[1] = 0 /\ Taken(d)[3] = d
                        /\ d \in Nat /\ d # 0 /\ d <= M * N - 1
    /\ \A k \in Keys : /\ k[3] \in Diffs /\ k[1] \in 0..N
                       /\ k[1] = 0 => k = Taken(k[3])
                       /\ k[1] # 0 => k[1] \in 1..N /\ k[2] \in 0..M /\ k = <<k[1], k[2], k[3]>>
    /\ \A a \in 1..N, b \in 0..M, d \in Diffs :
          <<a, b, d>> \in Keys /\ <<a, b, d>>[1] = a /\ <<a, b, d>>[2] = b /\ <<a, b, d>>[3] = d
<1>1. N \in Nat \ {0} /\ M \in Nat \ {0} /\ Diffs \subseteq 1..(M * N - 1) /\ M * N \in Nat
  BY TickerAssumption
<1>2. \A d \in Diffs : /\ Taken(d) \in Keys /\ Taken(d)[1] = 0 /\ Taken(d)[3] = d
                       /\ d \in Nat /\ d # 0 /\ d <= M * N - 1
  BY <1>1 DEF Keys, Taken
<1>3. ASSUME NEW k \in Keys
      PROVE  /\ k[3] \in Diffs /\ k[1] \in 0..N
             /\ k[1] = 0 => k = Taken(k[3])
             /\ k[1] # 0 => k[1] \in 1..N /\ k[2] \in 0..M /\ k = <<k[1], k[2], k[3]>>
  <2>1. CASE k \in (1..N) \X (0..M) \X Diffs
    BY <1>1, <2>1
  <2>2. CASE \E d \in Diffs : k = Taken(d)
    BY <1>1, <2>2 DEF Taken
  <2> QED
    BY <2>1, <2>2 DEF Keys
<1>4. \A a \in 1..N, b \in 0..M, d \in Diffs :
          <<a, b, d>> \in Keys /\ <<a, b, d>>[1] = a /\ <<a, b, d>>[2] = b /\ <<a, b, d>>[3] = d
  BY DEF Keys
<1> QED
  BY <1>2, <1>3, <1>4

\* The lists of the slot c in revolution n.
Here(c, n) == {k \in Keys : c # 0 /\ k[1] = c /\ k[2] = n}

LEMMA HereIs ==
    ASSUME NEW c \in 0..N, NEW n \in 0..M, NEW k \in Here(c, n)
    PROVE  /\ c # 0 /\ k \in Keys /\ k[1] # 0 /\ k[3] \in Diffs /\ k = <<c, n, k[3]>>
           /\ Taken(k[3]) \in Keys /\ Taken(k[3])[1] = 0 /\ Taken(k[3])[3] = k[3]
  BY KeyParts DEF Here

\* CallSlot
Slotted(h, c, n) == [h EXCEPT
    !.list = [k \in Keys |-> IF k[1] = 0 /\ c # 0 THEN @[<<c, n, k[3]>>]
                             ELSE IF k \in Here(c, n) THEN Empty ELSE @[k]],
    !.group = [t \in Timers |-> IF @[t] \in Here(c, n) THEN Taken(@[t][3]) ELSE @[t]]]

AllFree(h) == \A d \in Diffs : h.list[Taken(d)].head = Nil

LEMMA SlottedIs ==
    ASSUME NEW h \in Heaps, NEW c \in 0..N, NEW n \in 0..M
    PROVE  LET x == Slotted(h, c, n)
           IN  /\ x \in Heaps /\ x.next = h.next /\ x.last = h.last /\ x.call = h.call
               /\ x.tick = h.tick
               /\ \A t \in Timers : x.group[t] = IF h.group[t] \in Here(c, n)
                                                 THEN Taken(h.group[t][3]) ELSE h.group[t]
               /\ \A k \in Keys : x.list[k] = IF k[1] = 0 /\ c # 0 THEN h.list[<<c, n, k[3]>>]
                                              ELSE IF k \in Here(c, n) THEN Empty ELSE h.list[k]
<1> DEFINE x == Slotted(h, c, n)
           L == [k \in Keys |-> IF k[1] = 0 /\ c # 0 THEN h.list[<<c, n, k[3]>>]
                                ELSE IF k \in Here(c, n) THEN Empty ELSE h.list[k]]
           G == [t \in Timers |-> IF h.group[t] \in Here(c, n) THEN Taken(h.group[t][3])
                                  ELSE h.group[t]]
<1>1. /\ h.group \in [Timers -> Keys \cup {Nil, Orphan}]
      /\ h.list \in [Keys -> [head : Places, tail : Places]]
      /\ Empty \in [head : Places, tail : Places]
  BY HeapFields DEF Empty, Places
<1>2. \A k \in Keys : c # 0 => <<c, n, k[3]>> \in Keys
  BY KeyParts
<1>3. L \in [Keys -> [head : Places, tail : Places]]
  BY <1>1, <1>2
<1>4. G \in [Timers -> Keys \cup {Nil, Orphan}]
  BY <1>1, HereIs
<1>5. x = [h EXCEPT !.list = L, !.group = G]
  BY DEF Slotted
<1> HIDE DEF L, G, x
<1>6. /\ x \in Heaps /\ x.next = h.next /\ x.last = h.last /\ x.call = h.call
      /\ x.tick = h.tick /\ x.list = L /\ x.group = G
  BY <1>3, <1>4, <1>5 DEF Heaps
<1> QED
  BY <1>6 DEF L, G, x

LEMMA SlottedSound ==
    ASSUME NEW h, Sound(h), AllFree(h), NEW c \in 0..N, NEW n \in 0..M
    PROVE  Sound(Slotted(h, c, n))
<1> DEFINE x == Slotted(h, c, n)
<1>0. h \in Heaps /\ DeadOut(h) /\ Linking(h) /\ Grounded(h) /\ EndsIn(h) /\ EndsOnly(h)
      /\ TickHead(h)
  BY DEF Sound
<1>1. /\ x \in Heaps /\ x.next = h.next /\ x.last = h.last /\ x.call = h.call
      /\ x.tick = h.tick
      /\ \A t \in Timers : x.group[t] = IF h.group[t] \in Here(c, n)
                                        THEN Taken(h.group[t][3]) ELSE h.group[t]
      /\ \A k \in Keys : x.list[k] = IF k[1] = 0 /\ c # 0 THEN h.list[<<c, n, k[3]>>]
                                     ELSE IF k \in Here(c, n) THEN Empty ELSE h.list[k]
  BY <1>0, SlottedIs
<1>2. /\ h.next \in [Timers -> Places] /\ h.last \in [Timers -> Places]
      /\ h.list \in [Keys -> [head : Places, tail : Places]]
      /\ Nil \notin Timers /\ Nil \notin Keys /\ h.tick \in Places
  BY <1>0, HeapFields, TimerNames
<1> HIDE DEF x
<1>3. Nil \notin Here(c, n)
  BY <1>2 DEF Here
<1>4. DeadOut(x) /\ Grounded(x)
  BY <1>0, <1>1, <1>3 DEF DeadOut, Grounded
<1>5. TickHead(x)
  BY <1>0, <1>1, <1>2, <1>3 DEF TickHead, Places
<1>6. Linking(x)
  BY <1>0, <1>1, <1>2 DEF Linking, Places
<1>7. EndsIn(x)
  <2> SUFFICES ASSUME NEW k \in Keys
               PROVE  /\ x.list[k].head = Nil <=> x.list[k].tail = Nil
                      /\ x.list[k].head # Nil =>
                            /\ x.group[x.list[k].head] = k /\ x.last[x.list[k].head] = Nil
                            /\ x.group[x.list[k].tail] = k /\ x.next[x.list[k].tail] = Nil
    BY DEF EndsIn
  <2>0. ASSUME NEW j \in Keys
        PROVE  /\ h.list[j].head \in Places /\ h.list[j].tail \in Places
               /\ h.list[j].head = Nil <=> h.list[j].tail = Nil
               /\ h.list[j].head # Nil =>
                    /\ h.group[h.list[j].head] = j /\ h.last[h.list[j].head] = Nil
                    /\ h.group[h.list[j].tail] = j /\ h.next[h.list[j].tail] = Nil
    BY <1>0, <1>2 DEF EndsIn
  <2>1. CASE k[1] = 0 /\ c # 0
    <3> DEFINE j == <<c, n, k[3]>>
    <3>1. j \in Here(c, n) /\ j \in Keys /\ j[3] = k[3] /\ k = Taken(k[3])
      BY <2>1, KeyParts DEF Here
    <3>2. x.list[k] = h.list[j]
      BY <1>1, <2>1
    <3> HIDE DEF j
    <3>3. h.list[j].head # Nil =>
            /\ h.list[j].head \in Timers /\ x.group[h.list[j].head] = k
            /\ h.list[j].tail \in Timers /\ x.group[h.list[j].tail] = k
      BY <1>1, <2>0, <3>1 DEF Places
    <3> QED
      BY <1>1, <2>0, <3>1, <3>2, <3>3
  <2>2. CASE k \in Here(c, n)
    <3>1. x.list[k] = Empty
      BY <1>1, <2>2, HereIs
    <3> QED
      BY <3>1 DEF Empty
  <2>3. CASE ~(k[1] = 0 /\ c # 0) /\ k \notin Here(c, n)
    <3>1. x.list[k] = h.list[k]
      BY <1>1, <2>3
    <3>2. h.list[k].head # Nil =>
            /\ h.list[k].head \in Timers /\ x.group[h.list[k].head] = k
            /\ h.list[k].tail \in Timers /\ x.group[h.list[k].tail] = k
      BY <1>1, <2>0, <2>3 DEF Places
    <3> QED
      BY <1>1, <2>0, <3>1, <3>2
  <2> QED
    BY <2>1, <2>2, <2>3
<1>8. EndsOnly(x)
  <2> SUFFICES ASSUME NEW u \in Timers, x.group[u] \in Keys
               PROVE  /\ x.last[u] = Nil => x.list[x.group[u]].head = u
                      /\ x.next[u] = Nil => x.list[x.group[u]].tail = u
    BY DEF EndsOnly
  <2> DEFINE g == h.group[u]
  <2>1. CASE g \in Here(c, n)
    <3>1. /\ c # 0 /\ g \in Keys /\ g[3] \in Diffs /\ g = <<c, n, g[3]>>
          /\ Taken(g[3]) \in Keys /\ Taken(g[3])[1] = 0 /\ Taken(g[3])[3] = g[3]
      BY <2>1, HereIs
    <3>2. x.group[u] = Taken(g[3])
      BY <1>1, <2>1
    <3> HIDE DEF g
    <3>3. x.list[Taken(g[3])] = h.list[g]
      BY <1>1, <3>1
    <3> QED
      BY <1>0, <1>1, <3>1, <3>2, <3>3 DEF EndsOnly, g
  <2>2. CASE g \notin Here(c, n)
    <3>1. x.group[u] = g /\ g \in Keys
      BY <1>1, <2>2
    <3>2. /\ h.last[u] = Nil => h.list[g].head = u
          /\ h.next[u] = Nil => h.list[g].tail = u
      BY <1>0, <3>1 DEF EndsOnly
    <3>3. g[1] = 0 => h.list[g].head = Nil /\ h.list[g].tail = Nil
      BY <1>0, <3>1, KeyParts DEF AllFree, EndsIn
    <3> HIDE DEF g
    <3>4. g[1] # 0 => x.list[g] = h.list[g]
      BY <1>1, <2>2, <3>1
    <3> QED
      BY <1>1, <1>2, <3>1, <3>2, <3>3, <3>4
  <2> QED
    BY <2>1, <2>2
<1> QED
  BY <1>1, <1>4, <1>5, <1>6, <1>7, <1>8 DEF Sound, x

-----------------------------------------------------------------------------
(* Stop *)

LEMMA ClearedIs ==
    ASSUME NEW h \in Heaps
    PROVE  LET x == Cleared(h)
           IN  /\ x \in Heaps /\ x.next = h.next /\ x.last = h.last /\ x.call = h.call
               /\ x.tick = Nil
               /\ \A t \in Timers : x.group[t] = IF h.group[t] \in Keys /\ h.group[t][1] # 0
                                                 THEN Orphan ELSE h.group[t]
               /\ \A k \in Keys : x.list[k] = IF k[1] = 0 THEN h.list[k] ELSE Empty
<1> DEFINE x == Cleared(h)
           L == [k \in Keys |-> IF k[1] = 0 THEN h.list[k] ELSE Empty]
           G == [t \in Timers |-> IF h.group[t] \in {k \in Keys : k[1] # 0} THEN Orphan
                                  ELSE h.group[t]]
<1>1. /\ h.group \in [Timers -> Keys \cup {Nil, Orphan}]
      /\ h.list \in [Keys -> [head : Places, tail : Places]]
      /\ Empty \in [head : Places, tail : Places]
  BY HeapFields DEF Empty, Places
<1>2. L \in [Keys -> [head : Places, tail : Places]]
  BY <1>1
<1>3. G \in [Timers -> Keys \cup {Nil, Orphan}]
  BY <1>1
<1>4. x = [h EXCEPT !.list = L, !.group = G, !.tick = Nil]
  BY DEF Cleared
<1> HIDE DEF L, G, x
<1>5. /\ x \in Heaps /\ x.next = h.next /\ x.last = h.last /\ x.call = h.call
      /\ x.tick = Nil /\ x.list = L /\ x.group = G
  BY <1>2, <1>3, <1>4 DEF Heaps, Places
<1> QED
  BY <1>5 DEF L, G, x

LEMMA ClearedSound ==
    ASSUME NEW h, Sound(h)
    PROVE  Sound(Cleared(h))
<1> DEFINE x == Cleared(h)
<1>0. h \in Heaps /\ DeadOut(h) /\ Linking(h) /\ Grounded(h) /\ EndsIn(h) /\ EndsOnly(h)
      /\ TickHead(h)
  BY DEF Sound
<1>1. /\ x \in Heaps /\ x.next = h.next /\ x.last = h.last /\ x.call = h.call
      /\ x.tick = Nil
      /\ \A t \in Timers : x.group[t] = IF h.group[t] \in Keys /\ h.group[t][1] # 0
                                        THEN Orphan ELSE h.group[t]
      /\ \A k \in Keys : x.list[k] = IF k[1] = 0 THEN h.list[k] ELSE Empty
  BY <1>0, ClearedIs
<1>2. /\ h.next \in [Timers -> Places] /\ h.last \in [Timers -> Places]
      /\ h.list \in [Keys -> [head : Places, tail : Places]]
      /\ Nil \notin Timers /\ Nil \notin Keys /\ Orphan \notin Keys
  BY <1>0, HeapFields, TimerNames
<1> HIDE DEF x
<1>3. DeadOut(x) /\ Grounded(x) /\ TickHead(x)
  BY <1>0, <1>1, <1>2 DEF DeadOut, Grounded, TickHead
<1>4. Linking(x)
  BY <1>0, <1>1, <1>2 DEF Linking, Places
<1>5. EndsIn(x)
  <2> SUFFICES ASSUME NEW k \in Keys
               PROVE  /\ x.list[k].head = Nil <=> x.list[k].tail = Nil
                      /\ x.list[k].head # Nil =>
                            /\ x.group[x.list[k].head] = k /\ x.last[x.list[k].head] = Nil
                            /\ x.group[x.list[k].tail] = k /\ x.next[x.list[k].tail] = Nil
    BY DEF EndsIn
  <2>1. CASE k[1] # 0
    BY <1>1, <2>1 DEF Empty
  <2>2. CASE k[1] = 0
    <3>1. /\ h.list[k].head \in Places /\ h.list[k].tail \in Places
          /\ h.list[k].head = Nil <=> h.list[k].tail = Nil
          /\ h.list[k].head # Nil =>
               /\ h.group[h.list[k].head] = k /\ h.last[h.list[k].head] = Nil
               /\ h.group[h.list[k].tail] = k /\ h.next[h.list[k].tail] = Nil
      BY <1>0, <1>2 DEF EndsIn
    <3>2. x.list[k] = h.list[k]
      BY <1>1, <2>2
    <3>3. h.list[k].head # Nil => /\ x.group[h.list[k].head] = k /\ x.group[h.list[k].tail] = k
      BY <1>1, <2>2, <3>1 DEF Places
    <3> QED
      BY <1>1, <3>1, <3>2, <3>3
  <2> QED
    BY <2>1, <2>2
<1>6. EndsOnly(x)
  <2> SUFFICES ASSUME NEW u \in Timers, x.group[u] \in Keys
               PROVE  /\ x.last[u] = Nil => x.list[x.group[u]].head = u
                      /\ x.next[u] = Nil => x.list[x.group[u]].tail = u
    BY DEF EndsOnly
  <2>1. x.group[u] = h.group[u] /\ h.group[u][1] = 0
    BY <1>1, <1>2
  <2> QED
    BY <1>0, <1>1, <2>1 DEF EndsOnly
<1> QED
  BY <1>1, <1>3, <1>4, <1>5, <1>6 DEF Sound, x

LEMMA BlankSound ==
    ASSUME NEW h, Sound(h), AllFree(h)
    PROVE  /\ Sound(BlankAll(Cleared(h))) /\ AllFree(BlankAll(Cleared(h)))
           /\ \A t \in Timers : ~BlankAll(Cleared(h)).call[t]
<1> DEFINE y == Cleared(h)
           x == BlankAll(y)
<1>1. y \in Heaps /\ y.tick = Nil
      /\ \A k \in Keys : y.list[k] = IF k[1] = 0 THEN h.list[k] ELSE Empty
  BY ClearedIs DEF Sound
<1>2. EndsIn(h) /\ Nil \notin Timers /\ Nil \notin Keys
  BY TimerNames DEF Sound
<1> HIDE DEF y
<1>3. /\ x \in Heaps /\ x.list = y.list /\ x.tick = Nil
      /\ \A t \in Timers : /\ x.next[t] = Nil /\ x.last[t] = Nil
                           /\ x.group[t] = Nil /\ ~x.call[t]
  BY <1>1 DEF BlankAll, Heaps, Places
<1> HIDE DEF x
<1>4. \A k \in Keys : x.list[k].head = Nil /\ x.list[k].tail = Nil
  <2> TAKE k \in Keys
  <2>1. CASE k[1] = 0
    BY <1>1, <1>2, <1>3, <2>1, KeyParts DEF AllFree, EndsIn
  <2>2. CASE k[1] # 0
    BY <1>1, <1>3, <2>2 DEF Empty
  <2> QED
    BY <2>1, <2>2
<1>5. AllFree(x)
  BY <1>4, KeyParts DEF AllFree
<1>6. DeadOut(x) /\ Linking(x) /\ EndsIn(x) /\ EndsOnly(x) /\ TickHead(x)
  BY <1>2, <1>3, <1>4 DEF DeadOut, Linking, EndsIn, EndsOnly, TickHead
<1>7. Grounded(x)
  BY <1>2, <1>3 DEF Grounded
<1> QED
  BY <1>3, <1>5, <1>6, <1>7 DEF Sound, x, y

-----------------------------------------------------------------------------
(* What the steps do to the heap. *)

LEMMA CountIsCount ==
    ASSUME NEW n \in Int
    PROVE  GroupCountConstraint(n) \in 0..M
<1>1. M \in Nat \ {0}
  BY TickerAssumption
<1>2. CASE n >= 1
  <2>1. (n - 1) % M \in 0..(M - 1)
    BY <1>1, <1>2
  <2> QED
    BY <1>1, <1>2, <2>1 DEF GroupCountConstraint
<1>3. CASE ~(n >= 1)
  BY <1>1, <1>3 DEF GroupCountConstraint
<1> QED
  BY <1>2, <1>3

LEMMA SlotIsKey ==
    ASSUME NEW id \in 0..N, NEW n \in 0..M, NEW d \in Diffs, NEW g \in Int
    PROVE  /\ SlotOf(id, n, d, g) \in Keys /\ SlotOf(id, n, d, g)[1] # 0
           /\ SlotOf(id, n, d, g)[3] = d
<1> DEFINE next == NextGroupId(id, d % N)
           c == GroupCountConstraint(n + d \div N + next[2] + g)
<1>1. N \in Nat \ {0} /\ M \in Nat \ {0} /\ d \in Nat
  BY TickerAssumption, KeyParts
<1>2. d % N \in 0..N /\ d \div N \in Int
  BY <1>1
<1>3. next[1] \in 1..N /\ next[2] \in {-1, 0, 1}
  BY <1>2, NextGroupIdMoves
<1>4. n + d \div N + next[2] + g \in Int
  <2> HIDE DEF next
  <2>1. n \in Int /\ next[2] \in Int
    BY <1>1, <1>3
  <2> QED
    BY <1>2, <2>1
<1>5. c \in 0..M
  BY <1>4, CountIsCount
<1>6. SlotOf(id, n, d, g) = <<next[1], c, d>>
  BY DEF SlotOf
<1> HIDE DEF next, c
<1>7. <<next[1], c, d>> \in Keys /\ <<next[1], c, d>>[1] = next[1] /\ <<next[1], c, d>>[3] = d
  BY <1>3, <1>5, KeyParts
<1> QED
  BY <1>1, <1>3, <1>6, <1>7

FreeKept(x, h) == \A d \in Diffs : h.list[Taken(d)].head = Nil => x.list[Taken(d)].head = Nil

\* x is h with the new timer t at the end of list k.
IsEntered(x, h, t, k) ==
    /\ Sound(x) /\ FreeKept(x, h) /\ x.tick = h.tick
    /\ \A u \in Timers : /\ x.call[u] <=> u = t \/ h.call[u]
                         /\ x.group[u] = IF u = t THEN k ELSE h.group[u]
                         /\ x.last[u] = IF u = t THEN h.list[k].tail ELSE h.last[u]
                         /\ x.next[u] = IF u = h.list[k].tail THEN t ELSE h.next[u]

LEMMA Entered ==
    ASSUME NEW h, Sound(h), NEW t \in Timers, ~h.call[t], NEW k \in Keys, k[1] # 0
    PROVE  IsEntered(Linked(Called(h, t), t, k), h, t, k)
<1> DEFINE y == Called(h, t)
           x == Linked(y, t, k)
<1>1. h \in Heaps
  BY DEF Sound
<1>2. /\ y \in Heaps /\ y.next = h.next /\ y.last = h.last
      /\ y.group = h.group /\ y.list = h.list /\ y.tick = h.tick
      /\ \A u \in Timers : y.call[u] <=> u = t \/ h.call[u]
  BY <1>1, CalledIs
<1>3. x = Joined(y, t, t, {t}, k) /\ Loose(y, t, t, {t})
  BY LinkedFresh, FreshIsLoose
<1> HIDE DEF x, y
<1>4. Sound(x)
  BY <1>3, JoinedSound
<1>5. IsJoined(x, y, t, t, {t}, k)
  BY <1>2, <1>3, JoinedIs
<1>6. \A d \in Diffs : x.list[Taken(d)] = h.list[Taken(d)]
  BY <1>2, <1>5, KeyParts DEF IsJoined
<1>7. FreeKept(x, h)
  BY <1>6 DEF FreeKept
<1>8. \A u \in Timers : /\ x.call[u] <=> u = t \/ h.call[u]
                        /\ x.group[u] = IF u = t THEN k ELSE h.group[u]
                        /\ x.last[u] = IF u = t THEN h.list[k].tail ELSE h.last[u]
                        /\ x.next[u] = IF u = h.list[k].tail THEN t ELSE h.next[u]
  BY <1>2, <1>5 DEF IsJoined
<1>9. x.tick = h.tick
  BY <1>2, <1>5 DEF IsJoined
<1> QED
  BY <1>4, <1>7, <1>8, <1>9 DEF IsEntered, x, y

\* x is h with the timers of list j at the end of list k.
IsMoved(x, h, j, k) ==
    /\ Sound(x) /\ x.tick = h.tick /\ x.call = h.call /\ x.list[j].head = Nil
    /\ \A i \in Keys : i # j /\ i # k => x.list[i] = h.list[i]
    /\ \A u \in Timers :
          /\ x.group[u] = IF h.group[u] = j THEN k ELSE h.group[u]
          /\ x.last[u] = IF u = h.list[j].head THEN h.list[k].tail ELSE h.last[u]
          /\ x.next[u] = IF u = h.list[k].tail THEN h.list[j].head ELSE h.next[u]

LEMMA Moved ==
    ASSUME NEW h, Sound(h), NEW j \in Keys, h.list[j].head # Nil, NEW k \in Keys, k # j
    PROVE  IsMoved(Linked(Freed(h, j), h.list[j].head, k), h, j, k)
<1> DEFINE y == Freed(h, j)
           a == h.list[j].head
           b == h.list[j].tail
           S == Members(h, j)
           x == Linked(y, a, k)
<1>1. h \in Heaps
  BY DEF Sound
<1>2. /\ y \in Heaps /\ y.next = h.next /\ y.last = h.last
      /\ y.group = h.group /\ y.call = h.call /\ y.tick = h.tick
      /\ \A i \in Keys : y.list[i] = IF i = j THEN Empty ELSE h.list[i]
  BY <1>1, FreedIs
<1>3. x = Joined(y, a, b, S, k)
  BY LinkedList
<1>4. Loose(y, a, b, S)
  BY FreedIsLoose
<1>0. \A u \in Timers : u \in S <=> h.group[u] = j
  BY DEF Members
<1>00. \A u \in Timers : u = a <=> u = h.list[j].head
  OBVIOUS
<1> HIDE DEF x, y, S, b
<1>5. Sound(x)
  BY <1>3, <1>4, JoinedSound
<1>6. IsJoined(x, y, a, b, S, k)
  BY <1>2, <1>3, <1>4, JoinedIs DEF Loose
<1>7. x.list[j].head = Nil /\ \A i \in Keys : i # j /\ i # k => x.list[i] = h.list[i]
  BY <1>2, <1>6 DEF IsJoined, Empty
<1>8. y.list[k].tail = h.list[k].tail
  BY <1>2
<1>9. \A u \in Timers :
          /\ x.group[u] = IF h.group[u] = j THEN k ELSE h.group[u]
          /\ x.last[u] = IF u = a THEN h.list[k].tail ELSE h.last[u]
          /\ x.next[u] = IF u = h.list[k].tail THEN a ELSE h.next[u]
  BY <1>0, <1>2, <1>6, <1>8 DEF IsJoined
<1>10. x.tick = h.tick /\ x.call = h.call
  BY <1>2, <1>6 DEF IsJoined
<1> QED
  BY <1>5, <1>7, <1>9, <1>10 DEF IsMoved, x, y

LEMMA RemovedFree ==
    ASSUME NEW h, Sound(h), NEW t \in Timers
    PROVE  FreeKept(Removed(h, t), h)
<1> SUFFICES ASSUME NEW d \in Diffs, h.list[Taken(d)].head = Nil
             PROVE  Removed(h, t).list[Taken(d)].head = Nil
  BY DEF FreeKept
<1>1. Taken(d) \in Keys
  BY KeyParts
<1>2. h.group[t] = Taken(d) => h.last[t] # Nil
  BY <1>1, TimerNames DEF Sound, EndsOnly
<1> QED
  BY <1>1, <1>2, RemovedIs DEF IsRemoved

\* What is left of h when the timers S are removed.
Kept(x, h, S) ==
    /\ Sound(x) /\ FreeKept(x, h)
    /\ \A u \in Timers : /\ x.call[u] => h.call[u] /\ x.group[u] = h.group[u]
                         /\ h.call[u] /\ u \notin S => x.call[u]

LEMMA RemovedKept ==
    ASSUME NEW h, NEW S, NEW x, Kept(x, h, S), NEW t \in Timers, t \in S
    PROVE  Kept(Removed(x, t), h, S)
<1> DEFINE y == Removed(x, t)
<1>1. Sound(x)
  BY DEF Kept
<1>2. Sound(y) /\ FreeKept(y, x) /\ IsRemoved(y, x, t)
  BY <1>1, RemovedSound, RemovedFree, RemovedIs
<1> HIDE DEF y
<1>3. FreeKept(y, h)
  BY <1>2 DEF Kept, FreeKept
<1>4. \A u \in Timers : /\ y.call[u] => h.call[u] /\ y.group[u] = h.group[u]
                        /\ h.call[u] /\ u \notin S => y.call[u]
  BY <1>2 DEF Kept, IsRemoved
<1> QED
  BY <1>2, <1>3, <1>4 DEF Kept, y

LEMMA KeptAll ==
    ASSUME NEW h, Sound(h), NEW S \in SUBSET Timers
    PROVE  Kept(RemovedAll(h, S), h, S)
<1> DEFINE P == {x \in Heaps : Kept(x, h, S)}
<1>1. h \in P
  BY DEF Kept, Sound, FreeKept
<1>2. \A x \in P, t \in S : Removed(x, t) \in P
  <2> TAKE x \in P, t \in S
  <2>1. Kept(Removed(x, t), h, S)
    BY RemovedKept
  <2> QED
    BY <2>1 DEF Kept, Sound
<1> HIDE DEF P
<1>3. RemovedAll(h, S) \in P
  BY <1>1, <1>2, RemovedAllKeeps
<1> QED
  BY <1>3 DEF P

LEMMA KeptOne ==
    ASSUME NEW h, Sound(h), NEW t \in Timers
    PROVE  Kept(Removed(h, t), h, {t})
<1>1. Kept(h, h, {t})
  BY DEF Kept, FreeKept
<1> QED
  BY <1>1, RemovedKept

-----------------------------------------------------------------------------
(* The invariant. *)

Locals ==
    /\ tagged \in [Tags -> SUBSET Timers]
    /\ run \in BOOLEAN /\ time \in Int /\ cur \in 0..N /\ count \in 0..M
    /\ since \in [Timers -> Int]
    /\ pc \in {"idle", "tick", "tickCall", "loop", "groups", "list", "listCall", "error"}
    /\ cursor \in Places /\ last \in Places
    /\ todo \in SUBSET Diffs /\ v \in Diffs \cup {0} /\ df \in Int
    /\ group \in Int /\ group <= N /\ loop \in Int /\ loop <= N
    /\ own \in BOOLEAN

\* Which lists Call has taken out of the wheel and not yet put back.
Outside ==
    /\ pc \in {"idle", "tick", "tickCall", "loop"} => AllFree(heap)
    /\ pc = "groups" => \A d \in Diffs : d \in todo \/ heap.list[Taken(d)].head = Nil
    /\ pc \in {"list", "listCall"} =>
          v \in Diffs /\ \A d \in Diffs : d \in todo \/ d = v \/ heap.list[Taken(d)].head = Nil

\* The timer a walk goes on with is in the ticker, unless a callback removed it.
Cursor ==
    /\ pc \in {"idle", "loop", "groups"} => cursor = Nil
    /\ pc \in {"tick", "tickCall", "list", "listCall"} /\ own /\ cursor # Nil => heap.call[cursor]
    /\ pc \in {"tickCall", "listCall"} => last # Nil /\ last # cursor
    /\ pc = "error" => ~own

Inv == Sound(heap) /\ Locals /\ Outside /\ Cursor

LEMMA InitInv == Init => Inv
<1> SUFFICES ASSUME Init PROVE Inv
  OBVIOUS
<1>1. /\ heap \in Heaps /\ heap.tick = Nil
      /\ \A t \in Timers : /\ heap.next[t] = Nil /\ heap.last[t] = Nil
                           /\ heap.group[t] = Nil /\ ~heap.call[t]
      /\ \A k \in Keys : heap.list[k].head = Nil /\ heap.list[k].tail = Nil
  BY DEF Init, Heaps, Places, Empty
<1>2. DeadOut(heap) /\ Linking(heap) /\ EndsIn(heap) /\ EndsOnly(heap) /\ TickHead(heap)
  BY <1>1, TimerNames DEF DeadOut, Linking, EndsIn, EndsOnly, TickHead
<1>3. Grounded(heap)
  BY <1>1, TimerNames DEF Grounded
<1>4. Locals
  <2>1. N \in Nat /\ M \in Nat
    BY TickerAssumption
  <2>2. /\ tagged \in [Tags -> SUBSET Timers] /\ since \in [Timers -> Int]
        /\ cursor \in Places /\ last \in Places /\ todo \in SUBSET Diffs
    BY DEF Init, Places
  <2>3. run = FALSE /\ own = TRUE /\ pc = "idle"
    BY DEF Init
  <2>4. /\ time \in Int /\ cur \in 0..N /\ count \in 0..M /\ v \in Diffs \cup {0} /\ df \in Int
        /\ group \in Int /\ group <= N /\ loop \in Int /\ loop <= N
    BY <2>1 DEF Init
  <2> QED
    BY <2>2, <2>3, <2>4 DEF Locals
<1>5. AllFree(heap)
  BY <1>1, KeyParts DEF AllFree
<1>6. Outside /\ Cursor
  BY <1>5 DEF Init, Outside, Cursor
<1> QED
  BY <1>1, <1>2, <1>3, <1>4, <1>6 DEF Inv, Sound

LEMMA StartedInts ==
    ASSUME Locals, Started
    PROVE  run' = TRUE /\ cur' \in 0..N /\ time' \in Int
  BY TickerAssumption DEF Locals, Started

LEMMA SinceInt == ASSUME NEW x \in Int PROVE Since(x) \in Int
  BY TickerAssumption DEF Since, AtMost

LEMMA SinceYoung == ASSUME NEW x \in Int, CanSkip PROVE Since(x) <= MaxSince
  BY TickerAssumption DEF Since, AtMost

LEMMA SinceIs == ASSUME NEW x \in Int, CanSkip PROVE Since(x) <= x
  BY TickerAssumption DEF Since, AtMost

\* What the clock does to ages when it advances.
LEMMA OlderIs ==
    ASSUME Inv, NEW e \in Nat
    PROVE  /\ Older(e) \in [Timers -> Int]
           /\ CanSkip => \A t \in Timers : /\ Older(e)[t] <= since[t] + e
                                           /\ since[t] <= MaxSince => Older(e)[t] <= MaxSince
<1>1. since \in [Timers -> Int]
  BY DEF Inv, Locals
<1>2. \A t \in Timers : Older(e)[t] = IF heap.call[t] THEN Since(since[t] + e) ELSE since[t]
  BY DEF Older
<1>3. \A t \in Timers : since[t] + e \in Int /\ Since(since[t] + e) \in Int
  BY <1>1, SinceInt
<1>4. CanSkip => \A t \in Timers : Since(since[t] + e) <= since[t] + e /\ Since(since[t] + e) <= MaxSince
  BY <1>3, SinceIs, SinceYoung
<1>5. Older(e) \in [Timers -> Int]
  BY <1>1, <1>3 DEF Older
<1>6. CanSkip => \A t \in Timers : /\ Older(e)[t] <= since[t] + e
                                   /\ since[t] <= MaxSince => Older(e)[t] <= MaxSince
  BY <1>1, <1>2, <1>3, <1>4
<1> QED
  BY <1>5, <1>6

\* A timer is new, with age x; the ages of the others change only if the ticker starts.
Reset(t, x) ==
    /\ since' \in [Timers -> Int] /\ since'[t] = x
    /\ \A u \in Timers : u # t => /\ run => since'[u] = since[u]
                                  /\ CanSkip /\ since[u] <= MaxSince => since'[u] <= MaxSince

LEMMA ResetIs ==
    ASSUME Inv, NEW t \in Timers, NEW x \in Int, NEW ages \in AgesAtStart,
           since' = [ages EXCEPT ![t] = x]
    PROVE  Reset(t, x)
<1>1. since \in [Timers -> Int]
  BY DEF Inv, Locals
<1>2. /\ ages \in [Timers -> Int]
      /\ run => ages = since
      /\ CanSkip => \A u \in Timers : since[u] <= MaxSince => ages[u] <= MaxSince
  <2>1. CASE run
    BY <1>1, <2>1 DEF AgesAtStart
  <2>2. CASE ~run
    <3>1. PICK e \in Nat : ages = Older(e)
      BY <2>2, TickerAssumption DEF AgesAtStart
    <3>2. /\ ages \in [Timers -> Int]
          /\ CanSkip => \A u \in Timers : since[u] <= MaxSince => ages[u] <= MaxSince
      BY <3>1, OlderIs
    <3> QED
      BY <2>2, <3>2
  <2> QED
    BY <2>1, <2>2
<1>3. /\ since' \in [Timers -> Int] /\ since'[t] = x
      /\ \A u \in Timers : u # t => since'[u] = ages[u]
  BY <1>2
<1>4. \A u \in Timers : u # t => /\ run => since'[u] = since[u]
                                 /\ CanSkip /\ since[u] <= MaxSince => since'[u] <= MaxSince
  BY <1>2, <1>3
<1> QED
  BY <1>3, <1>4 DEF Reset

\* A callback, or somebody outside, adds a timer.
LEMMA SetTimerHeap ==
    ASSUME Inv, NEW d \in Diffs, NEW g \in Tags, SetTimer(d, g)
    PROVE  \E t \in Timers, k \in Keys :
              /\ Fresh(t) /\ ~heap.call[t] /\ t # cursor /\ t # last /\ k[1] # 0 /\ k[3] = d
              /\ k = SlotOf(cur', count, d, 0)
              /\ IsEntered(heap', heap, t, k)
              /\ Started /\ pc \in {"idle", "tickCall", "listCall"}
              /\ Reset(t, Since(time' - R))
              /\ tagged' = [tagged EXCEPT ![g] = @ \cup {t}]
              /\ period' = [period EXCEPT ![t] = d] /\ left' = [left EXCEPT ![t] = d]
              /\ rung' = [rung EXCEPT ![t] = 0] /\ extra' = [extra EXCEPT ![t] = 0]
              /\ UNCHANGED <<count, local, own, stops>>
<1>1. PICK t \in Timers, ages \in AgesAtStart :
        /\ pc = "idle" \/ (InCall /\ SetInCalls)
        /\ Fresh(t)
        /\ Started
        /\ heap' = Linked([heap EXCEPT !.call[t] = TRUE], t, SlotOf(cur', count, d, 0))
        /\ since' = [ages EXCEPT ![t] = Since(time' - R)]
        /\ tagged' = [tagged EXCEPT ![g] = @ \cup {t}]
        /\ period' = [period EXCEPT ![t] = d]
        /\ left' = [left EXCEPT ![t] = d]
        /\ rung' = [rung EXCEPT ![t] = 0]
        /\ extra' = [extra EXCEPT ![t] = 0]
        /\ UNCHANGED <<count, local, own, stops>>
  BY DEF SetTimer
<1>2. ~heap.call[t] /\ t # cursor /\ t # last
  BY <1>1 DEF Fresh
<1>3. cur' \in 0..N /\ count \in 0..M
  BY <1>1, StartedInts DEF Inv, Locals
<1> DEFINE k == SlotOf(cur', count, d, 0)
<1>4. k \in Keys /\ k[1] # 0 /\ k[3] = d
  BY <1>3, SlotIsKey
<1>5. heap' = Linked(Called(heap, t), t, k)
  BY <1>1 DEF Called
<1> HIDE DEF k
<1>6. IsEntered(heap', heap, t, k)
  BY <1>2, <1>4, <1>5, Entered DEF Inv
<1>7. pc \in {"idle", "tickCall", "listCall"}
  BY <1>1 DEF InCall
<1>8. k = SlotOf(cur', count, d, 0)
  BY DEF k
<1>9. Reset(t, Since(time' - R))
  <2>1. Since(time' - R) \in Int
    BY <1>1, StartedInts, SinceInt, TickerAssumption DEF Inv
  <2> QED
    BY <1>1, <2>1, ResetIs
<1> QED
  BY <1>1, <1>2, <1>4, <1>6, <1>7, <1>8, <1>9

LEMMA SetTimerInv ==
    ASSUME Inv, NEW d \in Diffs, NEW g \in Tags, SetTimer(d, g)
    PROVE  Inv'
<1>1. PICK t \in Timers, k \in Keys :
        /\ ~heap.call[t] /\ t # cursor /\ t # last
        /\ IsEntered(heap', heap, t, k)
        /\ Started /\ pc \in {"idle", "tickCall", "listCall"}
        /\ Reset(t, Since(time' - R))
        /\ tagged' = [tagged EXCEPT ![g] = @ \cup {t}]
        /\ UNCHANGED <<count, local, own, stops>>
  BY SetTimerHeap
<1>2. run' = TRUE /\ cur' \in 0..N /\ time' \in Int
  BY <1>1, StartedInts DEF Inv
<1>3. Locals'
  <2>2. since' \in [Timers -> Int] /\ tagged' \in [Tags -> SUBSET Timers]
    BY <1>1 DEF Inv, Locals, Reset
  <2> QED
    BY <1>1, <1>2, <2>2 DEF Inv, Locals, local
<1>4. Outside'
  BY <1>1, KeyParts DEF Inv, Outside, IsEntered, FreeKept, AllFree, local
<1>5. Cursor'
  BY <1>1 DEF Inv, Locals, Cursor, IsEntered, local, Places
<1> QED
  BY <1>1, <1>3, <1>4, <1>5 DEF Inv, IsEntered

LEMMA SetTickHeap ==
    ASSUME Inv, NEW g \in Tags, SetTick(g)
    PROVE  \E t \in Timers :
              /\ Fresh(t) /\ ~heap.call[t] /\ t # cursor /\ t # last
              /\ IsTicked(heap', heap, t) /\ Sound(heap')
              /\ Started /\ pc \in {"idle", "tickCall", "listCall"}
              /\ Reset(t, 0)
              /\ tagged' = [tagged EXCEPT ![g] = @ \cup {t}]
              /\ period' = [period EXCEPT ![t] = 0]
              /\ rung' = [rung EXCEPT ![t] = 1]
              /\ UNCHANGED <<count, local, left, extra, own, stops>>
<1>1. PICK t \in Timers, ages \in AgesAtStart :
        /\ pc = "idle" \/ (InCall /\ SetInCalls)
        /\ Fresh(t)
        /\ Started
        /\ heap' = [heap EXCEPT !.call[t] = TRUE, !.next[t] = heap.tick, !.tick = t,
                       !.last = IF heap.tick = Nil THEN @ ELSE [@ EXCEPT ![heap.tick] = t]]
        /\ since' = [ages EXCEPT ![t] = 0]
        /\ tagged' = [tagged EXCEPT ![g] = @ \cup {t}]
        /\ period' = [period EXCEPT ![t] = 0]
        /\ rung' = [rung EXCEPT ![t] = 1]
        /\ UNCHANGED <<count, local, left, extra, own, stops>>
  BY DEF SetTick
<1>2. ~heap.call[t] /\ t # cursor /\ t # last
  BY <1>1 DEF Fresh
<1>3. heap' = Ticked(heap, t)
  BY <1>1 DEF Ticked
<1>4. IsTicked(heap', heap, t) /\ Sound(heap')
  BY <1>2, <1>3, TickedIs, TickedSound DEF Inv, Sound
<1>5. pc \in {"idle", "tickCall", "listCall"}
  BY <1>1 DEF InCall
<1>6. Reset(t, 0)
  <2>1. since' = [ages EXCEPT ![t] = 0] /\ ages \in AgesAtStart /\ 0 \in Int
    BY <1>1
  <2> QED
    BY <2>1, ResetIs
<1> QED
  BY <1>1, <1>2, <1>4, <1>5, <1>6

LEMMA SetTickInv ==
    ASSUME Inv, NEW g \in Tags, SetTick(g)
    PROVE  Inv'
<1>1. PICK t \in Timers :
        /\ ~heap.call[t] /\ t # cursor /\ t # last
        /\ IsTicked(heap', heap, t) /\ Sound(heap')
        /\ Started /\ pc \in {"idle", "tickCall", "listCall"}
        /\ Reset(t, 0)
        /\ tagged' = [tagged EXCEPT ![g] = @ \cup {t}]
        /\ UNCHANGED <<count, local, own, stops>>
  BY SetTickHeap
<1>2. run' = TRUE /\ cur' \in 0..N /\ time' \in Int
  BY <1>1, StartedInts DEF Inv
<1>3. Locals'
  <2>2. since' \in [Timers -> Int] /\ tagged' \in [Tags -> SUBSET Timers]
    BY <1>1 DEF Inv, Locals, Reset
  <2> QED
    BY <1>1, <1>2, <2>2 DEF Inv, Locals, local
<1>4. Outside'
  BY <1>1, KeyParts DEF Inv, Outside, IsTicked, AllFree, local
<1>5. Cursor'
  BY <1>1 DEF Inv, Locals, Cursor, IsTicked, local, Places
<1> QED
  BY <1>1, <1>3, <1>4, <1>5 DEF Inv

LEMMA RemoveTimerInv ==
    ASSUME Inv, NEW t \in Timers, RemoveTimer(t)
    PROVE  Inv'
<1>1. Kept(heap', heap, {t})
  BY KeptOne DEF Inv, RemoveTimer
<1>2. Locals'
  BY DEF Inv, Locals, RemoveTimer, local
<1>3. Outside'
  BY <1>1 DEF Inv, Outside, RemoveTimer, local, AllFree, Kept, FreeKept
<1>4. Cursor'
  <2>1. pc \in {"idle", "tickCall", "listCall"} /\ UNCHANGED <<pc, cursor, last>>
        /\ own' = (own /\ (InCall => t = last))
    BY DEF RemoveTimer, local, InCall
  <2>2. own' /\ pc \in {"tickCall", "listCall"} => own /\ t = last
    BY <2>1 DEF InCall, Inv, Locals
  <2> QED
    BY <1>1, <2>1, <2>2 DEF Inv, Cursor, Locals, Kept, Places
<1> QED
  BY <1>1, <1>2, <1>3, <1>4 DEF Inv, Kept

LEMMA RemoveTimerByTagInv ==
    ASSUME Inv, NEW g \in Tags, RemoveTimerByTag(g)
    PROVE  Inv'
<1> DEFINE S == tagged[g]
<1>0. S \in SUBSET Timers
  BY DEF Inv, Locals
<1>1. Kept(heap', heap, S)
  BY <1>0, KeptAll DEF Inv, RemoveTimerByTag
<1>2. Locals'
  BY DEF Inv, Locals, RemoveTimerByTag, local
<1>3. Outside'
  BY <1>1 DEF Inv, Outside, RemoveTimerByTag, local, AllFree, Kept, FreeKept
<1>4. Cursor'
  <2>1. pc \in {"idle", "tickCall", "listCall"} /\ UNCHANGED <<pc, cursor, last>>
        /\ own' = (own /\ (InCall => S \subseteq {last}))
    BY DEF RemoveTimerByTag, local, InCall
  <2>2. own' /\ pc \in {"tickCall", "listCall"} => own /\ S \subseteq {last}
    BY <2>1 DEF InCall, Inv, Locals
  <2> HIDE DEF S
  <2> QED
    BY <1>1, <2>1, <2>2 DEF Inv, Cursor, Locals, Kept, Places
<1> QED
  BY <1>1, <1>2, <1>3, <1>4 DEF Inv, Kept

LEMMA StopInv ==
    ASSUME Inv, Stop
    PROVE  Inv'
<1>1. CASE pc = "idle"
  <2>1. heap' = BlankAll(Cleared(heap)) /\ AllFree(heap) /\ UNCHANGED <<local, own, count, since>>
    BY <1>1 DEF Stop, Inv, Outside, owed
  <2>2. Sound(heap') /\ AllFree(heap')
    BY <2>1, BlankSound DEF Inv
  <2>3. Locals'
    <3>1. run' = FALSE /\ time' = 0 /\ cur' = 0 /\ 0 \in 0..N /\ tagged' = [t \in Tags |-> {}]
      BY TickerAssumption DEF Stop
    <3>2. tagged' \in [Tags -> SUBSET Timers]
      BY <3>1
    <3>5. run' \in BOOLEAN
      BY <3>1, Zenon
    <3>3. time' \in Int /\ cur' \in 0..N
      BY <3>1
    <3>4. /\ count' \in 0..M /\ since' \in [Timers -> Int]
          /\ pc' \in {"idle", "tick", "tickCall", "loop", "groups", "list", "listCall", "error"}
          /\ cursor' \in Places /\ last' \in Places
          /\ todo' \in SUBSET Diffs /\ v' \in Diffs \cup {0} /\ df' \in Int
          /\ group' \in Int /\ group' <= N /\ loop' \in Int /\ loop' <= N
          /\ own' \in BOOLEAN
      BY <2>1 DEF Inv, Locals, local
    <3> QED
      BY <3>2, <3>3, <3>4, <3>5 DEF Locals
  <2>4. Outside' /\ Cursor'
    BY <1>1, <2>1, <2>2 DEF Inv, Outside, Cursor, local
  <2> QED
    BY <2>2, <2>3, <2>4 DEF Inv
<1>2. CASE pc # "idle"
  <2>1. heap' = Cleared(heap) /\ UNCHANGED <<local, own, count, since>>
    BY <1>2 DEF Stop, owed
  <2>2. Sound(heap') /\ heap'.call = heap.call
        /\ \A d \in Diffs : heap'.list[Taken(d)] = heap.list[Taken(d)]
    BY <2>1, ClearedSound, ClearedIs, KeyParts DEF Inv, Sound
  <2>3. Locals'
    <3>1. run' = FALSE /\ time' = 0 /\ cur' = 0 /\ 0 \in 0..N /\ tagged' = [t \in Tags |-> {}]
      BY TickerAssumption DEF Stop
    <3>2. tagged' \in [Tags -> SUBSET Timers]
      BY <3>1
    <3>5. run' \in BOOLEAN
      BY <3>1, Zenon
    <3>3. time' \in Int /\ cur' \in 0..N
      BY <3>1
    <3>4. /\ count' \in 0..M /\ since' \in [Timers -> Int]
          /\ pc' \in {"idle", "tick", "tickCall", "loop", "groups", "list", "listCall", "error"}
          /\ cursor' \in Places /\ last' \in Places
          /\ todo' \in SUBSET Diffs /\ v' \in Diffs \cup {0} /\ df' \in Int
          /\ group' \in Int /\ group' <= N /\ loop' \in Int /\ loop' <= N
          /\ own' \in BOOLEAN
      BY <2>1 DEF Inv, Locals, local
    <3> QED
      BY <3>2, <3>3, <3>4, <3>5 DEF Locals
  <2>4. Outside' /\ Cursor'
    BY <1>2, <2>1, <2>2 DEF Inv, Outside, Cursor, local, AllFree
  <2> QED
    BY <2>2, <2>3, <2>4 DEF Inv
<1> QED
  BY <1>1, <1>2

LEMMA TickInv ==
    ASSUME Inv, NEW f \in 0..MaxFrame, NEW e \in 0..MaxFrame, Tick(f, e)
    PROVE  Inv'
<1>0. /\ pc = "idle" /\ pc' = "tick" /\ time' = time + f
      /\ since' = Older(e) /\ cursor' = heap.tick
      /\ UNCHANGED <<heap, tagged, run, cur, count, last, todo, v, df, group, loop,
                     period, left, extra, own, stops>>
  BY DEF Tick, Go
<1>1. Locals'
  <2>2. since' \in [Timers -> Int]
    BY <1>0, OlderIs, TickerAssumption
  <2>3. time' \in Int /\ cursor' \in Places
    BY <1>0, HeapFields, TickerAssumption DEF Inv, Locals, Sound
  <2> QED
    BY <1>0, <2>2, <2>3 DEF Inv, Locals
<1>2. Outside'
  BY <1>0 DEF Inv, Outside, AllFree
<1>3. Cursor'
  BY <1>0 DEF Inv, Cursor, Sound, TickHead
<1> QED
  BY <1>0, <1>1, <1>2, <1>3 DEF Inv

LEMMA CallNextInv ==
    ASSUME Inv, TickStep \/ ListStep
    PROVE  Inv'
<1>0. /\ cursor # Nil
      /\ \/ pc = "tick" /\ pc' = IF heap.call[cursor] THEN "tickCall" ELSE "error"
         \/ pc = "list" /\ pc' = IF heap.call[cursor] THEN "listCall" ELSE "error"
      /\ last' = cursor /\ cursor' = heap.next[cursor]
      /\ UNCHANGED <<wheel, todo, v, df, group, loop, period, left, extra, own, stops>>
  BY DEF TickStep, ListStep, CallNext, Go
<1>1. cursor \in Timers
  BY <1>0 DEF Inv, Locals, Places
<1>2. /\ cursor' \in Places /\ cursor' # cursor
      /\ cursor' # Nil => heap.call[cursor']
  <2>1. cursor' \in Places
    BY <1>0, <1>1, HeapFields DEF Inv, Sound
  <2>2. cursor' # Nil => heap.last[cursor'] = cursor /\ cursor' \in Timers
    BY <1>0, <1>1, <2>1 DEF Inv, Sound, Linking, Places
  <2>3. cursor' # Nil => heap.call[cursor']
    BY <1>0, <1>1, <2>2, TimerNames DEF Inv, Sound, DeadOut
  <2>4. \E u \in {cursor} : heap.last[u] \notin {cursor}
    BY <1>1 DEF Inv, Sound, Grounded
  <2> QED
    BY <1>0, <2>1, <2>2, <2>3, <2>4
<1>3. Locals'
  BY <1>0, <1>1, <1>2 DEF Inv, Locals, wheel, Places
<1>4. Outside'
  BY <1>0 DEF Inv, Outside, wheel, AllFree
<1>5. Cursor'
  BY <1>0, <1>2 DEF Inv, Locals, Cursor, wheel
<1> QED
  BY <1>0, <1>3, <1>4, <1>5 DEF Inv, wheel

LEMMA TickReturnInv == ASSUME Inv, TickReturn PROVE Inv'
<1>0. /\ pc = "tickCall" /\ pc' = "tick"
      /\ UNCHANGED <<wheel, cursor, last, todo, v, df, group, loop, owed, stops>>
  BY DEF TickReturn, Go
<1>1. Locals' /\ Outside' /\ Cursor' /\ heap' = heap
  BY <1>0 DEF Inv, Locals, Outside, Cursor, wheel, owed, AllFree
<1> QED
  BY <1>1 DEF Inv

LEMMA TickEndInv == ASSUME Inv, TickEnd PROVE Inv'
<1>0. /\ cursor = Nil /\ pc = "tick" /\ pc' = "loop"
      /\ group' = AtMost(time \div R, N) /\ loop' = group'
      /\ UNCHANGED <<wheel, cursor, last, todo, v, df, owed, stops>>
  BY DEF TickEnd, Go
<1>1. group' \in Int /\ group' <= N
  <2>1. time \div R \in Int /\ N \in Int
    BY TickerAssumption DEF Inv, Locals
  <2> QED
    BY <1>0, <2>1 DEF AtMost
<1>2. Locals' /\ Outside' /\ Cursor' /\ heap' = heap
  BY <1>0, <1>1 DEF Inv, Locals, Outside, Cursor, wheel, owed, AllFree
<1> QED
  BY <1>2 DEF Inv

LEMMA CallSlotHeap ==
    ASSUME Inv, CallSlot
    PROVE  /\ pc = "loop" /\ pc' = "groups" /\ loop > 0
           /\ heap' = Slotted(heap, cur, count) /\ AllFree(heap)
           /\ todo' = {k[3] : k \in {j \in Here(cur, count) : heap.list[j].head # Nil}}
           /\ UNCHANGED <<tagged, run, time, cur, count, since, cursor, last, v, df, group, loop,
                          owed, stops>>
  BY DEF Inv, Outside, CallSlot, Go, Slotted, Here

LEMMA CallSlotInv == ASSUME Inv, CallSlot PROVE Inv'
<1>0. /\ pc = "loop" /\ pc' = "groups" /\ loop > 0
      /\ heap' = Slotted(heap, cur, count) /\ AllFree(heap)
      /\ todo' = {k[3] : k \in {j \in Here(cur, count) : heap.list[j].head # Nil}}
      /\ UNCHANGED <<tagged, run, time, cur, count, since, cursor, last, v, df, group, loop,
                     owed, stops>>
  BY CallSlotHeap
<1>1. cur \in 0..N /\ count \in 0..M /\ Sound(heap)
  BY DEF Inv, Locals
<1>2. Sound(heap')
  BY <1>0, <1>1, SlottedSound
<1>3. todo' \in SUBSET Diffs
  BY <1>0, <1>1, HereIs
<1>4. Locals'
  BY <1>0, <1>3 DEF Inv, Locals, owed
<1>5. ASSUME NEW d \in Diffs, heap'.list[Taken(d)].head # Nil PROVE d \in todo'
  <2>1. heap'.list[Taken(d)] = IF cur # 0 THEN heap.list[<<cur, count, d>>] ELSE heap.list[Taken(d)]
    <3>1. /\ Taken(d) \in Keys /\ Taken(d)[1] = 0 /\ Taken(d)[3] = d
          /\ cur = 0 => Taken(d) \notin Here(cur, count)
      BY KeyParts DEF Here
    <3> QED
      BY <1>0, <1>1, <3>1, SlottedIs DEF Sound
  <2>2. cur # 0 /\ heap.list[<<cur, count, d>>].head # Nil
    BY <1>0, <1>5, <2>1 DEF AllFree
  <2>3. <<cur, count, d>> \in Here(cur, count) /\ <<cur, count, d>>[3] = d
    BY <1>1, <2>2, KeyParts DEF Here
  <2> QED
    BY <1>0, <2>2, <2>3
<1>6. Outside'
  BY <1>0, <1>5 DEF Outside
<1>7. Cursor'
  BY <1>0 DEF Inv, Cursor
<1> QED
  BY <1>2, <1>4, <1>6, <1>7 DEF Inv

LEMMA ListStartInv == ASSUME Inv, ListStart PROVE Inv'
<1>0. PICK d \in todo :
      /\ pc = "groups" /\ pc' = "list" /\ todo' = todo \ {d} /\ v' = d
      /\ cursor' = heap.list[Taken(d)].head
      /\ df' = IF CanSkip /\ run /\ heap.list[Taken(d)].head # Nil
               THEN since[heap.list[Taken(d)].head] ELSE 0
      /\ UNCHANGED <<wheel, last, group, loop, owed, stops>>
  BY DEF ListStart, Go
<1>1. d \in Diffs /\ Taken(d) \in Keys
  BY KeyParts DEF Inv, Locals
<1>2. cursor' \in Places /\ (cursor' # Nil => cursor' \in Timers /\ heap.call[cursor'])
  <2>1. cursor' \in Places
    BY <1>0, <1>1, HeapFields DEF Inv, Sound
  <2>2. cursor' # Nil => cursor' \in Timers /\ heap.group[cursor'] # Nil
    BY <1>0, <1>1, <2>1, TimerNames DEF Inv, Sound, EndsIn, Places
  <2> QED
    BY <2>1, <2>2 DEF Inv, Sound, DeadOut
<1>3. df' \in Int
  <2>1. since \in [Timers -> Int]
    BY DEF Inv, Locals
  <2>2. df' = IF CanSkip /\ run /\ cursor' # Nil THEN since[cursor'] ELSE 0
    BY <1>0
  <2> QED
    BY <1>2, <2>1, <2>2
<1>4. Locals'
  BY <1>0, <1>1, <1>2, <1>3 DEF Inv, Locals, wheel, owed
<1>5. Outside'
  BY <1>0, <1>1 DEF Inv, Outside, wheel
<1>6. Cursor'
  BY <1>0, <1>2 DEF Inv, Cursor, wheel
<1> QED
  BY <1>0, <1>4, <1>5, <1>6 DEF Inv, wheel

LEMMA ListReturnInv == ASSUME Inv, ListReturn PROVE Inv'
<1>0. /\ pc = "listCall" /\ pc' = "list"
      /\ since' = [since EXCEPT ![last] = IF run THEN 0 ELSE Since(MaxSince)]
      /\ UNCHANGED <<heap, tagged, run, time, cur, count, cursor, last, todo, v, df, group,
                     loop, owed, stops>>
  BY DEF ListReturn, Go
<1>1. since' \in [Timers -> Int]
  <2>1. since \in [Timers -> Int]
    BY DEF Inv, Locals
  <2>2. last \in Timers
    BY <1>0 DEF Inv, Locals, Cursor, Places
  <2>3. Since(MaxSince) \in Int
    BY SinceInt, TickerAssumption
  <2> QED
    BY <1>0, <2>1, <2>2, <2>3
<1>2. Locals' /\ Outside' /\ Cursor'
  BY <1>0, <1>1 DEF Inv, Locals, Outside, Cursor, owed
<1> QED
  BY <1>0, <1>2 DEF Inv

LEMMA OverInt == ASSUME df \in Int, v \in Diffs PROVE Over \in Int
<1>1. N \in Nat \ {0} /\ R \in Nat \ {0} /\ v \in Nat
  BY TickerAssumption, KeyParts
<1>2. N * R \in Nat /\ N * R # 0 /\ v * R \in Nat
  BY <1>1
<1>3. (df - v * R) \div (N * R) \in Int
  BY <1>2
<1> QED
  BY <1>3 DEF Over

LEMMA ListEndHeap ==
    ASSUME Inv, ListEnd
    PROVE  /\ cursor = Nil /\ pc = "list" /\ pc' = "groups" /\ v \in Diffs /\ Over \in Int
           /\ SlotOf(cur, count, v, Over) \in Keys /\ SlotOf(cur, count, v, Over)[1] # 0
           /\ SlotOf(cur, count, v, Over)[3] = v
           /\ IF heap.list[Taken(v)].head = Nil THEN heap' = heap
              ELSE IsMoved(heap', heap, Taken(v), SlotOf(cur, count, v, Over))
           /\ extra' = [t \in Timers |-> IF heap.group[t] = Taken(v) THEN Over * N ELSE extra[t]]
           /\ UNCHANGED <<tagged, run, time, cur, count, since, cursor, last, todo, v, df, group,
                          loop, period, left, rung, own, stops>>
<1>0. /\ cursor = Nil /\ pc = "list" /\ pc' = "groups"
      /\ heap' = IF heap.list[Taken(v)].head = Nil THEN heap
                 ELSE Linked(Freed(heap, Taken(v)), heap.list[Taken(v)].head, SlotOf(cur, count, v, Over))
      /\ extra' = [t \in Timers |-> IF heap.group[t] = Taken(v) THEN Over * N ELSE extra[t]]
      /\ UNCHANGED <<tagged, run, time, cur, count, since, cursor, last, todo, v, df, group,
                     loop, period, left, rung, own, stops>>
  BY DEF ListEnd, Go, Freed
<1>1. v \in Diffs /\ Taken(v) \in Keys /\ Taken(v)[1] = 0
  BY <1>0, KeyParts DEF Inv, Outside
<1>2. Over \in Int
  BY <1>1, OverInt DEF Inv, Locals
<1>3. /\ SlotOf(cur, count, v, Over) \in Keys /\ SlotOf(cur, count, v, Over)[1] # 0
      /\ SlotOf(cur, count, v, Over)[3] = v
  BY <1>1, <1>2, SlotIsKey DEF Inv, Locals
<1>4. heap.list[Taken(v)].head # Nil => IsMoved(heap', heap, Taken(v), SlotOf(cur, count, v, Over))
  BY <1>0, <1>1, <1>3, Moved DEF Inv
<1> QED
  BY <1>0, <1>1, <1>2, <1>3, <1>4

LEMMA ListEndInv == ASSUME Inv, ListEnd PROVE Inv'
<1> DEFINE k == SlotOf(cur, count, v, Over)
<1>0. /\ cursor = Nil /\ pc = "list" /\ pc' = "groups" /\ v \in Diffs
      /\ k \in Keys /\ k[1] # 0
      /\ IF heap.list[Taken(v)].head = Nil THEN heap' = heap
         ELSE IsMoved(heap', heap, Taken(v), k)
      /\ UNCHANGED <<tagged, run, time, cur, count, since, cursor, last, todo, v, df, group,
                     loop, period, left, rung, own, stops>>
  BY ListEndHeap
<1> HIDE DEF k
<1>1. Sound(heap')
  BY <1>0 DEF Inv, IsMoved
<1>2. \A d \in Diffs : d \in todo \/ heap'.list[Taken(d)].head = Nil
  <2> TAKE d \in Diffs
  <2>1. Taken(d) \in Keys /\ Taken(d) # k /\ (Taken(d) = Taken(v) => d = v)
    BY <1>0, KeyParts
  <2> QED
    BY <1>0, <2>1 DEF Inv, Outside, IsMoved
<1>3. Outside' /\ Cursor' /\ Locals'
  BY <1>0, <1>2 DEF Outside, Cursor, Inv, Locals
<1> QED
  BY <1>1, <1>3 DEF Inv

LEMMA AdvanceStep ==
    ASSUME Inv, Advance
    PROVE  /\ todo = {} /\ pc = "groups" /\ pc' = "loop" /\ cur' \in 0..N /\ count' \in 0..M
           /\ cur' = (IF cur = N THEN 1 ELSE cur + 1)
           /\ count' = (IF cur = N THEN GroupCountConstraint(count + 1) ELSE count)
           /\ loop' = loop - 1
           /\ UNCHANGED <<heap, tagged, run, time, since, cursor, last, todo, v, df, group, period,
                          own, stops>>
<1>0. /\ todo = {} /\ pc = "groups" /\ pc' = "loop" /\ cur' = NextGroupId(cur, 1)[1]
      /\ count' = (IF cur = N THEN GroupCountConstraint(count + 1) ELSE count)
      /\ loop' = loop - 1
      /\ UNCHANGED <<heap, tagged, run, time, since, cursor, last, todo, v, df, group, period,
                     own, stops>>
  BY DEF Advance, Go
<1>1. N \in Nat \ {0} /\ cur \in 0..N /\ count \in 0..M /\ M \in Nat
  BY TickerAssumption DEF Inv, Locals
<1>2. NextGroupId(cur, 1)[1] = IF cur = N THEN 1 ELSE cur + 1
  BY <1>1 DEF NextGroupId
<1>3. cur' \in 0..N
  BY <1>0, <1>1, <1>2
<1>4. GroupCountConstraint(count + 1) \in 0..M
  BY <1>1, CountIsCount
<1>5. count' \in 0..M
  BY <1>0, <1>1, <1>4
<1> QED
  BY <1>0, <1>2, <1>3, <1>5

LEMMA AdvanceInv == ASSUME Inv, Advance PROVE Inv'
<1>0. /\ todo = {} /\ pc = "groups" /\ pc' = "loop" /\ cur' \in 0..N /\ count' \in 0..M
      /\ loop' = loop - 1
      /\ UNCHANGED <<heap, tagged, run, time, since, cursor, last, todo, v, df, group, period,
                     own, stops>>
  BY AdvanceStep
<1>1. loop' \in Int /\ loop' <= N
  BY <1>0, TickerAssumption DEF Inv, Locals
<1>2. Locals' /\ Outside' /\ Cursor'
  BY <1>0, <1>1 DEF Inv, Locals, Outside, Cursor, AllFree
<1> QED
  BY <1>0, <1>2 DEF Inv

LEMMA LoopEndInv == ASSUME Inv, LoopEnd PROVE Inv'
<1>0. /\ pc = "loop" /\ pc' = "idle" /\ time' = time - group * R
      /\ last' = Nil /\ v' = 0 /\ df' = 0 /\ group' = 0 /\ own' = TRUE
      /\ UNCHANGED <<heap, tagged, run, cur, count, since, cursor, todo, loop, period, left,
                     rung, extra, stops>>
  BY DEF LoopEnd, Go
<1>1. time' \in Int /\ group' \in Int /\ group' <= N
  BY <1>0, TickerAssumption DEF Inv, Locals
<1>2. Locals' /\ Outside' /\ Cursor'
  BY <1>0, <1>1 DEF Inv, Locals, Outside, Cursor, AllFree, Places
<1> QED
  BY <1>0, <1>2 DEF Inv

LEMMA NextInv == ASSUME Inv, [Next]_vars PROVE Inv'
<1>1. CASE UNCHANGED vars
  BY <1>1 DEF Inv, Locals, Outside, Cursor, AllFree, vars, wheel, local, owed
<1>2. CASE Api
  BY <1>2, SetTickInv, RemoveTimerByTagInv, SetTimerInv, RemoveTimerInv, StopInv DEF Api
<1>3. CASE \E f, e \in 0..MaxFrame : Tick(f, e)
  BY <1>3, TickInv
<1>4. CASE TickStep \/ ListStep
  BY <1>4, CallNextInv
<1>6. CASE Inside /\ ~TickStep /\ ~ListStep
  BY <1>6, TickReturnInv, TickEndInv, CallSlotInv, ListStartInv, ListReturnInv, ListEndInv,
     AdvanceInv, LoopEndInv DEF Inside
<1>7. CASE Raised
  BY <1>1, <1>7 DEF Raised
<1> QED
  BY <1>1, <1>2, <1>3, <1>4, <1>6, <1>7 DEF Next, Inside

-----------------------------------------------------------------------------
(* Theorems. *)

LEMMA Always == Spec => []Inv
<1>1. Init => Inv
  BY InitInv
<1>2. Inv /\ [Next]_vars => Inv'
  BY NextInv
<1> QED
  BY <1>1, <1>2, PTL DEF Spec

LEMMA InvLinked == ASSUME Inv PROVE WellLinked
<1>0. Sound(heap) /\ heap \in Heaps
  BY DEF Inv, Sound
<1>1. TypeOK
  <2>1. /\ heap.next \in [Timers -> Timers \cup {Nil}] /\ heap.last \in [Timers -> Timers \cup {Nil}]
        /\ heap.group \in [Timers -> Keys \cup {Nil, Orphan}] /\ heap.call \in [Timers -> BOOLEAN]
        /\ heap.list \in [Keys -> [head : Timers \cup {Nil}, tail : Timers \cup {Nil}]]
        /\ heap.tick \in Timers \cup {Nil}
    BY <1>0, HeapFields DEF Places
  <2> QED
    BY <2>1 DEF TypeOK, Inv, Locals, Places
<1>2. ASSUME NEW k \in Keys
      PROVE  IsList(heap.list[k].head, heap.list[k].tail, {t \in Timers : heap.group[t] = k})
  <2>1. Chain(heap, heap.list[k].head) = {t \in Timers : heap.group[t] = k}
    BY <1>0, ChainIsGroup
  <2>2. ASSUME NEW t \in Timers, heap.group[t] = k
        PROVE  heap.call[t] /\ (heap.next[t] # Nil => heap.last[heap.next[t]] = t)
    BY <1>0, <2>2, TimerNames DEF Sound, DeadOut, Linking
  <2>3. (heap.list[k].head = Nil <=> heap.list[k].tail = Nil)
        /\ (heap.list[k].head # Nil =>
              heap.last[heap.list[k].head] = Nil /\ heap.next[heap.list[k].tail] = Nil)
    BY <1>0 DEF Sound, EndsIn
  <2> QED
    BY <2>1, <2>2, <2>3 DEF IsList
<1>3. ASSUME NEW t \in Chain(heap, heap.tick)
      PROVE  /\ heap.call[t] /\ heap.group[t] = Nil
             /\ heap.next[t] # Nil => heap.last[heap.next[t]] = t
  <2> DEFINE P == {u \in Timers : heap.call[u] /\ heap.group[u] = Nil} \cup {Nil}
  <2>1. heap.tick \in P /\ Nil \in P /\ P \in SUBSET Places /\ heap.tick \in Places
    BY <1>0, HeapFields DEF Sound, TickHead, Places
  <2>2. \A u \in P : u # Nil => heap.next[u] \in P
    <3> TAKE u \in P
    <3> SUFFICES ASSUME u # Nil, heap.next[u] # Nil PROVE heap.next[u] \in P
      OBVIOUS
    <3>1. u \in Timers /\ heap.group[u] = Nil
      OBVIOUS
    <3>2. heap.next[u] \in Timers /\ heap.last[heap.next[u]] = u /\ heap.group[heap.next[u]] = Nil
      BY <1>0, <3>1, HeapFields DEF Sound, Linking, Places
    <3>3. heap.call[heap.next[u]]
      BY <1>0, <3>1, <3>2, TimerNames DEF Sound, DeadOut
    <3> QED
      BY <3>2, <3>3
  <2> HIDE DEF P
  <2>3. t \in P \ {Nil}
    BY <1>0, <2>1, <2>2, ChainStays
  <2>4. t \in Timers /\ heap.call[t] /\ heap.group[t] = Nil
    BY <2>3 DEF P
  <2> QED
    BY <1>0, <2>4 DEF Sound, Linking
<1> QED
  BY <1>1, <1>2, <1>3 DEF WellLinked

\* Whatever callbacks add or remove while a list is walked, each live timer is in
\* one list, and the list's links agree (Ticker.lua:209-236, :271-294).
THEOREM ListsStayLinked == Spec => []WellLinked
<1>1. Inv => WellLinked
  BY InvLinked
<1> QED
  BY <1>1, Always, PTL

\* A walk calls nil only after a callback of the same Tick took out another timer
\* than its own (Ticker.lua:90-91, :123-124).
THEOREM WalksCallTimers == Spec => []NoNilCall
<1>1. Inv => NoNilCall
  BY DEF Inv, Cursor, NoNilCall
<1> QED
  BY <1>1, Always, PTL

-----------------------------------------------------------------------------
(* Walks.  F is the number of calls of each timer so far, g says which list. *)

\* What is behind an uncalled timer is uncalled,
Falling(h, F, g) == \A t \in Timers :
    h.call[t] /\ h.group[t] = g /\ F[t] = 0 /\ h.next[t] # Nil => F[h.next[t]] = 0

\* and the first uncalled timer is the one the walk goes on with.
Front(h, F, c, g) == c = Nil \/ h.call[c] => \A t \in Timers :
    h.call[t] /\ h.group[t] = g /\ F[t] = 0 => t = c \/ (h.last[t] # Nil /\ F[h.last[t]] = 0)

Walked(h, F, c, g) == Falling(h, F, g) /\ Front(h, F, c, g)

\* Timers with a neighbour are in the ticker; so are those of a list.
LEMMA NeighboursLive ==
    ASSUME NEW h, Sound(h), NEW t \in Timers
    PROVE  /\ h.next[t] # Nil => /\ h.call[t] /\ h.next[t] \in Timers /\ h.call[h.next[t]]
                                 /\ h.last[h.next[t]] = t /\ h.group[h.next[t]] = h.group[t]
                                 /\ h.next[t] # t
           /\ h.last[t] # Nil => /\ h.call[t] /\ h.last[t] \in Timers /\ h.call[h.last[t]]
                                 /\ h.next[h.last[t]] = t /\ h.group[h.last[t]] = h.group[t]
                                 /\ h.last[t] # t
           /\ h.group[t] \in Keys => h.call[t]
<1>1. /\ h.next[t] \in Places /\ h.last[t] \in Places /\ DeadOut(h) /\ Linking(h)
  BY HeapFields DEF Sound
<1>2. h.last[t] # t
  <2>1. \E u \in {t} : h.last[u] \notin {t}
    BY DEF Sound, Grounded
  <2> QED BY <2>1
<1>3. ASSUME h.next[t] # Nil
      PROVE  /\ h.call[t] /\ h.next[t] \in Timers /\ h.call[h.next[t]]
             /\ h.last[h.next[t]] = t /\ h.group[h.next[t]] = h.group[t] /\ h.next[t] # t
  BY <1>1, <1>2, <1>3, TimerNames DEF Places, DeadOut, Linking
<1>4. ASSUME h.last[t] # Nil
      PROVE  /\ h.call[t] /\ h.last[t] \in Timers /\ h.call[h.last[t]]
             /\ h.next[h.last[t]] = t /\ h.group[h.last[t]] = h.group[t]
  <2>1. /\ h.call[t] /\ h.last[t] \in Timers /\ h.next[h.last[t]] = t
    BY <1>1, <1>4 DEF Places, DeadOut, Linking
  <2>2. t # Nil
    BY TimerNames
  <2> QED BY <1>1, <2>1, <2>2 DEF DeadOut, Linking
<1>5. h.group[t] \in Keys => h.call[t]
  BY <1>1, TimerNames DEF DeadOut
<1> QED BY <1>2, <1>3, <1>4, <1>5

\* A walk begins at the only timer of its list without predecessor.
LEMMA WalkBegins ==
    ASSUME NEW h, Sound(h), NEW F \in [Timers -> Nat], NEW c, NEW g,
           \A t \in Timers : h.call[t] /\ h.group[t] = g => F[t] = 0,
           \A t \in Timers : h.call[t] /\ h.group[t] = g /\ h.last[t] = Nil => t = c
    PROVE  Walked(h, F, c, g)
<1>1. Falling(h, F, g)
  <2> SUFFICES ASSUME NEW t \in Timers, h.call[t], h.group[t] = g, h.next[t] # Nil
               PROVE  F[h.next[t]] = 0
    BY DEF Falling
  <2> QED BY NeighboursLive
<1>2. Front(h, F, c, g)
  <2> SUFFICES ASSUME NEW t \in Timers, h.call[t], h.group[t] = g, t # c
               PROVE  h.last[t] # Nil /\ F[h.last[t]] = 0
    BY DEF Front
  <2>1. h.last[t] # Nil
    OBVIOUS
  <2> QED BY <2>1, NeighboursLive
<1> QED BY <1>1, <1>2 DEF Walked

\* It goes on with the successor of the one it calls,
LEMMA WalkGoesOn ==
    ASSUME NEW h, Sound(h), NEW F \in [Timers -> Nat], NEW c \in Timers, NEW g,
           h.call[c], h.group[c] = g, F[c] = 0, Walked(h, F, c, g),
           NEW G \in [Timers -> Nat], G[c] = F[c] + 1,
           \A t \in Timers : t # c => G[t] = F[t]
    PROVE  /\ Walked(h, G, h.next[c], g)
           /\ h.next[c] # Nil => /\ h.next[c] \in Timers /\ h.call[h.next[c]]
                                 /\ h.group[h.next[c]] = g /\ G[h.next[c]] = 0
<1> DEFINE n == h.next[c]
           W == {t \in Timers : h.call[t] /\ h.group[t] = g /\ F[t] = 0}
<1>1. G[c] # 0 /\ \A t \in Timers : t # c => G[t] = F[t]
  OBVIOUS
<1>2. \A t \in W : t # c => h.last[t] \in W
  <2> SUFFICES ASSUME NEW t \in W, t # c PROVE h.last[t] \in W
    OBVIOUS
  <2>1. h.last[t] # Nil /\ F[h.last[t]] = 0
    BY DEF Walked, Front
  <2> QED BY <2>1, NeighboursLive
<1>3. c \in W
  OBVIOUS
<1>4. h.last[c] \notin W
  <2>1. \E t \in W : h.last[t] \notin W
    <3>1. W \in SUBSET Timers
      OBVIOUS
    <3>2. Grounded(h)
      BY DEF Sound
    <3> HIDE DEF W
    <3> QED BY <3>1, <3>2, <1>3 DEF Grounded
  <2> QED BY <2>1, <1>2
<1>5. ASSUME n # Nil
      PROVE  n \in Timers /\ h.call[n] /\ h.group[n] = g /\ G[n] = 0
  <2>1. n \in Timers /\ h.call[n] /\ h.group[n] = g /\ n # c
    BY <1>5, NeighboursLive
  <2>2. F[n] = 0
    BY <1>5 DEF Walked, Falling
  <2> QED BY <2>1, <2>2, <1>1
<1>6. Falling(h, G, g)
  <2> SUFFICES ASSUME NEW t \in Timers, h.call[t], h.group[t] = g, G[t] = 0, h.next[t] # Nil
               PROVE  G[h.next[t]] = 0
    BY DEF Falling
  <2>1. t # c /\ F[t] = 0
    BY <1>1
  <2>2. F[h.next[t]] = 0
    BY <2>1 DEF Walked, Falling
  <2>3. h.next[t] \in Timers /\ h.last[h.next[t]] = t
    BY NeighboursLive
  <2>4. h.next[t] # c
    BY <2>1, <2>3, <1>4
  <2> QED BY <2>2, <2>3, <2>4, <1>1
<1>7. Front(h, G, n, g)
  <2> SUFFICES ASSUME NEW t \in Timers, h.call[t], h.group[t] = g, G[t] = 0, t # n
               PROVE  h.last[t] # Nil /\ G[h.last[t]] = 0
    BY DEF Front
  <2>1. t # c /\ F[t] = 0
    BY <1>1
  <2>2. h.last[t] # Nil /\ F[h.last[t]] = 0
    BY <2>1 DEF Walked, Front
  <2>3. h.last[t] \in Timers /\ h.next[h.last[t]] = t
    BY <2>2, NeighboursLive
  <2>4. h.last[t] # c
    BY <2>3
  <2> QED BY <2>2, <2>3, <2>4, <1>1
<1> QED BY <1>5, <1>6, <1>7 DEF Walked

\* and when it has no timer to go on with, it has called all.
LEMMA WalkIsDone ==
    ASSUME NEW h, Sound(h), NEW F \in [Timers -> Nat], NEW g, Walked(h, F, Nil, g)
    PROVE  \A t \in Timers : h.call[t] /\ h.group[t] = g => F[t] # 0
<1> DEFINE W == {t \in Timers : h.call[t] /\ h.group[t] = g /\ F[t] = 0}
<1>1. \A t \in W : h.last[t] \in W
  <2> SUFFICES ASSUME NEW t \in W PROVE h.last[t] \in W
    OBVIOUS
  <2>1. t # Nil
    BY TimerNames
  <2>2. h.last[t] # Nil /\ F[h.last[t]] = 0
    BY <2>1 DEF Walked, Front
  <2> QED BY <2>2, NeighboursLive
<1>2. W \in SUBSET Timers /\ Grounded(h)
  BY DEF Sound
<1>3. W = {}
  <2> HIDE DEF W
  <2> QED BY <1>1, <1>2 DEF Grounded
<1> QED BY <1>3

\* Removing a timer does not disturb a walk, unless it is the one it goes on with,
LEMMA RemovedWalked ==
    ASSUME NEW h, Sound(h), NEW F, NEW c \in Places, NEW g, Walked(h, F, c, g), NEW s \in Timers
    PROVE  Walked(Removed(h, s), F, c, g)
<1> DEFINE x == Removed(h, s)
<1> HIDE DEF x
<1>1. IsRemoved(x, h, s)
  BY RemovedIs DEF x
<1>2. \A t \in Timers : x.call[t] => t # s /\ h.call[t] /\ x.group[t] = h.group[t]
  BY <1>1 DEF IsRemoved
<1>3. Falling(x, F, g)
  <2> SUFFICES ASSUME NEW t \in Timers, x.call[t], x.group[t] = g, F[t] = 0, x.next[t] # Nil
               PROVE  F[x.next[t]] = 0
    BY DEF Falling
  <2>1. t # s /\ h.call[t] /\ h.group[t] = g
    BY <1>2
  <2>2. x.next[t] = IF t = h.last[s] THEN h.next[s] ELSE h.next[t]
    BY <2>1, <1>1 DEF IsRemoved
  <2>3. CASE t = h.last[s]
    <3>1. t # Nil
      BY TimerNames
    <3>2. h.next[t] = s /\ h.call[s] /\ h.group[s] = g /\ s # Nil
      BY <2>1, <2>3, <3>1, NeighboursLive, TimerNames
    <3>3. F[s] = 0
      BY <2>1, <3>2 DEF Walked, Falling
    <3> QED BY <2>2, <2>3, <3>2, <3>3 DEF Walked, Falling
  <2>4. CASE t # h.last[s]
    BY <2>1, <2>2, <2>4 DEF Walked, Falling
  <2> QED BY <2>3, <2>4
<1>4. Front(x, F, c, g)
  <2> SUFFICES ASSUME c = Nil \/ x.call[c],
                      NEW t \in Timers, x.call[t], x.group[t] = g, F[t] = 0, t # c
               PROVE  x.last[t] # Nil /\ F[x.last[t]] = 0
    BY DEF Front
  <2>1. t # s /\ h.call[t] /\ h.group[t] = g
    BY <1>2
  <2>2. x.last[t] = IF t = h.next[s] THEN h.last[s] ELSE h.last[t]
    BY <2>1, <1>1 DEF IsRemoved
  <2>3. c = Nil \/ h.call[c]
    BY <1>2 DEF Places
  <2>4. c # s
    <3>1. ~x.call[s]
      BY <1>2
    <3> QED BY <3>1, TimerNames
  <2>5. \A u \in Timers : h.call[u] /\ h.group[u] = g /\ F[u] = 0 /\ u # c =>
            h.last[u] # Nil /\ F[h.last[u]] = 0
    BY <2>3 DEF Walked, Front
  <2>6. CASE t = h.next[s]
    <3>1. h.next[s] # Nil
      BY <2>6, TimerNames
    <3>2. h.last[t] = s /\ h.call[s] /\ h.group[s] = g
      BY <2>1, <2>6, <3>1, NeighboursLive
    <3>3. F[s] = 0
      BY <2>1, <2>5, <3>2
    <3> QED BY <2>2, <2>4, <2>5, <2>6, <3>2, <3>3
  <2>7. CASE t # h.next[s]
    BY <2>1, <2>2, <2>5, <2>7
  <2> QED BY <2>6, <2>7
<1> QED BY <1>3, <1>4 DEF Walked, x

LEMMA RemovedAllWalked ==
    ASSUME NEW h, Sound(h), NEW F, NEW c \in Places, NEW g, Walked(h, F, c, g),
           NEW S \in SUBSET Timers
    PROVE  Walked(RemovedAll(h, S), F, c, g)
<1> DEFINE P == {x \in Heaps : Sound(x) /\ Walked(x, F, c, g)}
<1>1. h \in P
  BY DEF Sound
<1>2. \A x \in P, t \in S : Removed(x, t) \in P
  <2> SUFFICES ASSUME NEW x \in P, NEW t \in S PROVE Removed(x, t) \in P
    OBVIOUS
  <2>1. Sound(Removed(x, t))
    BY RemovedSound
  <2>2. Walked(Removed(x, t), F, c, g)
    BY RemovedWalked
  <2>3. Removed(x, t) \in Heaps
    BY <2>1 DEF Sound
  <2> QED BY <2>1, <2>2, <2>3
<1>3. RemovedAll(h, S) \in P
  <2> HIDE DEF P
  <2> QED BY <1>1, <1>2, RemovedAllKeeps
<1> QED BY <1>3

\* nor does adding one, at the end of another list
LEMMA EnteredWalked ==
    ASSUME NEW h, Sound(h), NEW F \in [Timers -> Nat], NEW c \in Places, NEW g,
           Walked(h, F, c, g),
           NEW t \in Timers, ~h.call[t], t # c, NEW k \in Keys, k # g, NEW x,
           IsEntered(x, h, t, k), NEW n \in Nat
    PROVE  Walked(x, [F EXCEPT ![t] = n], c, g)
<1> DEFINE G == [F EXCEPT ![t] = n]
<1>1. \A u \in Timers : u # t => G[u] = F[u]
  OBVIOUS
<1>2. h.next[t] = Nil /\ h.last[t] = Nil
  BY DEF Sound, DeadOut
<1>3. \A u \in Timers : h.list[k].tail = u => h.group[u] = k
  BY TimerNames DEF Sound, EndsIn
<1>4. \A u \in Timers : x.call[u] /\ x.group[u] = g =>
         /\ u # t /\ h.call[u] /\ h.group[u] = g
         /\ x.last[u] = h.last[u] /\ x.next[u] = h.next[u]
  <2> SUFFICES ASSUME NEW u \in Timers, x.call[u], x.group[u] = g
               PROVE  /\ u # t /\ h.call[u] /\ h.group[u] = g
                      /\ x.last[u] = h.last[u] /\ x.next[u] = h.next[u]
    OBVIOUS
  <2>1. u # t /\ h.call[u] /\ h.group[u] = g /\ x.last[u] = h.last[u]
    BY DEF IsEntered
  <2>2. u # h.list[k].tail
    BY <2>1, <1>3
  <2> QED BY <2>1, <2>2 DEF IsEntered
<1>5. Falling(x, G, g)
  <2> SUFFICES ASSUME NEW u \in Timers, x.call[u], x.group[u] = g, G[u] = 0, x.next[u] # Nil
               PROVE  G[x.next[u]] = 0
    BY DEF Falling
  <2>1. u # t /\ h.call[u] /\ h.group[u] = g /\ F[u] = 0 /\ x.next[u] = h.next[u]
    BY <1>1, <1>4
  <2>2. F[h.next[u]] = 0
    BY <2>1 DEF Walked, Falling
  <2>3. h.next[u] \in Timers /\ h.next[u] # t
    BY <2>1, NeighboursLive
  <2> QED BY <1>1, <2>1, <2>2, <2>3
<1>6. Front(x, G, c, g)
  <2> SUFFICES ASSUME c = Nil \/ x.call[c],
                      NEW u \in Timers, x.call[u], x.group[u] = g, G[u] = 0, u # c
               PROVE  x.last[u] # Nil /\ G[x.last[u]] = 0
    BY DEF Front
  <2>1. u # t /\ h.call[u] /\ h.group[u] = g /\ F[u] = 0 /\ x.last[u] = h.last[u]
    BY <1>1, <1>4
  <2>2. c = Nil \/ h.call[c]
    BY DEF Places, IsEntered
  <2>3. h.last[u] # Nil /\ F[h.last[u]] = 0
    BY <2>1, <2>2 DEF Walked, Front
  <2>4. h.last[u] \in Timers /\ h.last[u] # t
    BY <2>3, NeighboursLive
  <2> QED BY <1>1, <2>1, <2>3, <2>4
<1> QED BY <1>5, <1>6 DEF Walked

\* or at the head of the list of timers without period.
LEMMA TickedWalked ==
    ASSUME NEW h, Sound(h), NEW F \in [Timers -> Nat], NEW c \in Places, NEW g,
           Walked(h, F, c, g),
           NEW t \in Timers, ~h.call[t], t # c, NEW x, IsTicked(x, h, t)
    PROVE  Walked(x, [F EXCEPT ![t] = 1], c, g)
<1> DEFINE G == [F EXCEPT ![t] = 1]
<1>1. G[t] = 1 /\ \A u \in Timers : u # t => G[u] = F[u]
  OBVIOUS
<1>2. Falling(x, G, g)
  <2> SUFFICES ASSUME NEW u \in Timers, x.call[u], x.group[u] = g, G[u] = 0, x.next[u] # Nil
               PROVE  G[x.next[u]] = 0
    BY DEF Falling
  <2>1. u # t /\ F[u] = 0
    BY <1>1
  <2>2. h.call[u] /\ h.group[u] = g /\ x.next[u] = h.next[u]
    BY <2>1 DEF IsTicked
  <2>3. F[h.next[u]] = 0
    BY <2>1, <2>2 DEF Walked, Falling
  <2>4. h.next[u] \in Timers /\ h.next[u] # t
    BY <2>2, NeighboursLive
  <2> QED BY <1>1, <2>2, <2>3, <2>4
<1>3. Front(x, G, c, g)
  <2> SUFFICES ASSUME c = Nil \/ x.call[c],
                      NEW u \in Timers, x.call[u], x.group[u] = g, G[u] = 0, u # c
               PROVE  x.last[u] # Nil /\ G[x.last[u]] = 0
    BY DEF Front
  <2>1. u # t /\ F[u] = 0
    BY <1>1
  <2>2. h.call[u] /\ h.group[u] = g
    BY <2>1 DEF IsTicked
  <2>3. c = Nil \/ h.call[c]
    BY DEF Places, IsTicked
  <2>4. h.last[u] # Nil /\ F[h.last[u]] = 0
    BY <2>1, <2>2, <2>3 DEF Walked, Front
  <2>5. h.last[u] \in Timers /\ h.last[u] # t
    BY <2>4, NeighboursLive
  <2>6. u # h.tick
    BY <2>4, TimerNames DEF Sound, TickHead
  <2>7. x.last[u] = h.last[u]
    BY <2>6 DEF IsTicked
  <2> QED BY <1>1, <2>4, <2>5, <2>7
<1> QED BY <1>2, <1>3 DEF Walked

-----------------------------------------------------------------------------
(* Timers without period. *)

\* The only one without predecessor is the head of their list.
OneHead(h) == \A t \in Timers :
    h.call[t] /\ h.group[t] = Nil /\ h.last[t] = Nil => t = h.tick

\* A timer is in a list of its period.
Filed(h, P) == \A t \in Timers : h.call[t] =>
    IF P[t] = 0 THEN h.group[t] = Nil ELSE h.group[t] \in Keys /\ h.group[t][3] = P[t]

Counted(P, F) == \A t \in Timers : P[t] = 0 => F[t] <= 1

InTick ==
    pc \in {"tick", "tickCall"} =>
       /\ Walked(heap, rung, cursor, Nil)
       /\ cursor # Nil => period[cursor] = 0 /\ rung[cursor] = 0

AfterTick ==
    pc \in {"loop", "groups", "list", "listCall"} =>
       /\ \A t \in Timers : heap.call[t] /\ period[t] = 0 => rung[t] = 1
       /\ cursor # Nil => period[cursor] # 0

Frames ==
    /\ period \in [Timers -> Nat] /\ rung \in [Timers -> Nat]
    /\ OneHead(heap) /\ Filed(heap, period) /\ Counted(period, rung)
    /\ InTick /\ AfterTick

LEMMA RemovedOneHead ==
    ASSUME NEW h, Sound(h), OneHead(h), NEW s \in Timers
    PROVE  OneHead(Removed(h, s))
<1> DEFINE x == Removed(h, s)
<1> HIDE DEF x
<1>1. IsRemoved(x, h, s)
  BY RemovedIs DEF x
<1> SUFFICES ASSUME NEW t \in Timers, x.call[t], x.group[t] = Nil, x.last[t] = Nil
             PROVE  t = x.tick
  BY DEF OneHead, x
<1>2. t # s /\ h.call[t] /\ h.group[t] = Nil
  BY <1>1 DEF IsRemoved
<1>3. x.last[t] = (IF t = h.next[s] THEN h.last[s] ELSE h.last[t])
  BY <1>1, <1>2 DEF IsRemoved
<1>4. x.tick = IF h.tick = s THEN h.next[s] ELSE h.tick
  BY <1>1 DEF IsRemoved
<1>5. CASE t = h.next[s]
  <2>1. h.next[s] # Nil
    BY <1>5, TimerNames
  <2>2. h.call[s] /\ h.group[s] = Nil /\ h.last[s] = Nil
    BY <1>2, <1>3, <1>5, <2>1, NeighboursLive
  <2>3. s = h.tick
    BY <2>2 DEF OneHead
  <2> QED BY <1>4, <1>5, <2>3
<1>6. CASE t # h.next[s]
  <2>1. t = h.tick
    BY <1>2, <1>3, <1>6 DEF OneHead
  <2> QED BY <1>2, <1>4, <2>1
<1> QED BY <1>5, <1>6

LEMMA RemovedAllOneHead ==
    ASSUME NEW h, Sound(h), OneHead(h), NEW S \in SUBSET Timers
    PROVE  OneHead(RemovedAll(h, S))
<1> DEFINE P == {x \in Heaps : Sound(x) /\ OneHead(x)}
<1>1. h \in P
  BY DEF Sound
<1>2. \A x \in P, t \in S : Removed(x, t) \in P
  <2> SUFFICES ASSUME NEW x \in P, NEW t \in S PROVE Removed(x, t) \in P
    OBVIOUS
  <2>1. Sound(Removed(x, t)) /\ OneHead(Removed(x, t))
    BY RemovedSound, RemovedOneHead
  <2>2. Removed(x, t) \in Heaps
    BY <2>1 DEF Sound
  <2> QED BY <2>1, <2>2
<1>3. RemovedAll(h, S) \in P
  <2> HIDE DEF P
  <2> QED BY <1>1, <1>2, RemovedAllKeeps
<1> QED BY <1>3

LEMMA FiledIn ==
    ASSUME NEW h, Sound(h), NEW P \in [Timers -> Nat], Filed(h, P), NEW t \in Timers
    PROVE  /\ h.call[t] /\ h.group[t] = Nil => P[t] = 0
           /\ h.group[t] \in Keys => h.call[t] /\ P[t] # 0
<1>1. h.group[t] \in Keys => h.call[t]
  BY NeighboursLive
<1> QED BY <1>1, TimerNames DEF Filed

LEMMA InitFrames == Init => Frames
<1> SUFFICES ASSUME Init PROVE Frames
  OBVIOUS
<1>1. \A t \in Timers : heap.call[t] = FALSE
  BY DEF Init
<1>2. period \in [Timers -> Nat] /\ rung \in [Timers -> Nat] /\ pc = "idle"
  BY DEF Init
<1>3. \A t \in Timers : rung[t] = 0
  BY DEF Init
<1>4. OneHead(heap) /\ Filed(heap, period)
  BY <1>1, Zenon DEF OneHead, Filed
<1>5. Counted(period, rung)
  BY <1>3 DEF Counted
<1> QED BY <1>2, <1>4, <1>5 DEF Frames, InTick, AfterTick

LEMMA SetTimerFrames ==
    ASSUME Inv, Frames, NEW d \in Diffs, NEW g \in Tags, SetTimer(d, g)
    PROVE  Frames'
<1>1. PICK t \in Timers, k \in Keys :
              /\ Fresh(t) /\ ~heap.call[t] /\ t # cursor /\ t # last /\ k[1] # 0 /\ k[3] = d
              /\ k = SlotOf(cur', count, d, 0)
              /\ IsEntered(heap', heap, t, k)
              /\ Started /\ pc \in {"idle", "tickCall", "listCall"}
              /\ Reset(t, Since(time' - R))
              /\ tagged' = [tagged EXCEPT ![g] = @ \cup {t}]
              /\ period' = [period EXCEPT ![t] = d] /\ left' = [left EXCEPT ![t] = d]
              /\ rung' = [rung EXCEPT ![t] = 0] /\ extra' = [extra EXCEPT ![t] = 0]
              /\ UNCHANGED <<count, local, own, stops>>
  BY SetTimerHeap
<1>2. d \in Nat /\ d # 0 /\ k # Nil
  BY KeyParts, TimerNames
<1>3. period \in [Timers -> Nat] /\ rung \in [Timers -> Nat]
  BY DEF Frames
<1>4. period' \in [Timers -> Nat] /\ rung' \in [Timers -> Nat] /\ period'[t] = d /\ rung'[t] = 0
      /\ \A u \in Timers : u # t => period'[u] = period[u] /\ rung'[u] = rung[u]
  BY <1>1, <1>2, <1>3
<1>5. pc' = pc /\ cursor' = cursor /\ cursor \in Places
  BY <1>1 DEF local, Inv, Locals
<1>6. \A u \in Timers : /\ heap'.call[u] <=> u = t \/ heap.call[u]
                        /\ heap'.group[u] = IF u = t THEN k ELSE heap.group[u]
                        /\ u # t => heap'.last[u] = heap.last[u]
  BY <1>1 DEF IsEntered
<1>7. OneHead(heap')
  BY <1>1, <1>2, <1>6 DEF OneHead, IsEntered, Frames
<1>8. Filed(heap', period')
  <2> SUFFICES ASSUME NEW u \in Timers, heap'.call[u]
               PROVE  IF period'[u] = 0 THEN heap'.group[u] = Nil
                      ELSE heap'.group[u] \in Keys /\ heap'.group[u][3] = period'[u]
    BY Zenon DEF Filed
  <2>1. CASE u = t
    BY <1>1, <1>2, <1>4, <1>6, <2>1
  <2>2. CASE u # t
    <3>1. heap.call[u] /\ heap'.group[u] = heap.group[u] /\ period'[u] = period[u]
      BY <1>4, <1>6, <2>2
    <3> QED BY <3>1 DEF Filed, Frames
  <2> QED BY <2>1, <2>2
<1>9. Counted(period', rung')
  BY <1>2, <1>4 DEF Counted, Frames
<1>10. InTick'
  <2> SUFFICES ASSUME pc \in {"tick", "tickCall"}
               PROVE  /\ Walked(heap', rung', cursor, Nil)
                      /\ cursor # Nil => period'[cursor] = 0 /\ rung'[cursor] = 0
    BY <1>5 DEF InTick
  <2>1. Walked(heap, rung, cursor, Nil) /\ (cursor # Nil => period[cursor] = 0 /\ rung[cursor] = 0)
    BY DEF Frames, InTick
  <2>2. Walked(heap', rung', cursor, Nil)
    BY <1>1, <1>2, <1>3, <1>5, <2>1, EnteredWalked DEF Inv
  <2>3. cursor # Nil => cursor \in Timers
    BY <1>5 DEF Places
  <2> QED BY <1>1, <1>4, <2>1, <2>2, <2>3
<1>11. AfterTick'
  <2> SUFFICES ASSUME pc \in {"loop", "groups", "list", "listCall"}
               PROVE  /\ \A u \in Timers : heap'.call[u] /\ period'[u] = 0 => rung'[u] = 1
                      /\ cursor # Nil => period'[cursor] # 0
    BY <1>5 DEF AfterTick
  <2>1. /\ \A u \in Timers : heap.call[u] /\ period[u] = 0 => rung[u] = 1
        /\ cursor # Nil => period[cursor] # 0
    BY DEF Frames, AfterTick
  <2>2. cursor # Nil => cursor \in Timers
    BY <1>5 DEF Places
  <2> QED BY <1>1, <1>2, <1>4, <1>6, <2>1, <2>2
<1> QED BY <1>4, <1>7, <1>8, <1>9, <1>10, <1>11 DEF Frames

LEMMA SetTickFrames ==
    ASSUME Inv, Frames, NEW g \in Tags, SetTick(g)
    PROVE  Frames'
<1>1. PICK t \in Timers :
              /\ Fresh(t) /\ ~heap.call[t] /\ t # cursor /\ t # last
              /\ IsTicked(heap', heap, t) /\ Sound(heap')
              /\ Started /\ pc \in {"idle", "tickCall", "listCall"}
              /\ Reset(t, 0)
              /\ tagged' = [tagged EXCEPT ![g] = @ \cup {t}]
              /\ period' = [period EXCEPT ![t] = 0]
              /\ rung' = [rung EXCEPT ![t] = 1]
              /\ UNCHANGED <<count, local, left, extra, own, stops>>
  BY SetTickHeap
<1>3. period \in [Timers -> Nat] /\ rung \in [Timers -> Nat]
  BY DEF Frames
<1>4. period' \in [Timers -> Nat] /\ rung' \in [Timers -> Nat] /\ period'[t] = 0 /\ rung'[t] = 1
      /\ \A u \in Timers : u # t => period'[u] = period[u] /\ rung'[u] = rung[u]
  BY <1>1, <1>3
<1>5. pc' = pc /\ cursor' = cursor /\ cursor \in Places
  BY <1>1 DEF local, Inv, Locals
<1>6. \A u \in Timers : /\ heap'.call[u] <=> u = t \/ heap.call[u]
                        /\ heap'.group[u] = heap.group[u]
                        /\ heap'.last[u] = IF u = heap.tick THEN t ELSE heap.last[u]
  BY <1>1 DEF IsTicked
<1>12. heap.group[t] = Nil /\ heap'.tick = t /\ t # Nil
  BY <1>1, TimerNames DEF IsTicked, Inv, Sound, DeadOut
<1>7. OneHead(heap')
  BY <1>6, <1>12 DEF OneHead, Frames
<1>8. Filed(heap', period')
  <2> SUFFICES ASSUME NEW u \in Timers, heap'.call[u]
               PROVE  IF period'[u] = 0 THEN heap'.group[u] = Nil
                      ELSE heap'.group[u] \in Keys /\ heap'.group[u][3] = period'[u]
    BY Zenon DEF Filed
  <2>1. CASE u = t
    BY <1>4, <1>6, <1>12, <2>1
  <2>2. CASE u # t
    <3>1. heap.call[u] /\ heap'.group[u] = heap.group[u] /\ period'[u] = period[u]
      BY <1>4, <1>6, <2>2
    <3> QED BY <3>1 DEF Filed, Frames
  <2> QED BY <2>1, <2>2
<1>9. Counted(period', rung')
  BY <1>4 DEF Counted, Frames
<1>10. InTick'
  <2> SUFFICES ASSUME pc \in {"tick", "tickCall"}
               PROVE  /\ Walked(heap', rung', cursor, Nil)
                      /\ cursor # Nil => period'[cursor] = 0 /\ rung'[cursor] = 0
    BY <1>5 DEF InTick
  <2>1. Walked(heap, rung, cursor, Nil) /\ (cursor # Nil => period[cursor] = 0 /\ rung[cursor] = 0)
    BY DEF Frames, InTick
  <2>2. Walked(heap', rung', cursor, Nil)
    BY <1>1, <1>3, <1>5, <2>1, TickedWalked DEF Inv
  <2>3. cursor # Nil => cursor \in Timers
    BY <1>5 DEF Places
  <2> QED BY <1>1, <1>4, <2>1, <2>2, <2>3
<1>11. AfterTick'
  <2> SUFFICES ASSUME pc \in {"loop", "groups", "list", "listCall"}
               PROVE  /\ \A u \in Timers : heap'.call[u] /\ period'[u] = 0 => rung'[u] = 1
                      /\ cursor # Nil => period'[cursor] # 0
    BY <1>5 DEF AfterTick
  <2>1. /\ \A u \in Timers : heap.call[u] /\ period[u] = 0 => rung[u] = 1
        /\ cursor # Nil => period[cursor] # 0
    BY DEF Frames, AfterTick
  <2>2. cursor # Nil => cursor \in Timers
    BY <1>5 DEF Places
  <2> QED BY <1>1, <1>4, <1>6, <2>1, <2>2
<1> QED BY <1>4, <1>7, <1>8, <1>9, <1>10, <1>11 DEF Frames

LEMMA RemoveFrames ==
    ASSUME Inv, Frames,
           (\E t \in Timers : RemoveTimer(t)) \/ (\E g \in Tags : RemoveTimerByTag(g))
    PROVE  Frames'
<1>1. /\ UNCHANGED <<pc, cursor, period, rung>>
      /\ OneHead(heap')
      /\ \A u \in Timers : heap'.call[u] => heap.call[u] /\ heap'.group[u] = heap.group[u]
      /\ Walked(heap, rung, cursor, Nil) => Walked(heap', rung, cursor, Nil)
  <2>1. ASSUME NEW t \in Timers, RemoveTimer(t)
        PROVE  /\ UNCHANGED <<pc, cursor, period, rung>>
               /\ OneHead(heap')
               /\ \A u \in Timers : heap'.call[u] => heap.call[u] /\ heap'.group[u] = heap.group[u]
               /\ Walked(heap, rung, cursor, Nil) => Walked(heap', rung, cursor, Nil)
    <3>1. heap' = Removed(heap, t) /\ UNCHANGED <<pc, cursor, period, rung>>
      BY <2>1 DEF RemoveTimer, local
    <3>2. Kept(heap', heap, {t})
      BY <3>1, KeptOne DEF Inv
    <3>3. OneHead(heap')
      BY <3>1, RemovedOneHead DEF Inv, Frames
    <3>4. Walked(heap, rung, cursor, Nil) => Walked(heap', rung, cursor, Nil)
      BY <3>1, RemovedWalked DEF Inv, Locals
    <3> QED BY <3>1, <3>2, <3>3, <3>4 DEF Kept
  <2>2. ASSUME NEW g \in Tags, RemoveTimerByTag(g)
        PROVE  /\ UNCHANGED <<pc, cursor, period, rung>>
               /\ OneHead(heap')
               /\ \A u \in Timers : heap'.call[u] => heap.call[u] /\ heap'.group[u] = heap.group[u]
               /\ Walked(heap, rung, cursor, Nil) => Walked(heap', rung, cursor, Nil)
    <3>1. heap' = RemovedAll(heap, tagged[g]) /\ UNCHANGED <<pc, cursor, period, rung>>
          /\ tagged[g] \in SUBSET Timers
      BY <2>2 DEF RemoveTimerByTag, local, Inv, Locals
    <3>2. Kept(heap', heap, tagged[g])
      BY <3>1, KeptAll DEF Inv
    <3>3. OneHead(heap')
      BY <3>1, RemovedAllOneHead DEF Inv, Frames
    <3>4. Walked(heap, rung, cursor, Nil) => Walked(heap', rung, cursor, Nil)
      BY <3>1, RemovedAllWalked DEF Inv, Locals
    <3> QED BY <3>1, <3>2, <3>3, <3>4 DEF Kept
  <2> QED BY <2>1, <2>2
<1>2. Filed(heap', period')
  BY <1>1 DEF Filed, Frames
<1>3. InTick' /\ AfterTick'
  BY <1>1 DEF Frames, InTick, AfterTick
<1> QED BY <1>1, <1>2, <1>3 DEF Frames

LEMMA StopFrames ==
    ASSUME Inv, Frames, pc = "idle", Stop
    PROVE  Frames'
<1>1. pc = "idle" /\ heap' = BlankAll(Cleared(heap)) /\ UNCHANGED <<pc, period, rung>>
  BY DEF Stop, local, owed
<1>2. AllFree(heap)
  BY <1>1 DEF Inv, Outside
<1>3. \A t \in Timers : ~heap'.call[t]
  BY <1>1, <1>2, BlankSound DEF Inv
<1>4. OneHead(heap') /\ Filed(heap', period')
  BY <1>3 DEF OneHead, Filed
<1> QED BY <1>1, <1>4 DEF Frames, InTick, AfterTick

LEMMA TickFrames ==
    ASSUME Inv, Frames, NEW f \in 0..MaxFrame, NEW e \in 0..MaxFrame, Tick(f, e)
    PROVE  Frames'
<1>1. /\ pc' = "tick" /\ cursor' = heap.tick /\ UNCHANGED <<heap, period>>
      /\ rung' = [t \in Timers |-> IF period[t] = 0 THEN 0 ELSE rung[t]]
  BY DEF Tick, Go
<1>2. period \in [Timers -> Nat] /\ rung \in [Timers -> Nat]
  BY DEF Frames
<1>3. rung' \in [Timers -> Nat] /\ \A t \in Timers : period[t] = 0 => rung'[t] = 0
  BY <1>1, <1>2
<1>4. Counted(period', rung')
  BY <1>1, <1>3 DEF Counted
<1>5. \A t \in Timers : heap.call[t] /\ heap.group[t] = Nil => period[t] = 0
  BY <1>2, FiledIn DEF Inv, Frames
<1>6. Walked(heap, rung', heap.tick, Nil)
  <2>1. \A t \in Timers : heap.call[t] /\ heap.group[t] = Nil => rung'[t] = 0
    BY <1>3, <1>5
  <2>2. \A t \in Timers : heap.call[t] /\ heap.group[t] = Nil /\ heap.last[t] = Nil => t = heap.tick
    BY DEF Frames, OneHead
  <2>3. Sound(heap)
    BY DEF Inv
  <2> QED BY <1>3, <2>1, <2>2, <2>3, WalkBegins
<1>7. heap.tick # Nil => heap.tick \in Timers /\ period[heap.tick] = 0
  BY <1>5, HeapFields DEF Inv, Sound, TickHead, Places
<1>8. InTick'
  BY <1>1, <1>3, <1>6, <1>7 DEF InTick
<1>9. AfterTick'
  BY <1>1 DEF AfterTick
<1> QED BY <1>1, <1>2, <1>3, <1>4, <1>8, <1>9 DEF Frames

LEMMA CallNextStep ==
    ASSUME Inv, TickStep \/ ListStep
    PROVE  /\ pc \in {"tick", "list"} /\ cursor \in Timers
           /\ pc' = IF ~heap.call[cursor] THEN "error"
                    ELSE IF pc = "tick" THEN "tickCall" ELSE "listCall"
           /\ last' = cursor /\ cursor' = heap.next[cursor]
           /\ rung' = [rung EXCEPT ![cursor] = @ + 1]
           /\ UNCHANGED <<wheel, todo, v, df, group, loop, period, left, extra, own, stops>>
<1>1. cursor \in Timers
  BY DEF TickStep, ListStep, CallNext, Inv, Locals, Places
<1> QED BY <1>1 DEF TickStep, ListStep, CallNext, Go

LEMMA CallNextFrames ==
    ASSUME Inv, Frames, TickStep \/ ListStep
    PROVE  Frames'
<1>1. /\ pc \in {"tick", "list"} /\ cursor \in Timers
      /\ pc' = IF ~heap.call[cursor] THEN "error"
               ELSE IF pc = "tick" THEN "tickCall" ELSE "listCall"
      /\ cursor' = heap.next[cursor]
      /\ rung' = [rung EXCEPT ![cursor] = @ + 1]
      /\ heap' = heap /\ period' = period
  BY CallNextStep DEF wheel
<1>2. /\ period \in [Timers -> Nat] /\ rung \in [Timers -> Nat] /\ Sound(heap)
      /\ rung' \in [Timers -> Nat] /\ rung'[cursor] = rung[cursor] + 1
      /\ \A t \in Timers : t # cursor => rung'[t] = rung[t]
  BY <1>1 DEF Frames, Inv
<1>10. cursor # Nil
  BY <1>1, TimerNames
<1>3. period[cursor] = 0 => pc = "tick" /\ rung[cursor] = 0
  BY <1>1, <1>10 DEF Frames, InTick, AfterTick
<1>4. Counted(period', rung')
  BY <1>1, <1>2, <1>3 DEF Counted, Frames
<1>5. InTick'
  <2> SUFFICES ASSUME pc' \in {"tick", "tickCall"}
               PROVE  /\ Walked(heap, rung', cursor', Nil)
                      /\ cursor' # Nil => period[cursor'] = 0 /\ rung'[cursor'] = 0
    BY <1>1 DEF InTick
  <2>1. pc = "tick" /\ heap.call[cursor]
    BY <1>1
  <2>2. Walked(heap, rung, cursor, Nil) /\ period[cursor] = 0 /\ rung[cursor] = 0
    BY <1>10, <2>1 DEF Frames, InTick
  <2>3. heap.group[cursor] = Nil
    BY <1>1, <2>1, <2>2 DEF Frames, Filed
  <2>4. /\ Walked(heap, rung', heap.next[cursor], Nil)
        /\ heap.next[cursor] # Nil =>
              /\ heap.next[cursor] \in Timers /\ heap.call[heap.next[cursor]]
              /\ heap.group[heap.next[cursor]] = Nil /\ rung'[heap.next[cursor]] = 0
    <3>1. /\ Sound(heap) /\ rung \in [Timers -> Nat] /\ cursor \in Timers
          /\ heap.call[cursor] /\ heap.group[cursor] = Nil /\ rung[cursor] = 0
          /\ Walked(heap, rung, cursor, Nil) /\ rung' \in [Timers -> Nat]
          /\ rung'[cursor] = rung[cursor] + 1
          /\ \A t \in Timers : t # cursor => rung'[t] = rung[t]
      BY <1>1, <1>2, <2>1, <2>2, <2>3
    <3> QED BY ONLY <3>1, WalkGoesOn
  <2>5. cursor' # Nil => /\ cursor' \in Timers /\ heap.call[cursor']
                         /\ heap.group[cursor'] = Nil /\ rung'[cursor'] = 0
    BY <1>1, <2>4
  <2> QED BY <1>1, <1>2, <2>4, <2>5, FiledIn DEF Frames
<1>6. AfterTick'
  <2> SUFFICES ASSUME pc' \in {"loop", "groups", "list", "listCall"}
               PROVE  /\ \A t \in Timers : heap.call[t] /\ period[t] = 0 => rung'[t] = 1
                      /\ cursor' # Nil => period[cursor'] # 0
    BY <1>1 DEF AfterTick
  <2>1. pc = "list" /\ heap.call[cursor]
    BY <1>1
  <2>2. /\ \A t \in Timers : heap.call[t] /\ period[t] = 0 => rung[t] = 1
        /\ period[cursor] # 0
    BY <1>10, <2>1 DEF Frames, AfterTick
  <2>3. heap.group[cursor] \in Keys
    BY <1>1, <2>1, <2>2 DEF Frames, Filed
  <2>4. cursor' # Nil => cursor' \in Timers /\ heap.group[cursor'] \in Keys
    BY <1>1, <1>2, <2>3, NeighboursLive
  <2>5. cursor' # Nil => period[cursor'] # 0
    BY <1>2, <2>4, FiledIn DEF Frames
  <2> QED BY <1>2, <2>2, <2>5
<1> QED BY <1>1, <1>2, <1>4, <1>5, <1>6 DEF Frames

LEMMA TickEndFrames ==
    ASSUME Inv, Frames, TickEnd
    PROVE  Frames'
<1>1. /\ cursor = Nil /\ pc = "tick" /\ pc' = "loop"
      /\ UNCHANGED <<heap, period, rung, cursor>>
  BY DEF TickEnd, Go, wheel, owed
<1>2. Walked(heap, rung, Nil, Nil)
  BY <1>1 DEF Frames, InTick
<1>3. \A t \in Timers : heap.call[t] /\ heap.group[t] = Nil => rung[t] # 0
  BY <1>2, WalkIsDone DEF Inv, Frames
<1>4. \A t \in Timers : heap.call[t] /\ period[t] = 0 => rung[t] = 1
  <2> SUFFICES ASSUME NEW t \in Timers, heap.call[t], period[t] = 0 PROVE rung[t] = 1
    OBVIOUS
  <2>1. heap.group[t] = Nil
    BY DEF Frames, Filed
  <2>2. rung[t] # 0 /\ rung[t] <= 1 /\ rung[t] \in Nat
    BY <1>3, <2>1 DEF Frames, Counted
  <2> QED BY <2>2
<1>5. AfterTick'
  BY <1>1, <1>4 DEF AfterTick
<1>6. InTick'
  BY <1>1 DEF InTick
<1> QED BY <1>1, <1>5, <1>6 DEF Frames

\* Call moves whole lists: for the timers without period nothing changes.
LEMMA CallSlotFrames ==
    ASSUME Inv, Frames, CallSlot
    PROVE  Frames'
<1>1. /\ pc = "loop" /\ pc' = "groups" /\ heap' = Slotted(heap, cur, count)
      /\ UNCHANGED <<cursor, period, rung>>
  BY CallSlotHeap DEF owed
<1>2. /\ heap'.next = heap.next /\ heap'.last = heap.last /\ heap'.call = heap.call
      /\ heap'.tick = heap.tick
      /\ \A t \in Timers : heap'.group[t] = IF heap.group[t] \in Here(cur, count)
                                            THEN Taken(heap.group[t][3]) ELSE heap.group[t]
  BY <1>1, SlottedIs DEF Inv, Sound, Locals
<1>3. \A k \in Here(cur, count) : k \in Keys /\ Taken(k[3]) \in Keys /\ Taken(k[3])[3] = k[3]
  BY HereIs DEF Inv, Locals
<1>4. OneHead(heap')
  BY <1>2, <1>3, TimerNames DEF OneHead, Frames
<1>5. Filed(heap', period')
  <2> SUFFICES ASSUME NEW t \in Timers, heap.call[t]
               PROVE  IF period[t] = 0 THEN heap'.group[t] = Nil
                      ELSE heap'.group[t] \in Keys /\ heap'.group[t][3] = period[t]
    BY <1>1, <1>2 DEF Filed
  <2>1. IF period[t] = 0 THEN heap.group[t] = Nil
        ELSE heap.group[t] \in Keys /\ heap.group[t][3] = period[t]
    BY DEF Frames, Filed
  <2>2. CASE heap.group[t] \in Here(cur, count)
    <3>1. heap.group[t] # Nil
      BY <1>3, <2>2, TimerNames
    <3> QED BY <1>2, <1>3, <2>1, <2>2, <3>1
  <2>3. CASE heap.group[t] \notin Here(cur, count)
    BY <1>2, <2>1, <2>3
  <2> QED BY <2>2, <2>3
<1>6. AfterTick' /\ InTick'
  BY <1>1, <1>2 DEF AfterTick, InTick, Frames
<1> QED BY <1>1, <1>4, <1>5, <1>6 DEF Frames

LEMMA ListStartStep ==
    ASSUME Inv, ListStart
    PROVE  \E d \in todo :
              /\ d \in Diffs /\ pc = "groups" /\ pc' = "list"
              /\ todo' = todo \ {d} /\ v' = d /\ cursor' = heap.list[Taken(d)].head
              /\ df' = (IF CanSkip /\ run /\ cursor' # Nil THEN since[cursor'] ELSE 0)
              /\ cursor' \in Places
              /\ cursor' # Nil => heap.group[cursor'] = Taken(d) /\ Taken(d) \in Keys
              /\ UNCHANGED <<wheel, last, group, loop, owed, stops>>
<1>1. PICK d \in todo :
              /\ todo' = todo \ {d} /\ v' = d /\ cursor' = heap.list[Taken(d)].head
              /\ df' = (IF CanSkip /\ run /\ cursor' # Nil THEN since[cursor'] ELSE 0)
  BY DEF ListStart
<1>2. d \in Diffs /\ Taken(d) \in Keys
  BY KeyParts DEF Inv, Locals
<1>3. /\ cursor' \in Places
      /\ cursor' # Nil => heap.group[cursor'] = Taken(d)
  BY <1>1, <1>2, HeapFields DEF Inv, Sound, EndsIn
<1> QED BY <1>1, <1>2, <1>3 DEF ListStart, Go

LEMMA ListStartFrames ==
    ASSUME Inv, Frames, ListStart
    PROVE  Frames'
<1>1. PICK d \in todo :
              /\ pc = "groups" /\ pc' = "list"
              /\ cursor' \in Places
              /\ cursor' # Nil => heap.group[cursor'] = Taken(d) /\ Taken(d) \in Keys
              /\ UNCHANGED <<wheel, last, group, loop, owed, stops>>
  BY ListStartStep
<1>2. UNCHANGED <<heap, period, rung>>
  BY <1>1 DEF wheel, owed
<1>3. cursor' # Nil => period[cursor'] # 0
  BY <1>1, FiledIn DEF Inv, Frames, Places
<1>4. AfterTick' /\ InTick'
  BY <1>1, <1>2, <1>3 DEF AfterTick, InTick, Frames
<1> QED BY <1>2, <1>4 DEF Frames

LEMMA ListEndFrames ==
    ASSUME Inv, Frames, ListEnd
    PROVE  Frames'
<1>1. /\ pc = "list" /\ pc' = "groups" /\ v \in Diffs
      /\ SlotOf(cur, count, v, Over) \in Keys /\ SlotOf(cur, count, v, Over)[3] = v
      /\ IF heap.list[Taken(v)].head = Nil THEN heap' = heap
         ELSE IsMoved(heap', heap, Taken(v), SlotOf(cur, count, v, Over))
      /\ UNCHANGED <<cursor, period, rung>>
  BY ListEndHeap
<1>2. CASE heap' = heap
  BY <1>1, <1>2 DEF Frames, AfterTick, InTick
<1>3. CASE heap.list[Taken(v)].head # Nil
  <2> DEFINE k == SlotOf(cur, count, v, Over)
             j == Taken(v)
  <2>1. IsMoved(heap', heap, j, k) /\ k \in Keys /\ k[3] = v /\ j \in Keys /\ j[3] = v
    BY <1>1, <1>3, KeyParts
  <2> HIDE DEF k, j
  <2>2. heap.list[j].head # Nil => heap.group[heap.list[j].head] = j
    BY <2>1 DEF Inv, Sound, EndsIn
  <2>3. \A u \in Timers :
          /\ heap'.call[u] <=> heap.call[u]
          /\ heap'.group[u] = IF heap.group[u] = j THEN k ELSE heap.group[u]
          /\ u # heap.list[j].head => heap'.last[u] = heap'.last[u]
    BY <2>1 DEF IsMoved
  <2>4. OneHead(heap')
    <3> SUFFICES ASSUME NEW u \in Timers, heap'.call[u], heap'.group[u] = Nil, heap'.last[u] = Nil
                 PROVE  u = heap'.tick
      BY DEF OneHead
    <3>1. heap.call[u] /\ heap.group[u] = Nil
      BY <2>1, <2>3, TimerNames
    <3>2. u # heap.list[j].head
      BY <2>1, <2>2, <3>1, TimerNames
    <3>3. heap.last[u] = Nil /\ heap'.tick = heap.tick
      BY <2>1, <3>2 DEF IsMoved
    <3> QED BY <3>1, <3>3 DEF Frames, OneHead
  <2>5. Filed(heap', period')
    <3> SUFFICES ASSUME NEW u \in Timers, heap.call[u]
                 PROVE  IF period[u] = 0 THEN heap'.group[u] = Nil
                        ELSE heap'.group[u] \in Keys /\ heap'.group[u][3] = period[u]
      BY <1>1, <2>3 DEF Filed
    <3>1. IF period[u] = 0 THEN heap.group[u] = Nil
          ELSE heap.group[u] \in Keys /\ heap.group[u][3] = period[u]
      BY DEF Frames, Filed
    <3> QED BY <2>1, <2>3, <3>1, TimerNames
  <2>6. AfterTick' /\ InTick'
    BY <1>1, <2>3 DEF AfterTick, InTick, Frames
  <2> QED BY <1>1, <2>4, <2>5, <2>6 DEF Frames
<1> QED BY <1>1, <1>2, <1>3

LEMMA AdvanceFrames ==
    ASSUME Inv, Frames, Advance
    PROVE  Frames'
<1>1. /\ pc = "groups" /\ pc' = "loop" /\ UNCHANGED <<heap, cursor, period>>
      /\ rung' = [t \in Timers |-> IF period[t] = 0 THEN rung[t] ELSE 0]
  BY DEF Advance, Go
<1>2. period \in [Timers -> Nat] /\ rung \in [Timers -> Nat]
  BY DEF Frames
<1>3. rung' \in [Timers -> Nat] /\ \A t \in Timers : period[t] = 0 => rung'[t] = rung[t]
  BY <1>1, <1>2
<1>4. Counted(period', rung')
  BY <1>1, <1>3 DEF Counted, Frames
<1>5. AfterTick' /\ InTick'
  BY <1>1, <1>3 DEF AfterTick, InTick, Frames
<1> QED BY <1>1, <1>2, <1>3, <1>4, <1>5 DEF Frames

LEMMA InsideFrames ==
    ASSUME Inv, Frames, Inside \/ UNCHANGED vars
    PROVE  Frames'
<1>1. CASE TickReturn
  <2>1. /\ pc = "tickCall" /\ pc' = "tick" /\ UNCHANGED <<heap, cursor, period, rung>>
    BY <1>1 DEF TickReturn, Go, wheel, owed
  <2> QED BY <2>1 DEF Frames, InTick, AfterTick
<1>2. CASE ListReturn
  <2>1. /\ pc = "listCall" /\ pc' = "list" /\ UNCHANGED <<heap, cursor, period, rung>>
    BY <1>2 DEF ListReturn, Go, owed
  <2> QED BY <2>1 DEF Frames, InTick, AfterTick
<1>3. CASE LoopEnd
  <2>1. /\ pc' = "idle" /\ UNCHANGED <<heap, cursor, period, rung>>
    BY <1>3 DEF LoopEnd, Go
  <2> QED BY <2>1 DEF Frames, InTick, AfterTick
<1>4. CASE UNCHANGED vars
  BY <1>4 DEF vars, wheel, local, owed, Frames, InTick, AfterTick
<1> QED BY <1>1, <1>2, <1>3, <1>4, CallNextFrames, TickEndFrames, CallSlotFrames,
           ListStartFrames, ListEndFrames, AdvanceFrames DEF Inside

LEMMA NextFrames ==
    ASSUME Inv, Frames, ~StopInCalls, [Next]_vars
    PROVE  Frames'
<1>1. CASE \E g \in Tags : SetTick(g)
  BY <1>1, SetTickFrames
<1>2. CASE \E g \in Tags, d \in Diffs : SetTimer(d, g)
  BY <1>2, SetTimerFrames
<1>3. CASE (\E t \in Timers : RemoveTimer(t)) \/ (\E g \in Tags : RemoveTimerByTag(g))
  BY <1>3, RemoveFrames
<1>4. CASE Stop
  BY <1>4, StopFrames DEF Stop
<1>5. CASE \E f, e \in 0..MaxFrame : Tick(f, e)
  BY <1>5, TickFrames
<1>6. CASE Inside \/ UNCHANGED vars
  BY <1>6, InsideFrames
<1> QED BY <1>1, <1>2, <1>3, <1>4, <1>5, <1>6 DEF Next, Api, Raised

LEMMA AlwaysFrames == ASSUME ~StopInCalls PROVE Spec => [](Inv /\ Frames)
<1> DEFINE I == Inv /\ Frames
<1>1. Init => I
  BY InitInv, InitFrames
<1>2. I /\ [Next]_vars => I'
  BY NextInv, NextFrames
<1> HIDE DEF I
<1>3. Spec => []I
  BY <1>1, <1>2, PTL DEF Spec
<1> QED BY <1>3 DEF I

\* Every timer without period is called once in each Tick it lives through, also when
\* callbacks insert at the head of the list or take themselves out (Ticker.lua:119-125),
\* as long as no callback stops the ticker.
THEOREM TimersOfEachFrame == ASSUME ~StopInCalls PROVE Spec => []EveryFrame
<1>1. Inv /\ Frames => EveryFrame
  BY DEF Frames, Counted, AfterTick, EveryFrame
<1> QED BY <1>1, AlwaysFrames, PTL

-----------------------------------------------------------------------------
(* The place of a list, seen from where the wheel is. *)

\* The key k is that of slot p, counted from the beginning of revolution n.
IsAt(k, p, n) == \E q \in Nat : p = q * N + k[1] /\ k[2] = GroupCountConstraint(n + q)

LEMMA Divided ==
    ASSUME NEW a \in Int, NEW b \in Nat \ {0}
    PROVE  \E q \in Int, r \in 0..(b - 1) : a = q * b + r /\ q = a \div b /\ r = a % b
<1> DEFINE q == a \div b
           r == a % b
<1>1. r \in 0..(b - 1) /\ q \in Int
  OBVIOUS
<1>2. a = q * b + r
  OBVIOUS
<1>3. q = a \div b /\ r = a % b
  OBVIOUS
<1> HIDE DEF q, r
<1> QED BY <1>1, <1>2, <1>3

\* The remainder of a division is unique.
LEMMA ModIs ==
    ASSUME NEW a \in Int, NEW b \in Nat \ {0}, NEW q \in Int, NEW r \in 0..(b - 1), a = q * b + r
    PROVE  a % b = r
<1>1. PICK p \in Int, s \in 0..(b - 1) : a = p * b + s /\ s = a % b
  BY Divided
<1>2. (q - p) * b = s - r
  BY <1>1
<1>3. q - p = 0
  <2>1. CASE q - p >= 1
    <3>1. (q - p) * b >= b
      BY <2>1, <1>1
    <3> QED BY <3>1, <1>1, <1>2
  <2>2. CASE q - p <= -1
    <3>1. (q - p) * b <= -b
      BY <2>2, <1>1
    <3> QED BY <3>1, <1>1, <1>2
  <2> QED BY <1>1, <2>1, <2>2
<1>4. s = r
  BY <1>1, <1>2, <1>3
<1> QED BY <1>1, <1>4

LEMMA ModAdds ==
    ASSUME NEW a \in Int, NEW y \in Int
    PROVE  /\ a % M \in 0..(M - 1)
           /\ ((a % M) + y) % M = (a + y) % M
<1>1. M \in Nat \ {0}
  BY TickerAssumption
<1>2. PICK q \in Int, r \in 0..(M - 1) : a = q * M + r /\ r = a % M
  BY <1>1, Divided
<1>3. PICK z \in Int : z = r + y
  BY <1>1
<1>4. PICK p \in Int, s \in 0..(M - 1) : z = p * M + s /\ s = z % M
  BY <1>1, Divided
<1>5. PICK w \in Int, e \in Int : w = q + p /\ e = a + y
  OBVIOUS
<1>6. PICK A \in Int, B \in Int : A = q * M /\ B = p * M /\ A + B = w * M
  BY <1>1, <1>5
<1>7. e = w * M + s
  <2>1. a = A + r /\ z = B + s
    BY <1>2, <1>4, <1>6
  <2>2. e = (A + B) + s
    BY <1>3, <1>5, <2>1
  <2> QED BY <1>6, <2>2
<1>8. e % M = s
  BY <1>1, <1>7, ModIs
<1> QED BY <1>2, <1>3, <1>4, <1>5, <1>8

\* Constraining the counter on the way changes nothing, once it has started.
LEMMA CountAdds ==
    ASSUME NEW x \in Nat, x >= 1, NEW y \in Nat
    PROVE  GroupCountConstraint(GroupCountConstraint(x) + y) = GroupCountConstraint(x + y)
<1>1. M \in Nat \ {0}
  BY TickerAssumption
<1> DEFINE c == (x - 1) % M
<1>2. c \in 0..(M - 1)
  BY ModAdds
<1>3. (c + y) % M = (x - 1 + y) % M
  BY ModAdds
<1>4. GroupCountConstraint(x) = c + 1
  BY DEF GroupCountConstraint
<1> HIDE DEF c
<1>5. GroupCountConstraint(c + 1 + y) = ((c + y) % M) + 1
  <2>1. c + 1 + y >= 1 /\ c + 1 + y - 1 = c + y
    BY <1>2, <1>1
  <2>2. \A z \in Int : z >= 1 => GroupCountConstraint(z) = ((z - 1) % M) + 1
    BY DEF GroupCountConstraint
  <2>3. PICK z \in Int : z = c + 1 + y
    BY <1>1, <1>2
  <2>4. z >= 1 /\ z - 1 = c + y
    BY <1>1, <1>2, <2>3
  <2>5. GroupCountConstraint(z) = ((c + y) % M) + 1
    <3>1. GroupCountConstraint(z) = ((z - 1) % M) + 1
      BY <2>2, <2>4
    <3> QED BY <2>4, <3>1
  <2> QED BY <2>3, <2>5
<1>6. GroupCountConstraint(x + y) = ((x - 1 + y) % M) + 1
  <2>1. x + y >= 1 /\ x + y - 1 = x - 1 + y
    OBVIOUS
  <2>2. GroupCountConstraint(x + y) = ((x + y - 1) % M) + 1
    BY <2>1 DEF GroupCountConstraint
  <2> QED BY <2>1, <2>2
<1> QED BY <1>3, <1>4, <1>5, <1>6

\* SetTimerList puts a timer d slots, and g revolutions, ahead.
LEMMA SlotIsAt ==
    ASSUME NEW id \in 0..N, NEW n \in 0..M, NEW d \in Diffs, NEW g \in Nat
    PROVE  IsAt(SlotOf(id, n, d, g), id + d + g * N, n)
<1>1. N \in Nat \ {0} /\ d \in Nat \ {0} /\ M \in Nat \ {0}
  BY TickerAssumption, KeyParts
<1>2. PICK q \in Int, r \in 0..(N - 1) : d = q * N + r /\ q = d \div N /\ r = d % N
  BY <1>1, Divided
<1> DEFINE next == NextGroupId(id, r)
<1>3. /\ next[1] \in 1..N /\ next[2] \in {-1, 0, 1}
      /\ next[2] = -1 => id = 0 /\ r = 0
      /\ next[2] * N + next[1] = id + r
  BY <1>1, <1>2, NextGroupIdMoves
<1>4. SlotOf(id, n, d, g)
        = <<next[1], GroupCountConstraint(n + q + next[2] + g), d>>
  BY <1>2 DEF SlotOf
<1> HIDE DEF next
<1>5. q >= 0
  <2>1. q <= -1 => q * N <= -N
    BY <1>1, <1>2
  <2> QED BY <1>1, <1>2, <2>1
<1>6. next[2] = -1 => q >= 1
  <2>1. next[2] = -1 => r = 0
    BY <1>3
  <2>2. q = 0 => q * N = 0
    BY <1>1
  <2> QED BY <1>1, <1>2, <1>5, <2>1, <2>2
<1> DEFINE p == q + next[2] + g
<1>7. p \in Nat
  BY <1>2, <1>3, <1>5, <1>6
<1>8. p * N = q * N + next[2] * N + g * N
  <2>1. PICK e \in Int : e = next[2]
    BY <1>3
  <2>2. (q + e + g) * N = q * N + e * N + g * N
    BY <1>1
  <2> QED BY <2>1, <2>2
<1>9. q * N \in Int /\ next[2] * N \in Int /\ g * N \in Int
  BY <1>1, <1>2, <1>3
<1>10. id + d + g * N = p * N + next[1]
  <2> HIDE DEF p
  <2> QED BY <1>1, <1>2, <1>3, <1>8, <1>9
<1>11. n + q + next[2] + g = n + p
  BY <1>2, <1>3
<1> QED BY <1>4, <1>7, <1>10, <1>11 DEF IsAt

\* When the wheel goes on by one slot, all the others come nearer by one;
LEMMA AtAdvances ==
    ASSUME NEW k \in Keys, k[1] # 0, NEW c \in 0..N, NEW n \in 0..M, NEW l \in Nat, l >= 1,
           IsAt(k, c + l, n)
    PROVE  IF c = N THEN IsAt(k, l, GroupCountConstraint(n + 1))
           ELSE IsAt(k, (c + 1) + (l - 1), n)
<1>1. N \in Nat \ {0} /\ M \in Nat \ {0} /\ k[1] \in 1..N
  BY TickerAssumption, KeyParts
<1>2. CASE c # N
  <2>1. (c + 1) + (l - 1) = c + l
    OBVIOUS
  <2> QED BY <1>2, <2>1
<1>3. CASE c = N
  <2>1. PICK q \in Nat : N + l = q * N + k[1] /\ k[2] = GroupCountConstraint(n + q)
    BY <1>3 DEF IsAt
  <2>2. q >= 1
    <3>1. q = 0 => q * N = 0
      BY <1>1
    <3> QED BY <1>1, <2>1, <3>1
  <2>3. (q - 1) * N = q * N - N
    BY <1>1, <2>1
  <2>4. l = (q - 1) * N + k[1]
    <3>1. q * N \in Int
      BY <1>1
    <3> QED BY <1>1, <2>1, <2>3, <3>1
  <2>5. GroupCountConstraint(GroupCountConstraint(n + 1) + (q - 1)) = GroupCountConstraint(n + q)
    <3>1. n + 1 \in Nat /\ n + 1 >= 1 /\ q - 1 \in Nat /\ (n + 1) + (q - 1) = n + q
      BY <1>1, <2>2
    <3>2. GroupCountConstraint(GroupCountConstraint(n + 1) + (q - 1))
            = GroupCountConstraint((n + 1) + (q - 1))
      BY <3>1, CountAdds
    <3> QED BY <3>1, <3>2
  <2>6. q - 1 \in Nat /\ k[2] = GroupCountConstraint(GroupCountConstraint(n + 1) + (q - 1))
    BY <2>1, <2>2, <2>5
  <2> QED BY <1>3, <2>4, <2>6 DEF IsAt
<1> QED BY <1>2, <1>3

\* and of the slots ahead, within what the counter can tell apart, only its own is here.
LEMMA AtHere ==
    ASSUME NEW k \in Keys, k[1] # 0, NEW c \in 0..N, NEW n \in 0..M, NEW l \in Nat, l < M * N,
           IsAt(k, c + l, n)
    PROVE  k \in Here(c, n) <=> l = 0
<1>1. N \in Nat \ {0} /\ M \in Nat \ {0} /\ k[1] \in 1..N
  BY TickerAssumption, KeyParts
<1>2. PICK q \in Nat : c + l = q * N + k[1] /\ k[2] = GroupCountConstraint(n + q)
  BY DEF IsAt
<1>3. q * N \in Nat
  BY <1>1
<1>4. ASSUME l = 0 PROVE k \in Here(c, n)
  <2>1. q = 0
    <3>1. q >= 1 => q * N >= N
      BY <1>1
    <3> QED BY <1>1, <1>2, <1>3, <1>4, <3>1
  <2>2. k[1] = c
    <3>1. q * N = 0
      BY <1>1, <2>1
    <3> QED BY <1>1, <1>2, <1>4, <3>1
  <2>3. k[2] = n
    BY <1>2, <2>1, CountBelowWrap
  <2> QED BY <2>2, <2>3 DEF Here
<1>5. ASSUME k \in Here(c, n) PROVE l = 0
  <2>1. k[1] = c /\ k[2] = n
    BY <1>5 DEF Here
  <2>2. l = q * N
    BY <1>1, <1>2, <1>3, <2>1
  <2>3. q < M
    <3>1. q >= M => q * N >= M * N
      BY <1>1
    <3>2. M * N \in Nat
      BY <1>1
    <3> QED BY <1>1, <1>3, <2>2, <3>1, <3>2
  <2>4. q = 0
    <3>1. CASE n + q < 1
      BY <3>1
    <3>2. CASE n + q >= 1
      <4>1. n = ((n + q - 1) % M) + 1
        BY <1>2, <2>1, <3>2 DEF GroupCountConstraint
      <4>2. n >= 1
        <5>1. (n + q - 1) % M \in 0..(M - 1)
          BY <1>1
        <5> QED BY <1>1, <4>1, <5>1
      <4>3. CASE n + q - 1 < M
        <5>1. n + q - 1 = 0 * M + (n + q - 1) /\ n + q - 1 \in 0..(M - 1)
          BY <1>1, <3>2, <4>3
        <5>2. (n + q - 1) % M = n + q - 1
          BY <1>1, <5>1, ModIs
        <5> QED BY <4>1, <5>2
      <4>4. CASE n + q - 1 >= M
        <5>1. n + q - 1 = 1 * M + (n + q - 1 - M) /\ n + q - 1 - M \in 0..(M - 1)
          BY <1>1, <2>3, <4>4
        <5>2. (n + q - 1) % M = n + q - 1 - M
          BY <1>1, <5>1, ModIs
        <5> QED BY <1>1, <2>3, <4>1, <5>2
      <4> QED BY <1>1, <4>3, <4>4
    <3> QED BY <3>1, <3>2
  <2>5. 0 * N = 0
    BY <1>1
  <2> QED BY <2>2, <2>4, <2>5
<1> QED BY <1>4, <1>5

\* The revolutions left out are within what the age of the list explains.
LEMMA OverIs ==
    ASSUME df \in Int, v \in Diffs
    PROVE  /\ Over \in Nat /\ Over * N \in Nat /\ (Over * N) * R \in Nat
           /\ IF CanSkip /\ df > v * R THEN (Over * N) * R <= df - v * R ELSE Over = 0
<1>1. /\ N \in Nat \ {0} /\ R \in Nat \ {0} /\ v \in Nat
  BY TickerAssumption, KeyParts
<1>2. CASE ~(CanSkip /\ df > v * R)
  <2>1. Over = 0 /\ 0 * N = 0 /\ 0 * R = 0
    BY <1>1, <1>2 DEF Over
  <2> QED BY <1>2, <2>1
<1>3. CASE CanSkip /\ df > v * R
  <2>1. PICK a \in Int, b \in Nat \ {0} : a = df - v * R /\ b = N * R
    BY <1>1
  <2>2. PICK q \in Int, r \in 0..(b - 1) : a = q * b + r /\ q = a \div b
    BY Divided
  <2>3. Over = q
    BY <1>3, <2>1, <2>2 DEF Over
  <2>4. q >= 0
    <3>1. q <= -1 => q * b <= -b
      BY <2>1, <2>2
    <3>2. q * b \in Int /\ a > 0
      BY <1>1, <1>3, <2>1, <2>2
    <3> QED BY <2>2, <3>1, <3>2
  <2>5. q * b <= a
    <3>1. q * b \in Int
      BY <2>1, <2>2
    <3> QED BY <2>2, <3>1
  <2>6. (q * N) * R = q * (N * R)
    <3>1. q \in Int /\ N \in Int /\ R \in Int
      BY <1>1, <2>2
    <3> QED BY ONLY <3>1
  <2>7. q \in Nat /\ q * N \in Nat
    BY <1>1, <2>2, <2>4
  <2>8. (q * N) * R \in Nat
    BY <1>1, <2>7
  <2> QED BY <1>3, <2>1, <2>3, <2>5, <2>6, <2>7, <2>8
<1> QED BY <1>2, <1>3

\* A list that is put off by less than the counter can tell apart.
LEMMA Reaches ==
    ASSUME NEW d \in Nat, NEW e \in Nat, NEW a \in Int, e * R <= a, d * R + a < M * N * R
    PROVE  d + e \in Nat /\ d + e < M * N
<1>1. M * N \in Nat /\ R \in Nat \ {0}
  BY TickerAssumption
<1>6. PICK x \in Nat : x = d + e
  OBVIOUS
<1>7. PICK y \in Nat : y = M * N
  BY <1>1
<1>2. x = d + e /\ y = M * N
  BY <1>6, <1>7
<1>3. d * R \in Nat /\ e * R \in Nat /\ x * R \in Nat /\ y * R \in Nat /\ x * R = d * R + e * R
  BY <1>1, <1>2
<1>4. x * R < y * R
  BY <1>2, <1>3
<1>5. ASSUME x >= y PROVE FALSE
  <2>1. PICK z \in Nat : x = y + z
    <3>1. x - y \in Nat /\ x = y + (x - y)
      BY <1>5
    <3> QED BY <3>1
  <2>2. x * R = y * R + z * R /\ z * R \in Nat
    BY <1>1, <2>1
  <2> QED BY <1>3, <1>4, <2>2
<1> QED BY <1>2, <1>5

LEMMA OverBound ==
    ASSUME df \in Int, v \in Diffs, CanSkip => df <= MaxSince /\ MaxSince < M * N * R
    PROVE  Over \in Nat /\ v + Over * N \in Nat /\ v + Over * N < M * N
<1>1. /\ v \in Nat /\ v <= M * N - 1 /\ M * N \in Nat /\ v * R \in Nat /\ M * N * R \in Nat
      /\ MaxSince \in Nat
  <2>1. v \in Nat /\ v <= M * N - 1
    BY KeyParts
  <2> QED BY <2>1, TickerAssumption
<1>2. Over \in Nat /\ Over * N \in Nat /\ (Over * N) * R \in Nat
  BY OverIs
<1>3. CASE CanSkip /\ df > v * R
  <2>1. (Over * N) * R <= df - v * R
    BY <1>3, OverIs
  <2>2. v * R + (df - v * R) < M * N * R /\ df - v * R \in Int
    BY <1>1, <1>3
  <2> QED BY <1>1, <1>2, <2>1, <2>2, Reaches
<1>4. CASE ~(CanSkip /\ df > v * R)
  <2>1. Over = 0 /\ 0 * N = 0
    BY <1>4, OverIs, TickerAssumption
  <2> QED BY <1>1, <2>1
<1> QED BY <1>3, <1>4

-----------------------------------------------------------------------------
(* Timers with a period. *)

Calling == pc \in {"groups", "list", "listCall"}

\* How many slots the wheel advances before it is this timer's turn.
Due(t) == IF Calling /\ left[t] = 0 THEN period[t] + extra[t] ELSE left[t]

InWheel(t) == heap.call[t] /\ heap.group[t] \in Keys

Placed == pc # "error" => \A t \in Timers : InWheel(t) =>
    IF heap.group[t][1] = 0 THEN left[t] = 0
    ELSE IsAt(heap.group[t], cur + Due(t), count) /\ Due(t) < M * N

Running == /\ ~run => \A t \in Timers : ~heap.call[t]
           /\ pc # "idle" => run

Young == CanSkip => df <= MaxSince /\ \A t \in Timers : since[t] <= MaxSince

Resting == pc \in {"idle", "tick", "tickCall", "loop"} =>
    \A t \in Timers : heap.call[t] /\ period[t] # 0 => rung[t] = 0

InSlot == Calling => \A t \in Timers : InWheel(t) =>
    /\ heap.group[t][1] # 0 => rung[t] = IF left[t] = 0 THEN 1 ELSE 0
    /\ heap.group[t][1] = 0 => rung[t] <= 1 /\ (period[t] \in todo => rung[t] = 0)

InList == pc \in {"list", "listCall"} =>
    /\ v \notin todo
    /\ Walked(heap, rung, cursor, Taken(v))
    /\ cursor # Nil => rung[cursor] = 0 /\ (heap.call[cursor] => heap.group[cursor] = Taken(v))

InListCall == pc = "listCall" => left[last] = 0 /\ rung[last] = 1

Turns ==
    /\ left \in [Timers -> Nat] /\ extra \in [Timers -> Nat]
    /\ Placed /\ Running /\ Young /\ Resting /\ InSlot /\ InList /\ InListCall

\* An empty list has no members.
LEMMA EmptyList ==
    ASSUME NEW h, Sound(h), NEW k \in Keys, h.list[k].head = Nil
    PROVE  \A t \in Timers : h.group[t] # k
<1> DEFINE W == {t \in Timers : h.group[t] = k}
<1>1. \A t \in W : h.last[t] \in W
  <2> SUFFICES ASSUME NEW t \in W PROVE h.last[t] \in W
    OBVIOUS
  <2>1. h.last[t] # Nil
    BY TimerNames DEF Sound, EndsOnly
  <2> QED BY <2>1, NeighboursLive
<1>2. W \in SUBSET Timers /\ Grounded(h)
  BY DEF Sound
<1>3. W = {}
  <2> HIDE DEF W
  <2> QED BY <1>1, <1>2 DEF Grounded
<1> QED BY <1>3

LEMMA InitTurns == Init => Turns
<1> SUFFICES ASSUME Init PROVE Turns
  OBVIOUS
<1>1. \A t \in Timers : heap.call[t] = FALSE
  BY DEF Init
<1>2. /\ left \in [Timers -> Nat] /\ extra \in [Timers -> Nat] /\ pc = "idle" /\ df = 0
      /\ \A t \in Timers : since[t] = 0
  BY DEF Init
<1>3. Placed /\ Running /\ Resting
  BY <1>1, <1>2, Zenon DEF Placed, InWheel, Running, Resting
<1>4. Young
  BY <1>2, TickerAssumption DEF Young
<1> QED BY <1>2, <1>3, <1>4 DEF Turns, Calling, InSlot, InList, InListCall

LEMMA SetTimerTurns ==
    ASSUME Inv, Frames, Turns, NEW d \in Diffs, NEW g \in Tags, SetTimer(d, g)
    PROVE  Turns'
<1>1. PICK t \in Timers, k \in Keys :
              /\ Fresh(t) /\ ~heap.call[t] /\ t # cursor /\ t # last /\ k[1] # 0 /\ k[3] = d
              /\ k = SlotOf(cur', count, d, 0)
              /\ IsEntered(heap', heap, t, k)
              /\ Started /\ pc \in {"idle", "tickCall", "listCall"}
              /\ Reset(t, Since(time' - R))
              /\ tagged' = [tagged EXCEPT ![g] = @ \cup {t}]
              /\ period' = [period EXCEPT ![t] = d] /\ left' = [left EXCEPT ![t] = d]
              /\ rung' = [rung EXCEPT ![t] = 0] /\ extra' = [extra EXCEPT ![t] = 0]
              /\ UNCHANGED <<count, local, own, stops>>
  BY SetTimerHeap
<1>2. d \in Nat /\ d # 0 /\ d < M * N /\ k # Nil
  <2>1. d \in Nat /\ d # 0 /\ d <= M * N - 1
    BY KeyParts
  <2>2. M * N \in Int
    BY TickerAssumption
  <2> QED BY <2>1, <2>2, TimerNames
<1>3. /\ period \in [Timers -> Nat] /\ rung \in [Timers -> Nat]
      /\ left \in [Timers -> Nat] /\ extra \in [Timers -> Nat]
  BY DEF Frames, Turns
<1>4. /\ left' \in [Timers -> Nat] /\ extra' \in [Timers -> Nat]
      /\ period'[t] = d /\ rung'[t] = 0 /\ left'[t] = d /\ extra'[t] = 0
      /\ \A u \in Timers : u # t => /\ period'[u] = period[u] /\ rung'[u] = rung[u]
                                    /\ left'[u] = left[u] /\ extra'[u] = extra[u]
  BY <1>1, <1>2, <1>3
<1>5. UNCHANGED <<pc, cursor, last, todo, v, df, count>> /\ cursor \in Places
      /\ last \in Places
  BY <1>1 DEF local, Inv, Locals
<1>6. \A u \in Timers : /\ heap'.call[u] <=> u = t \/ heap.call[u]
                        /\ heap'.group[u] = IF u = t THEN k ELSE heap.group[u]
  BY <1>1 DEF IsEntered
<1>7. /\ run' = TRUE /\ cur' \in 0..N /\ count \in 0..M
      /\ \A u \in Timers : heap.call[u] => cur' = cur
  <2>1. run' = TRUE /\ cur' \in 0..N /\ count \in 0..M
    BY <1>1, StartedInts DEF Inv, Locals
  <2>2. \A u \in Timers : heap.call[u] => cur' = cur
    BY <1>1 DEF Started, Turns, Running
  <2> QED BY <2>1, <2>2
<1>8. Placed'
  <2> SUFFICES ASSUME pc # "error", NEW u \in Timers, InWheel(u)'
               PROVE  (IF heap.group[u][1] = 0 THEN left[u] = 0
                       ELSE IsAt(heap.group[u], cur + Due(u), count) /\ Due(u) < M * N)'
    BY <1>5 DEF Placed
  <2>1. CASE u = t
    <3>1. heap'.group[u] = k /\ Due(u)' = d
      BY <1>2, <1>4, <1>6, <2>1 DEF Due
    <3>2. IsAt(k, cur' + d + 0 * N, count)
      BY <1>1, <1>7, SlotIsAt
    <3>3. cur' + d + 0 * N = cur' + d
      BY <1>2, <1>7, TickerAssumption
    <3> QED BY <1>1, <1>2, <1>5, <3>1, <3>2, <3>3
  <2>2. CASE u # t
    <3>1. heap.call[u] /\ heap'.group[u] = heap.group[u] /\ cur' = cur
      BY <1>6, <1>7, <2>2 DEF InWheel
    <3>2. heap.group[u] \in Keys /\ Due(u)' = Due(u) /\ left'[u] = left[u]
      BY <1>4, <1>5, <2>2, <3>1 DEF Due, Calling, InWheel
    <3> QED BY <1>5, <3>1, <3>2 DEF Turns, Placed, InWheel
  <2> QED BY <2>1, <2>2
<1>9. Running'
  BY <1>7, <1>1 DEF Running
<1>10. Young'
  <2> SUFFICES ASSUME CanSkip PROVE df <= MaxSince /\ \A u \in Timers : since'[u] <= MaxSince
    BY <1>5 DEF Young
  <2>1. df <= MaxSince /\ \A u \in Timers : since[u] <= MaxSince
    BY DEF Turns, Young
  <2>2. time' - R \in Int
    BY <1>1, StartedInts, TickerAssumption DEF Inv
  <2>3. Since(time' - R) <= MaxSince
    BY <2>2, SinceYoung
  <2> QED BY <1>1, <2>1, <2>3 DEF Reset
<1>11. Resting'
  BY <1>4, <1>5, <1>6 DEF Turns, Resting
<1>12. InSlot'
  <2> SUFFICES ASSUME Calling, NEW u \in Timers, InWheel(u)'
               PROVE  (/\ heap.group[u][1] # 0 => rung[u] = IF left[u] = 0 THEN 1 ELSE 0
                       /\ heap.group[u][1] = 0 => /\ rung[u] <= 1
                                                  /\ period[u] \in todo => rung[u] = 0)'
    BY <1>5 DEF InSlot, Calling
  <2>1. CASE u = t
    BY <1>1, <1>2, <1>4, <1>6, <2>1
  <2>2. CASE u # t
    BY <1>4, <1>5, <1>6, <2>2 DEF Turns, InSlot, InWheel
  <2> QED BY <2>1, <2>2
<1>13. InList'
  <2> SUFFICES ASSUME pc \in {"list", "listCall"}
               PROVE  /\ v \notin todo
                      /\ Walked(heap', rung', cursor, Taken(v))
                      /\ cursor # Nil => /\ rung'[cursor] = 0
                                         /\ heap'.call[cursor] => heap'.group[cursor] = Taken(v)
    BY <1>5 DEF InList
  <2>1. /\ v \notin todo
        /\ Walked(heap, rung, cursor, Taken(v))
        /\ cursor # Nil => rung[cursor] = 0 /\ (heap.call[cursor] => heap.group[cursor] = Taken(v))
    BY DEF Turns, InList
  <2>2. k # Taken(v)
    <3>1. v \in Diffs
      BY DEF Inv, Outside
    <3> QED BY <1>1, <3>1, KeyParts
  <2>3. Walked(heap', rung', cursor, Taken(v))
    BY <1>1, <1>3, <1>5, <2>1, <2>2, EnteredWalked DEF Inv
  <2>4. cursor # Nil => cursor \in Timers /\ cursor # t
    BY <1>1, <1>5 DEF Places
  <2> QED BY <1>4, <1>6, <2>1, <2>3, <2>4
<1>14. InListCall'
  <2> SUFFICES ASSUME pc = "listCall" PROVE left'[last] = 0 /\ rung'[last] = 1
    BY <1>5 DEF InListCall
  <2>1. last \in Timers /\ last # t
    BY <1>1, <1>5 DEF Inv, Cursor, Places
  <2> QED BY <1>4, <2>1 DEF Turns, InListCall
<1> QED BY <1>4, <1>8, <1>9, <1>10, <1>11, <1>12, <1>13, <1>14 DEF Turns

LEMMA SetTickTurns ==
    ASSUME Inv, Frames, Turns, NEW g \in Tags, SetTick(g)
    PROVE  Turns'
<1>1. PICK t \in Timers :
              /\ Fresh(t) /\ ~heap.call[t] /\ t # cursor /\ t # last
              /\ IsTicked(heap', heap, t) /\ Sound(heap')
              /\ Started /\ pc \in {"idle", "tickCall", "listCall"}
              /\ Reset(t, 0)
              /\ tagged' = [tagged EXCEPT ![g] = @ \cup {t}]
              /\ period' = [period EXCEPT ![t] = 0]
              /\ rung' = [rung EXCEPT ![t] = 1]
              /\ UNCHANGED <<count, local, left, extra, own, stops>>
  BY SetTickHeap
<1>3. /\ period \in [Timers -> Nat] /\ rung \in [Timers -> Nat]
      /\ left \in [Timers -> Nat] /\ extra \in [Timers -> Nat]
  BY DEF Frames, Turns
<1>4. /\ period'[t] = 0
      /\ \A u \in Timers : u # t => period'[u] = period[u] /\ rung'[u] = rung[u]
  BY <1>1, <1>3
<1>5. UNCHANGED <<pc, cursor, last, todo, v, df, count, left, extra>> /\ cursor \in Places
      /\ last \in Places
  BY <1>1 DEF local, Inv, Locals
<1>6. \A u \in Timers : /\ heap'.call[u] <=> u = t \/ heap.call[u]
                        /\ heap'.group[u] = heap.group[u]
  BY <1>1 DEF IsTicked
<1>7. /\ run' = TRUE
      /\ \A u \in Timers : heap.call[u] => cur' = cur
  BY <1>1 DEF Started, Turns, Running
<1>2. \A u \in Timers : InWheel(u)' => u # t /\ InWheel(u)
  <2>1. heap.group[t] \notin Keys
    BY <1>1, TimerNames DEF Inv, Sound, DeadOut
  <2> QED BY <1>6, <2>1 DEF InWheel
<1>8. Placed'
  <2> SUFFICES ASSUME pc # "error", NEW u \in Timers, InWheel(u)'
               PROVE  (IF heap.group[u][1] = 0 THEN left[u] = 0
                       ELSE IsAt(heap.group[u], cur + Due(u), count) /\ Due(u) < M * N)'
    BY <1>5 DEF Placed
  <2>1. u # t /\ InWheel(u) /\ heap'.group[u] = heap.group[u] /\ cur' = cur
    BY <1>2, <1>6, <1>7 DEF InWheel
  <2>2. Due(u)' = Due(u)
    BY <1>4, <1>5, <2>1 DEF Due, Calling
  <2> QED BY <1>5, <2>1, <2>2 DEF Turns, Placed
<1>9. Running'
  BY <1>7, <1>1 DEF Running
<1>10. Young'
  <2> SUFFICES ASSUME CanSkip PROVE df <= MaxSince /\ \A u \in Timers : since'[u] <= MaxSince
    BY <1>5 DEF Young
  <2>1. df <= MaxSince /\ \A u \in Timers : since[u] <= MaxSince
    BY DEF Turns, Young
  <2>2. 0 <= MaxSince
    BY TickerAssumption
  <2> QED BY <1>1, <2>1, <2>2 DEF Reset
<1>11. Resting'
  BY <1>4, <1>5, <1>6 DEF Turns, Resting
<1>12. InSlot'
  <2> SUFFICES ASSUME Calling, NEW u \in Timers, InWheel(u)'
               PROVE  (/\ heap.group[u][1] # 0 => rung[u] = IF left[u] = 0 THEN 1 ELSE 0
                       /\ heap.group[u][1] = 0 => /\ rung[u] <= 1
                                                  /\ period[u] \in todo => rung[u] = 0)'
    BY <1>5 DEF InSlot, Calling
  <2> QED BY <1>2, <1>4, <1>5, <1>6 DEF Turns, InSlot
<1>13. InList'
  <2> SUFFICES ASSUME pc \in {"list", "listCall"}
               PROVE  /\ v \notin todo
                      /\ Walked(heap', rung', cursor, Taken(v))
                      /\ cursor # Nil => /\ rung'[cursor] = 0
                                         /\ heap'.call[cursor] => heap'.group[cursor] = Taken(v)
    BY <1>5 DEF InList
  <2>1. /\ v \notin todo
        /\ Walked(heap, rung, cursor, Taken(v))
        /\ cursor # Nil => rung[cursor] = 0 /\ (heap.call[cursor] => heap.group[cursor] = Taken(v))
    BY DEF Turns, InList
  <2>3. Walked(heap', rung', cursor, Taken(v))
    BY <1>1, <1>3, <1>5, <2>1, TickedWalked DEF Inv
  <2>4. cursor # Nil => cursor \in Timers /\ cursor # t
    BY <1>1, <1>5 DEF Places
  <2> QED BY <1>4, <1>6, <2>1, <2>3, <2>4
<1>14. InListCall'
  <2> SUFFICES ASSUME pc = "listCall" PROVE left[last] = 0 /\ rung'[last] = 1
    BY <1>5 DEF InListCall
  <2>1. last \in Timers /\ last # t
    BY <1>1, <1>5 DEF Inv, Cursor, Places
  <2> QED BY <1>4, <2>1 DEF Turns, InListCall
<1> QED BY <1>3, <1>5, <1>8, <1>9, <1>10, <1>11, <1>12, <1>13, <1>14 DEF Turns

LEMMA RemoveTurns ==
    ASSUME Inv, Turns,
           (\E t \in Timers : RemoveTimer(t)) \/ (\E g \in Tags : RemoveTimerByTag(g))
    PROVE  Turns'
<1>1. /\ UNCHANGED <<run, cur, count, since, local, period, left, rung, extra>>
      /\ \A u \in Timers : heap'.call[u] => heap.call[u] /\ heap'.group[u] = heap.group[u]
      /\ Walked(heap, rung, cursor, Taken(v)) => Walked(heap', rung, cursor, Taken(v))
  <2>1. ASSUME NEW t \in Timers, RemoveTimer(t)
        PROVE  /\ UNCHANGED <<run, cur, count, since, local, period, left, rung, extra>>
               /\ \A u \in Timers : heap'.call[u] => heap.call[u] /\ heap'.group[u] = heap.group[u]
               /\ Walked(heap, rung, cursor, Taken(v)) => Walked(heap', rung, cursor, Taken(v))
    <3>1. /\ heap' = Removed(heap, t)
          /\ UNCHANGED <<run, cur, count, since, local, period, left, rung, extra>>
      BY <2>1 DEF RemoveTimer
    <3>2. Kept(heap', heap, {t})
      BY <3>1, KeptOne DEF Inv
    <3>3. Walked(heap, rung, cursor, Taken(v)) => Walked(heap', rung, cursor, Taken(v))
      BY <3>1, RemovedWalked DEF Inv, Locals
    <3> QED BY <3>1, <3>2, <3>3 DEF Kept
  <2>2. ASSUME NEW g \in Tags, RemoveTimerByTag(g)
        PROVE  /\ UNCHANGED <<run, cur, count, since, local, period, left, rung, extra>>
               /\ \A u \in Timers : heap'.call[u] => heap.call[u] /\ heap'.group[u] = heap.group[u]
               /\ Walked(heap, rung, cursor, Taken(v)) => Walked(heap', rung, cursor, Taken(v))
    <3>1. /\ heap' = RemovedAll(heap, tagged[g]) /\ tagged[g] \in SUBSET Timers
          /\ UNCHANGED <<run, cur, count, since, local, period, left, rung, extra>>
      BY <2>2 DEF RemoveTimerByTag, Inv, Locals
    <3>2. Kept(heap', heap, tagged[g])
      BY <3>1, KeptAll DEF Inv
    <3>3. Walked(heap, rung, cursor, Taken(v)) => Walked(heap', rung, cursor, Taken(v))
      BY <3>1, RemovedAllWalked DEF Inv, Locals
    <3> QED BY <3>1, <3>2, <3>3 DEF Kept
  <2> QED BY <2>1, <2>2
<1>2. UNCHANGED <<pc, cursor, last, todo, v, df>> /\ cursor \in Places
  BY <1>1 DEF local, Inv, Locals
<1>3. \A u \in Timers : InWheel(u)' => InWheel(u) /\ heap'.group[u] = heap.group[u]
  BY <1>1 DEF InWheel
<1>4. \A u \in Timers : Due(u)' = Due(u)
  BY <1>1, <1>2 DEF Due, Calling
<1>5. Placed'
  BY <1>1, <1>2, <1>3, <1>4 DEF Turns, Placed
<1>6. Running' /\ Young' /\ Resting'
  BY <1>1, <1>2 DEF Turns, Running, Young, Resting
<1>7. InSlot'
  BY <1>1, <1>2, <1>3 DEF Turns, InSlot, Calling
<1>8. InList' /\ InListCall'
  <2>1. cursor # Nil => cursor \in Timers
    BY <1>2 DEF Places
  <2> QED BY <1>1, <1>2, <2>1 DEF Turns, InList, InListCall
<1> QED BY <1>1, <1>5, <1>6, <1>7, <1>8 DEF Turns

LEMMA StopTurns ==
    ASSUME Inv, Turns, pc = "idle", Stop
    PROVE  Turns'
<1>1. /\ pc = "idle" /\ heap' = BlankAll(Cleared(heap)) /\ run' = FALSE
      /\ UNCHANGED <<pc, df, since, left, extra>>
  BY DEF Stop, local, owed
<1>2. AllFree(heap)
  BY <1>1 DEF Inv, Outside
<1>3. \A t \in Timers : ~heap'.call[t]
  BY <1>1, <1>2, BlankSound DEF Inv
<1>4. Placed' /\ Running' /\ Resting'
  BY <1>1, <1>3 DEF Placed, InWheel, Running, Resting
<1> QED BY <1>1, <1>4 DEF Turns, Young, InSlot, Calling, InList, InListCall

LEMMA TickTurns ==
    ASSUME Inv, Frames, Turns, NEW f \in 0..MaxFrame, NEW e \in 0..MaxFrame, Tick(f, e)
    PROVE  Turns'
<1>1. /\ pc = "idle" /\ pc' = "tick" /\ run
      /\ UNCHANGED <<heap, run, cur, count, df, period, left, extra>>
      /\ rung' = [t \in Timers |-> IF period[t] = 0 THEN 0 ELSE rung[t]]
      /\ since' = Older(e)
  BY DEF Tick, Go
<1>2. period \in [Timers -> Nat] /\ rung \in [Timers -> Nat] /\ since \in [Timers -> Int]
  BY DEF Frames, Inv, Locals
<1>3. Resting'
  BY <1>1, <1>2 DEF Turns, Resting
<1>4. Young'
  <2>1. CanSkip => \A t \in Timers : since[t] <= MaxSince => since'[t] <= MaxSince
    <3>1. e \in Nat
      BY TickerAssumption
    <3> QED BY <1>1, <3>1, OlderIs
  <2> QED BY <1>1, <2>1 DEF Turns, Young
<1>5. Placed'
  <2>1. \A t \in Timers : Due(t)' = Due(t) /\ (InWheel(t)' <=> InWheel(t))
    BY <1>1 DEF Due, Calling, InWheel
  <2> QED BY <1>1, <2>1 DEF Turns, Placed
<1>6. Running' /\ InSlot' /\ InList' /\ InListCall'
  BY <1>1 DEF Turns, Running, InSlot, Calling, InList, InListCall
<1> QED BY <1>1, <1>3, <1>4, <1>5, <1>6 DEF Turns

LEMMA CallNextTurns ==
    ASSUME Inv, Frames, Turns, TickStep \/ ListStep
    PROVE  Turns'
<1>1. /\ pc \in {"tick", "list"} /\ cursor \in Timers
      /\ pc' = IF ~heap.call[cursor] THEN "error"
               ELSE IF pc = "tick" THEN "tickCall" ELSE "listCall"
      /\ last' = cursor /\ cursor' = heap.next[cursor]
      /\ rung' = [rung EXCEPT ![cursor] = @ + 1]
      /\ UNCHANGED <<heap, run, cur, count, since, todo, v, df, period, left, extra>>
  BY CallNextStep DEF wheel
<1>2. /\ period \in [Timers -> Nat] /\ rung \in [Timers -> Nat] /\ Sound(heap)
      /\ rung' \in [Timers -> Nat] /\ rung'[cursor] = rung[cursor] + 1
      /\ \A t \in Timers : t # cursor => rung'[t] = rung[t]
  BY <1>1 DEF Frames, Inv
<1>3. cursor # Nil
  BY <1>1, TimerNames
<1>4. Running' /\ Young'
  BY <1>1 DEF Turns, Running, Young
<1>5. CASE ~heap.call[cursor]
  <2>1. pc' = "error"
    BY <1>1, <1>5
  <2> QED BY <1>1, <1>4, <2>1 DEF Turns, Placed, Resting, InSlot, Calling, InList, InListCall
<1>6. CASE heap.call[cursor] /\ pc = "tick"
  <2>1. pc' = "tickCall"
    BY <1>1, <1>6
  <2>2. Placed'
    <3>1. \A t \in Timers : Due(t)' = Due(t) /\ (InWheel(t)' <=> InWheel(t))
      BY <1>1, <1>6, <2>1 DEF Due, Calling, InWheel
    <3> QED BY <1>1, <1>6, <3>1 DEF Turns, Placed
  <2>3. Resting'
    <3>1. period[cursor] = 0
      BY <1>3, <1>6 DEF Frames, InTick
    <3> QED BY <1>1, <1>2, <1>6, <3>1 DEF Turns, Resting
  <2> QED BY <1>1, <1>4, <2>1, <2>2, <2>3 DEF Turns, InSlot, Calling, InList, InListCall
<1>7. CASE heap.call[cursor] /\ pc = "list"
  <2>1. pc' = "listCall"
    BY <1>1, <1>7
  <2>2. Placed'
    <3>1. \A t \in Timers : Due(t)' = Due(t) /\ (InWheel(t)' <=> InWheel(t))
      BY <1>1, <1>7, <2>1 DEF Due, Calling, InWheel
    <3> QED BY <1>1, <1>7, <3>1 DEF Turns, Placed
  <2>3. v \in Diffs /\ Taken(v) \in Keys /\ Taken(v)[1] = 0 /\ Taken(v)[3] = v
    BY <1>7, KeyParts DEF Inv, Outside
  <2>4. /\ v \notin todo /\ Walked(heap, rung, cursor, Taken(v))
        /\ rung[cursor] = 0 /\ heap.group[cursor] = Taken(v)
    BY <1>3, <1>7 DEF Turns, InList
  <2>5. /\ Walked(heap, rung', heap.next[cursor], Taken(v))
        /\ heap.next[cursor] # Nil =>
              /\ heap.next[cursor] \in Timers /\ heap.call[heap.next[cursor]]
              /\ heap.group[heap.next[cursor]] = Taken(v) /\ rung'[heap.next[cursor]] = 0
    <3>1. /\ Sound(heap) /\ rung \in [Timers -> Nat] /\ cursor \in Timers
          /\ heap.call[cursor] /\ heap.group[cursor] = Taken(v) /\ rung[cursor] = 0
          /\ Walked(heap, rung, cursor, Taken(v)) /\ rung' \in [Timers -> Nat]
          /\ rung'[cursor] = rung[cursor] + 1
          /\ \A t \in Timers : t # cursor => rung'[t] = rung[t]
      BY <1>1, <1>2, <1>7, <2>4
    <3> QED BY ONLY <3>1, WalkGoesOn
  <2>6. InList'
    BY <1>1, <2>4, <2>5 DEF InList
  <2>7. InWheel(cursor) /\ left[cursor] = 0 /\ period[cursor] = v
    <3>1. InWheel(cursor)
      BY <1>1, <1>7, <2>3, <2>4 DEF InWheel
    <3>2. left[cursor] = 0
      BY <1>1, <1>7, <2>3, <2>4, <3>1 DEF Turns, Placed
    <3>3. period[cursor] = v
      BY <1>1, <1>7, <2>3, <2>4, TimerNames DEF Frames, Filed
    <3> QED BY <3>1, <3>2, <3>3
  <2>8. InListCall'
    BY <1>1, <1>2, <2>4, <2>7 DEF InListCall
  <2>9. InSlot'
    <3> SUFFICES ASSUME NEW t \in Timers, InWheel(t)
                 PROVE  /\ heap.group[t][1] # 0 => rung'[t] = IF left[t] = 0 THEN 1 ELSE 0
                        /\ heap.group[t][1] = 0 => /\ rung'[t] <= 1
                                                   /\ period[t] \in todo => rung'[t] = 0
      BY <1>1 DEF InSlot, InWheel
    <3>1. CASE t = cursor
      BY <1>2, <2>3, <2>4, <2>7, <3>1
    <3>2. CASE t # cursor
      BY <1>2, <1>7, <3>2 DEF Turns, InSlot, Calling
    <3> QED BY <3>1, <3>2
  <2>10. Resting'
    BY <2>1 DEF Resting
  <2> QED BY <1>1, <1>4, <2>2, <2>6, <2>8, <2>9, <2>10 DEF Turns
<1> QED BY <1>1, <1>5, <1>6, <1>7

\* The slot that Call takes out of the wheel holds the timers whose turn it is.
LEMMA AtSlot ==
    ASSUME Inv, Frames, Turns, CallSlot, NEW t \in Timers, InWheel(t)
    PROVE  /\ heap.group[t][1] # 0 /\ period[t] # 0 /\ rung[t] = 0
           /\ IsAt(heap.group[t], cur + left[t], count) /\ left[t] < M * N /\ left[t] \in Nat
           /\ heap.group[t] \in Here(cur, count) <=> left[t] = 0
<1>1. pc = "loop" /\ AllFree(heap)
  BY CallSlotHeap
<1>2. heap.group[t] \in Keys /\ heap.call[t]
  BY DEF InWheel
<1>3. heap.group[t][1] # 0
  <2>1. heap.group[t][1] = 0 => heap.group[t] = Taken(heap.group[t][3]) /\ heap.group[t][3] \in Diffs
    BY <1>2, KeyParts
  <2>2. \A d \in Diffs : heap.group[t] # Taken(d)
    BY <1>1, KeyParts, EmptyList DEF AllFree, Inv
  <2> QED BY <2>1, <2>2
<1>4. period[t] # 0
  BY <1>2, FiledIn DEF Inv, Frames
<1>5. rung[t] = 0
  BY <1>1, <1>2, <1>4 DEF Turns, Resting
<1>6. IsAt(heap.group[t], cur + left[t], count) /\ left[t] < M * N
  <2>1. Due(t) = left[t]
    BY <1>1 DEF Due, Calling
  <2> QED BY <1>1, <1>3, <2>1 DEF Turns, Placed
<1>7. left[t] \in Nat /\ cur \in 0..N /\ count \in 0..M
  BY DEF Turns, Inv, Locals
<1>8. heap.group[t] \in Here(cur, count) <=> left[t] = 0
  BY <1>2, <1>3, <1>6, <1>7, AtHere
<1> QED BY <1>3, <1>4, <1>5, <1>6, <1>7, <1>8

LEMMA CallSlotTurns ==
    ASSUME Inv, Frames, Turns, CallSlot
    PROVE  Turns'
<1>1. /\ pc = "loop" /\ pc' = "groups" /\ heap' = Slotted(heap, cur, count) /\ AllFree(heap)
      /\ todo' = {k[3] : k \in {j \in Here(cur, count) : heap.list[j].head # Nil}}
      /\ UNCHANGED <<run, cur, count, since, v, df, period, left, rung, extra>>
  BY CallSlotHeap DEF owed
<1>2. /\ heap'.call = heap.call
      /\ \A t \in Timers : heap'.group[t] = IF heap.group[t] \in Here(cur, count)
                                            THEN Taken(heap.group[t][3]) ELSE heap.group[t]
  BY <1>1, SlottedIs DEF Inv, Sound, Locals
<1>3. \A k \in Here(cur, count) : /\ k \in Keys /\ Taken(k[3]) \in Keys
                                  /\ Taken(k[3])[1] = 0 /\ Taken(k[3])[3] = k[3]
  BY HereIs DEF Inv, Locals
<1>4. \A t \in Timers : InWheel(t)' => InWheel(t)
  BY <1>2, <1>3 DEF InWheel
<1>5. ASSUME NEW t \in Timers, InWheel(t)
      PROVE  /\ heap.group[t][1] # 0 /\ period[t] # 0 /\ rung[t] = 0
             /\ IsAt(heap.group[t], cur + left[t], count) /\ left[t] < M * N /\ left[t] \in Nat
             /\ heap.group[t] \in Here(cur, count) <=> left[t] = 0
  BY <1>5, AtSlot
<1>6. Placed'
  <2> SUFFICES ASSUME NEW t \in Timers, InWheel(t)'
               PROVE  (IF heap.group[t][1] = 0 THEN left[t] = 0
                       ELSE IsAt(heap.group[t], cur + Due(t), count) /\ Due(t) < M * N)'
    BY DEF Placed
  <2>1. CASE left[t] = 0
    <3>1. heap'.group[t][1] = 0
      BY <1>2, <1>3, <1>4, <1>5, <2>1
    <3> QED BY <1>1, <2>1, <3>1
  <2>2. CASE left[t] # 0
    <3>1. heap'.group[t] = heap.group[t] /\ Due(t)' = left[t]
      BY <1>1, <1>2, <1>4, <1>5, <2>2 DEF Due
    <3> QED BY <1>1, <1>4, <1>5, <2>2, <3>1
  <2> QED BY <2>1, <2>2
<1>7. InSlot'
  <2> SUFFICES ASSUME NEW t \in Timers, InWheel(t)'
               PROVE  (/\ heap.group[t][1] # 0 => rung[t] = IF left[t] = 0 THEN 1 ELSE 0
                       /\ heap.group[t][1] = 0 => /\ rung[t] <= 1
                                                  /\ period[t] \in todo => rung[t] = 0)'
    BY DEF InSlot
  <2>1. rung'[t] = 0
    BY <1>1, <1>4, <1>5
  <2>2. heap'.group[t][1] # 0 => left'[t] # 0
    BY <1>1, <1>2, <1>3, <1>4, <1>5
  <2> QED BY <2>1, <2>2
<1>8. Running' /\ Young' /\ Resting' /\ InList' /\ InListCall'
  BY <1>1, <1>2 DEF Turns, Running, Young, Resting, InList, InListCall
<1> QED BY <1>1, <1>6, <1>7, <1>8 DEF Turns

\* The timers of a list that Call still has to walk.
LEMMA NotCalledYet ==
    ASSUME Inv, Frames, Turns, pc = "groups", NEW d \in todo, NEW t \in Timers,
           heap.group[t] = Taken(d)
    PROVE  InWheel(t) /\ period[t] = d /\ rung[t] = 0 /\ left[t] = 0
<1>1. Taken(d) \in Keys /\ Taken(d)[1] = 0 /\ Taken(d)[3] = d
  BY KeyParts DEF Inv, Locals
<1>2. heap.call[t] /\ InWheel(t)
  BY <1>1, NeighboursLive DEF Inv, InWheel
<1>3. period[t] = d
  <2>1. period[t] # 0
    BY <1>1, FiledIn DEF Inv, Frames
  <2> QED BY <1>1, <1>2, <2>1 DEF Frames, Filed
<1>4. rung[t] = 0
  BY <1>1, <1>2, <1>3 DEF Turns, InSlot, Calling
<1>5. left[t] = 0
  BY <1>1, <1>2 DEF Turns, Placed
<1> QED BY <1>2, <1>3, <1>4, <1>5

\* The timers of the list that Call has walked.
LEMMA AllCalled ==
    ASSUME Inv, Frames, Turns, pc = "list", cursor = Nil, NEW t \in Timers,
           heap.group[t] = Taken(v)
    PROVE  InWheel(t) /\ period[t] = v /\ rung[t] = 1 /\ left[t] = 0
<1>1. Taken(v) \in Keys /\ Taken(v)[1] = 0 /\ Taken(v)[3] = v
  BY KeyParts DEF Inv, Outside
<1>2. heap.call[t] /\ InWheel(t)
  BY <1>1, NeighboursLive DEF Inv, InWheel
<1>3. period[t] = v
  <2>1. period[t] # 0
    BY <1>1, FiledIn DEF Inv, Frames
  <2> QED BY <1>1, <1>2, <2>1 DEF Frames, Filed
<1>4. rung[t] <= 1
  BY <1>1, <1>2 DEF Turns, InSlot, Calling
<1>5. rung[t] # 0
  <2>1. Walked(heap, rung, Nil, Taken(v))
    BY DEF Turns, InList
  <2> QED BY <1>2, <2>1, WalkIsDone DEF Inv, Frames
<1>6. left[t] = 0
  BY <1>1, <1>2 DEF Turns, Placed
<1>7. rung[t] \in Nat
  BY DEF Frames
<1> QED BY <1>2, <1>3, <1>4, <1>5, <1>6, <1>7

LEMMA ListStartTurns ==
    ASSUME Inv, Frames, Turns, ListStart
    PROVE  Turns'
<1>1. PICK d \in todo :
              /\ d \in Diffs /\ pc = "groups" /\ pc' = "list"
              /\ todo' = todo \ {d} /\ v' = d /\ cursor' = heap.list[Taken(d)].head
              /\ df' = (IF CanSkip /\ run /\ cursor' # Nil THEN since[cursor'] ELSE 0)
              /\ cursor' \in Places
              /\ cursor' # Nil => heap.group[cursor'] = Taken(d) /\ Taken(d) \in Keys
              /\ UNCHANGED <<wheel, last, group, loop, owed, stops>>
  BY ListStartStep
<1>2. UNCHANGED <<heap, run, cur, count, since, period, left, rung, extra>>
  BY <1>1 DEF wheel, owed
<1>3. Taken(d) \in Keys /\ Taken(d)[1] = 0 /\ Taken(d)[3] = d
  BY <1>1, KeyParts
<1>4. ASSUME NEW t \in Timers, heap.group[t] = Taken(d)
      PROVE  rung[t] = 0 /\ (heap.last[t] = Nil => t = heap.list[Taken(d)].head)
  <2>1. rung[t] = 0
    BY <1>1, <1>4, NotCalledYet
  <2>2. heap.last[t] = Nil => t = heap.list[Taken(d)].head
    BY <1>3, <1>4 DEF Inv, Sound, EndsOnly
  <2> QED BY <2>1, <2>2
<1>5. InList'
  <2>1. Walked(heap, rung, cursor', Taken(d))
    <3>1. \A t \in Timers : heap.call[t] /\ heap.group[t] = Taken(d) => rung[t] = 0
      BY <1>4
    <3>2. \A t \in Timers : heap.call[t] /\ heap.group[t] = Taken(d) /\ heap.last[t] = Nil
              => t = cursor'
      BY <1>1, <1>4
    <3>3. Sound(heap) /\ rung \in [Timers -> Nat]
      BY DEF Inv, Frames
    <3> QED BY ONLY <3>1, <3>2, <3>3, WalkBegins
  <2>2. cursor' # Nil => rung[cursor'] = 0 /\ heap.group[cursor'] = Taken(d)
    BY <1>1, <1>4 DEF Places
  <2> QED BY <1>1, <1>2, <2>1, <2>2 DEF InList
<1>6. Placed'
  <2>1. \A t \in Timers : Due(t)' = Due(t) /\ (InWheel(t)' <=> InWheel(t))
    BY <1>1, <1>2 DEF Due, Calling, InWheel
  <2> QED BY <1>1, <1>2, <2>1 DEF Turns, Placed
<1>7. InSlot'
  <2>1. \A t \in Timers : InWheel(t)' <=> InWheel(t)
    BY <1>2 DEF InWheel
  <2> QED BY <1>1, <1>2, <2>1 DEF Turns, InSlot, Calling
<1>8. Young'
  <2> SUFFICES ASSUME CanSkip PROVE df' <= MaxSince /\ \A t \in Timers : since[t] <= MaxSince
    BY <1>2 DEF Young
  <2>1. \A t \in Timers : since[t] <= MaxSince
    BY DEF Turns, Young
  <2>2. 0 <= MaxSince
    BY TickerAssumption
  <2> QED BY <1>1, <2>1, <2>2 DEF Places
<1>9. Running' /\ Resting' /\ InListCall'
  BY <1>1, <1>2 DEF Turns, Running, Resting, InListCall
<1> QED BY <1>2, <1>5, <1>6, <1>7, <1>8, <1>9 DEF Turns

\* The list is put off by less than the counter can tell apart.
InReach == pc = "list" => Over \in Nat /\ v + Over * N \in Nat /\ v + Over * N < M * N

LEMMA ListEndTurns ==
    ASSUME Inv, Frames, Turns, InReach, ListEnd
    PROVE  Turns'
<1>1. /\ cursor = Nil /\ pc = "list" /\ pc' = "groups" /\ v \in Diffs /\ Over \in Int
      /\ SlotOf(cur, count, v, Over) \in Keys /\ SlotOf(cur, count, v, Over)[1] # 0
      /\ SlotOf(cur, count, v, Over)[3] = v
      /\ IF heap.list[Taken(v)].head = Nil THEN heap' = heap
         ELSE IsMoved(heap', heap, Taken(v), SlotOf(cur, count, v, Over))
      /\ extra' = [t \in Timers |-> IF heap.group[t] = Taken(v) THEN Over * N ELSE extra[t]]
      /\ UNCHANGED <<run, cur, count, since, cursor, last, todo, v, df, period, left, rung>>
  BY ListEndHeap
<1> DEFINE k == SlotOf(cur, count, v, Over)
           j == Taken(v)
<1>2. k \in Keys /\ k[1] # 0 /\ k[3] = v /\ j \in Keys /\ j[1] = 0 /\ j[3] = v
  BY <1>1, KeyParts
<1>3. /\ left \in [Timers -> Nat] /\ extra \in [Timers -> Nat] /\ period \in [Timers -> Nat]
      /\ rung \in [Timers -> Nat] /\ cur \in 0..N /\ count \in 0..M
  BY DEF Turns, Frames, Inv, Locals
<1>4. Over \in Nat /\ v + Over * N \in Nat /\ v + Over * N < M * N /\ Over * N \in Nat
  <2>1. Over \in Nat /\ v + Over * N \in Nat /\ v + Over * N < M * N
    BY <1>1 DEF InReach
  <2>2. Over * N \in Nat
    BY <2>1, TickerAssumption
  <2> QED BY <2>1, <2>2
<1>5. IsAt(k, cur + (v + Over * N), count)
  <2>1. IsAt(k, cur + v + Over * N, count)
    BY <1>1, <1>3, <1>4, SlotIsAt
  <2>2. cur + v + Over * N = cur + (v + Over * N)
    BY <1>3, <1>4, KeyParts, <1>1
  <2> QED BY <2>1, <2>2
<1> HIDE DEF k, j
<1>6. /\ \A u \in Timers : /\ heap'.call[u] <=> heap.call[u]
                           /\ heap'.group[u] = IF heap.group[u] = j THEN k ELSE heap.group[u]
  <2>1. CASE heap.list[j].head = Nil
    <3>1. heap' = heap /\ \A u \in Timers : heap.group[u] # j
      BY <1>1, <1>2, <2>1, EmptyList DEF Inv, j
    <3> QED BY <3>1
  <2>2. CASE heap.list[j].head # Nil
    BY <1>1, <2>2 DEF IsMoved, j, k
  <2> QED BY <2>1, <2>2
<1>7. \A u \in Timers : extra'[u] = IF heap.group[u] = j THEN Over * N ELSE extra[u]
  BY <1>1 DEF j
<1>8. extra' \in [Timers -> Nat]
  BY <1>1, <1>3, <1>4
<1>9. \A u \in Timers : InWheel(u)' <=> InWheel(u)
  BY <1>2, <1>6 DEF InWheel
<1>10. ASSUME NEW u \in Timers, heap.group[u] = j
       PROVE  left[u] = 0 /\ rung[u] = 1 /\ period[u] = v
  BY <1>1, <1>10, AllCalled DEF j
<1>11. Placed'
  <2> SUFFICES ASSUME NEW u \in Timers, InWheel(u)
               PROVE  (IF heap.group[u][1] = 0 THEN left[u] = 0
                       ELSE IsAt(heap.group[u], cur + Due(u), count) /\ Due(u) < M * N)'
    BY <1>9 DEF Placed
  <2>1. CASE heap.group[u] = j
    <3>1. heap'.group[u] = k
      BY <1>6, <2>1
    <3>2. Due(u)' = v + Over * N
      BY <1>1, <1>7, <1>10, <2>1 DEF Due, Calling
    <3> QED BY <1>1, <1>2, <1>4, <1>5, <3>1, <3>2
  <2>2. CASE heap.group[u] # j
    <3>1. heap'.group[u] = heap.group[u] /\ Due(u)' = Due(u)
      BY <1>1, <1>6, <1>7, <2>2 DEF Due, Calling
    <3> QED BY <1>1, <3>1 DEF Turns, Placed
  <2> QED BY <2>1, <2>2
<1>12. InSlot'
  <2> SUFFICES ASSUME NEW u \in Timers, InWheel(u)
               PROVE  (/\ heap.group[u][1] # 0 => rung[u] = IF left[u] = 0 THEN 1 ELSE 0
                       /\ heap.group[u][1] = 0 => /\ rung[u] <= 1
                                                  /\ period[u] \in todo => rung[u] = 0)'
    BY <1>9 DEF InSlot
  <2>1. CASE heap.group[u] = j
    BY <1>1, <1>2, <1>6, <1>10, <2>1
  <2>2. CASE heap.group[u] # j
    <3>1. heap'.group[u] = heap.group[u]
      BY <1>6, <2>2
    <3> QED BY <1>1, <3>1 DEF Turns, InSlot, Calling
  <2> QED BY <2>1, <2>2
<1>13. Running' /\ Young' /\ Resting' /\ InList' /\ InListCall'
  BY <1>1, <1>6 DEF Turns, Running, Young, Resting, InList, InListCall
<1> QED BY <1>1, <1>3, <1>8, <1>11, <1>12, <1>13 DEF Turns

\* When Call is done with its slot, all lists are back in the wheel.
LEMMA AllPutBack ==
    ASSUME Inv, pc = "groups", todo = {}, NEW t \in Timers, InWheel(t)
    PROVE  heap.group[t][1] # 0
<1>1. heap.group[t] \in Keys
  BY DEF InWheel
<1>2. heap.group[t][1] = 0 => heap.group[t] = Taken(heap.group[t][3]) /\ heap.group[t][3] \in Diffs
  BY <1>1, KeyParts
<1>3. \A d \in Diffs : heap.list[Taken(d)].head = Nil /\ Taken(d) \in Keys
  BY KeyParts DEF Inv, Outside
<1>4. \A d \in Diffs : heap.group[t] # Taken(d)
  BY <1>3, EmptyList DEF Inv
<1> QED BY <1>2, <1>4

\* Every timer in the wheel comes nearer by one slot.
LEMMA AllAdvance ==
    ASSUME Inv, Frames, Turns, Advance, NEW t \in Timers, InWheel(t)
    PROVE  /\ heap.group[t][1] # 0
           /\ Due(t) \in Nat /\ 1 <= Due(t) /\ left'[t] = Due(t) - 1
<1>1. todo = {} /\ pc = "groups"
  BY AdvanceStep
<1>2. left'[t] = IF period[t] = 0 THEN 0
                 ELSE (IF left[t] = 0 THEN period[t] + extra[t] ELSE left[t]) - 1
  BY DEF Advance
<1>3. left[t] \in Nat /\ extra[t] \in Nat /\ period[t] \in Nat
  BY DEF Turns, Frames
<1>4. heap.group[t][1] # 0 /\ period[t] # 0
  BY <1>1, AllPutBack, FiledIn DEF Inv, Frames, InWheel
<1> QED BY <1>1, <1>2, <1>3, <1>4 DEF Due, Calling

LEMMA AdvanceTurns ==
    ASSUME Inv, Frames, Turns, Advance
    PROVE  Turns'
<1>1. /\ todo = {} /\ pc = "groups" /\ pc' = "loop" /\ cur' \in 0..N /\ count' \in 0..M
      /\ cur' = (IF cur = N THEN 1 ELSE cur + 1)
      /\ count' = (IF cur = N THEN GroupCountConstraint(count + 1) ELSE count)
      /\ UNCHANGED <<heap, run, since, cursor, last, todo, v, df, period>>
  BY AdvanceStep
<1>2. /\ left' = [t \in Timers |-> IF period[t] = 0 THEN 0
                              ELSE (IF left[t] = 0 THEN period[t] + extra[t] ELSE left[t]) - 1]
      /\ rung' = [t \in Timers |-> IF period[t] = 0 THEN rung[t] ELSE 0]
      /\ extra' = [t \in Timers |-> 0]
  BY DEF Advance
<1>3. /\ left \in [Timers -> Nat] /\ extra \in [Timers -> Nat] /\ period \in [Timers -> Nat]
      /\ rung \in [Timers -> Nat] /\ cur \in 0..N /\ count \in 0..M
  BY DEF Turns, Frames, Inv, Locals
<1>4. left' \in [Timers -> Nat] /\ extra' \in [Timers -> Nat]
  <2>1. \A t \in Timers : (IF period[t] = 0 THEN 0
              ELSE (IF left[t] = 0 THEN period[t] + extra[t] ELSE left[t]) - 1) \in Nat
    BY <1>3
  <2> QED BY <1>2, <2>1
<1>5. ASSUME NEW t \in Timers, InWheel(t)
      PROVE  /\ heap.group[t][1] # 0
             /\ IsAt(heap.group[t], cur' + left'[t], count') /\ left'[t] < M * N
  <2>1. heap.group[t][1] # 0 /\ heap.group[t] \in Keys
    BY <1>5, AllAdvance DEF InWheel
  <2>3. PICK l \in Nat : l = Due(t)
    BY <1>5, AllAdvance
  <2>4. l >= 1 /\ left'[t] = l - 1
    BY <1>5, <2>3, AllAdvance
  <2>5. IsAt(heap.group[t], cur + l, count) /\ l < M * N
    BY <1>1, <1>5, <2>1, <2>3 DEF Turns, Placed
  <2>6. IF cur = N THEN IsAt(heap.group[t], l, GroupCountConstraint(count + 1))
        ELSE IsAt(heap.group[t], (cur + 1) + (l - 1), count)
    BY <1>3, <2>1, <2>4, <2>5, AtAdvances
  <2>7. l - 1 < M * N /\ 1 + (l - 1) = l
    BY <2>5, TickerAssumption
  <2>8. IsAt(heap.group[t], cur' + (l - 1), count')
    BY <1>1, <2>6, <2>7
  <2> QED BY <2>1, <2>4, <2>7, <2>8
<1>6. Placed'
  <2> SUFFICES ASSUME NEW t \in Timers, InWheel(t)'
               PROVE  (IF heap.group[t][1] = 0 THEN left[t] = 0
                       ELSE IsAt(heap.group[t], cur + Due(t), count) /\ Due(t) < M * N)'
    BY DEF Placed
  <2>1. InWheel(t)
    BY <1>1 DEF InWheel
  <2>2. Due(t)' = left'[t]
    BY <1>1 DEF Due, Calling
  <2> QED BY <1>1, <1>5, <2>1, <2>2
<1>7. Resting'
  BY <1>1, <1>2 DEF Resting
<1>8. Running' /\ Young' /\ InSlot' /\ InList' /\ InListCall'
  BY <1>1 DEF Turns, Running, Young, InSlot, Calling, InList, InListCall
<1> QED BY <1>4, <1>6, <1>7, <1>8 DEF Turns

\* A step within Tick that moves neither timers nor the wheel.
LEMMA QuietTurns ==
    ASSUME Inv, Frames, Turns, TickReturn \/ TickEnd \/ ListReturn \/ LoopEnd \/ UNCHANGED vars
    PROVE  Turns'
<1>1. CASE TickReturn \/ TickEnd \/ LoopEnd
  <2>1. /\ pc \in {"tickCall", "tick", "loop"} /\ pc' \in {"tick", "loop", "idle"}
        /\ UNCHANGED <<heap, run, cur, count, since, period, left, rung, extra>>
        /\ df' = df \/ df' = 0
    BY <1>1 DEF TickReturn, TickEnd, LoopEnd, Go, wheel, owed
  <2>2. \A t \in Timers : Due(t)' = Due(t) /\ (InWheel(t)' <=> InWheel(t))
    BY <2>1 DEF Due, Calling, InWheel
  <2>3. Placed'
    BY <2>1, <2>2 DEF Turns, Placed
  <2>4. Young'
    BY <2>1, TickerAssumption DEF Turns, Young
  <2> QED BY <2>1, <2>3, <2>4 DEF Turns, Running, Resting, InSlot, Calling, InList, InListCall
<1>2. CASE ListReturn
  <2>1. /\ pc = "listCall" /\ pc' = "list" /\ since' = [since EXCEPT ![last] = 0]
        /\ UNCHANGED <<heap, run, cur, count, cursor, todo, v, df, period, left, rung, extra>>
    BY <1>2 DEF ListReturn, Go, owed, Turns, Running
  <2>2. \A t \in Timers : Due(t)' = Due(t) /\ (InWheel(t)' <=> InWheel(t))
    BY <2>1 DEF Due, Calling, InWheel
  <2>3. Placed'
    BY <2>1, <2>2 DEF Turns, Placed
  <2>4. Young'
    <3>1. 0 <= MaxSince /\ since \in [Timers -> Int]
      BY TickerAssumption DEF Inv, Locals
    <3> QED BY <2>1, <3>1 DEF Turns, Young
  <2>5. InSlot'
    BY <2>1, <2>2 DEF Turns, InSlot, Calling
  <2> QED BY <2>1, <2>3, <2>4, <2>5 DEF Turns, Running, Resting, InList, InListCall
<1>3. CASE UNCHANGED vars
  BY <1>3 DEF vars, wheel, local, owed, Turns, Placed, InWheel, Due, Calling, Running, Young,
     Resting, InSlot, InList, InListCall
<1> QED BY <1>1, <1>2, <1>3

LEMMA InsideTurns ==
    ASSUME Inv, Frames, Turns, InReach, Inside \/ UNCHANGED vars
    PROVE  Turns'
BY QuietTurns, CallNextTurns, CallSlotTurns, ListStartTurns, ListEndTurns, AdvanceTurns
DEF Inside

LEMMA NextTurns ==
    ASSUME Inv, Frames, Turns, InReach, ~StopInCalls, [Next]_vars
    PROVE  Turns'
<1>1. CASE \E g \in Tags : SetTick(g)
  BY <1>1, SetTickTurns
<1>2. CASE \E g \in Tags, d \in Diffs : SetTimer(d, g)
  BY <1>2, SetTimerTurns
<1>3. CASE (\E t \in Timers : RemoveTimer(t)) \/ (\E g \in Tags : RemoveTimerByTag(g))
  BY <1>3, RemoveTurns
<1>4. CASE Stop
  BY <1>4, StopTurns DEF Stop
<1>5. CASE \E f, e \in 0..MaxFrame : Tick(f, e)
  BY <1>5, TickTurns
<1>6. CASE Inside \/ UNCHANGED vars
  BY <1>6, InsideTurns
<1> QED BY <1>1, <1>2, <1>3, <1>4, <1>5, <1>6 DEF Next, Api, Raised

LEMMA AlwaysTurns ==
    ASSUME ~StopInCalls, CanSkip => MaxSince < M * N * R
    PROVE  Spec => [](Inv /\ Frames /\ Turns)
<1> DEFINE I == Inv /\ Frames /\ Turns
<1>1. Init => I
  BY InitInv, InitFrames, InitTurns
<1>2. I /\ [Next]_vars => I'
  <2>1. I => InReach
    BY OverBound DEF Turns, Young, Inv, Locals, Outside, InReach
  <2> QED BY <2>1, NextInv, NextFrames, NextTurns
<1> HIDE DEF I
<1>3. Spec => []I
  BY <1>1, <1>2, PTL DEF Spec
<1> QED BY <1>3 DEF I

LEMMA TurnsOnTime == ASSUME Inv, Frames, Turns PROVE OnTime
<1>1. pc = "listCall" => left[last] = 0 /\ rung[last] = 1
  BY DEF Turns, InListCall
<1>2. ASSUME pc = "groups", todo = {}, NEW t \in Timers, heap.call[t], period[t] > 0
      PROVE  rung[t] = IF left[t] = 0 THEN 1 ELSE 0
  <2>1. period[t] # 0
    BY <1>2 DEF Frames
  <2>2. InWheel(t)
    BY <1>2, <2>1 DEF Frames, Filed, InWheel
  <2>3. heap.group[t][1] # 0
    BY <1>2, <2>2, AllPutBack
  <2> QED BY <1>2, <2>2, <2>3 DEF Turns, InSlot, Calling
<1> QED BY <1>1, <1>2 DEF OnTime

\* Call reaches a timer when the wheel has made as many steps as its period says, and the
\* revolutions left out, and once; no live timer's turn passes without a call, for any size of
\* the wheel, although its counter wraps, and whatever callbacks add and remove
\* (Ticker.lua:77-104, :209-236): as long as no callback stops the ticker, and no list is
\* later than the counter can tell apart.
THEOREM TimersOnTime ==
    ASSUME ~StopInCalls, CanSkip => MaxSince < M * N * R
    PROVE  Spec => []OnTime
<1>1. Inv /\ Frames /\ Turns => OnTime
  BY TurnsOnTime
<1> QED BY <1>1, AlwaysTurns, PTL

-----------------------------------------------------------------------------
(* A late wheel.  No callback sets timers or stops the ticker. *)

\* How far the wheel is behind.
Backlog == time - (group - loop) * R

\* The slots from here to a timer.
Ahead(t) == IF heap.group[t][1] = 0 THEN 0 ELSE Due(t)

Behind ==
    /\ 0 <= time /\ time <= MaxTime /\ 0 <= loop /\ loop <= group /\ group * R <= time
    /\ pc \in {"idle", "tick", "tickCall"} => group = 0
    /\ Calling => 1 <= loop

\* The age of a timer is what its period and the backlog explain.
Explained(t) == since[t] <= Backlog + (period[t] - Ahead(t)) * R - R
Aged == CanSkip /\ pc # "error" => \A t \in Timers : InWheel(t) => Explained(t)

AgedList == CanSkip /\ pc \in {"list", "listCall"} => df <= Backlog + v * R - R

CalledNow == CanSkip /\ pc \in {"list", "listCall"} => \A t \in Timers :
    InWheel(t) /\ heap.group[t] = Taken(v) /\ rung[t] = 1 /\ ~(pc = "listCall" /\ t = last)
       => since[t] <= 0

LastHere == pc = "listCall" => (heap.call[last] => heap.group[last] = Taken(v))

Skips ==
    /\ pc \in {"idle", "tick", "tickCall", "loop"} => \A t \in Timers : extra[t] = 0
    /\ Calling => \A t \in Timers : extra[t] * R <= Backlog - R

InTime == Behind /\ Aged /\ AgedList /\ CalledNow /\ LastHere /\ Skips

LEMMA IntsAre ==
    ASSUME Inv
    PROVE  /\ R \in Nat \ {0} /\ N \in Nat \ {0} /\ MaxTime \in Nat
           /\ time \in Int /\ group \in Int /\ loop \in Int /\ df \in Int
           /\ group * R \in Int /\ loop * R \in Int /\ (group - loop) * R = group * R - loop * R
           /\ Backlog \in Int /\ since \in [Timers -> Int]
<1>1. /\ R \in Nat \ {0} /\ N \in Nat \ {0} /\ MaxTime \in Nat
      /\ time \in Int /\ group \in Int /\ loop \in Int /\ df \in Int /\ since \in [Timers -> Int]
  BY TickerAssumption DEF Inv, Locals
<1>2. /\ group * R \in Int /\ loop * R \in Int /\ (group - loop) * R = group * R - loop * R
  BY <1>1
<1> QED BY <1>1, <1>2 DEF Backlog

\* In the middle of a slot there is at least this slot to do.
LEMMA BacklogIs ==
    ASSUME Inv, Behind
    PROVE  /\ 1 <= loop => R <= Backlog
           /\ Calling => R <= Backlog
           /\ Backlog <= time
           /\ pc \in {"idle", "tick", "tickCall"} => Backlog = time /\ loop = 0
<1>1. /\ R \in Nat \ {0} /\ time \in Int /\ group \in Int /\ loop \in Int
      /\ group * R \in Int /\ loop * R \in Int /\ (group - loop) * R = group * R - loop * R
  BY IntsAre
<1>2. Backlog = (time - group * R) + loop * R
  BY <1>1 DEF Backlog
<1>3. loop * R <= group * R
  <2>1. PICK z \in Nat : group = loop + z
    <3>1. group - loop \in Nat /\ group = loop + (group - loop)
      BY <1>1 DEF Behind
    <3> QED BY <3>1
  <2>2. group * R = loop * R + z * R /\ z * R \in Nat
    BY <1>1, <2>1
  <2> QED BY <1>1, <2>2
<1>4. 1 <= loop => R <= loop * R
  BY <1>1
<1>5. ASSUME pc \in {"idle", "tick", "tickCall"} PROVE Backlog = time /\ loop = 0
  <2>1. group = 0 /\ loop = 0
    BY <1>1, <1>5 DEF Behind
  <2>2. 0 * R = 0
    BY <1>1
  <2> QED BY <1>1, <1>2, <2>1, <2>2
<1>6. (1 <= loop => R <= Backlog) /\ Backlog <= time
  BY <1>1, <1>2, <1>3, <1>4 DEF Behind
<1>7. Calling => 1 <= loop
  BY DEF Behind
<1> QED BY <1>5, <1>6, <1>7

\* Then a list is never put off by more than the backlog.
LEMMA OverInTime ==
    ASSUME Inv, InTime, pc = "list"
    PROVE  /\ Over \in Nat /\ Over * N \in Nat /\ (Over * N) * R \in Nat
           /\ (Over * N) * R <= Backlog - R
<1>1. v \in Diffs /\ v * R \in Int /\ R <= Backlog /\ Backlog \in Int /\ R \in Nat /\ df \in Int
  <2>1. v \in Diffs /\ v \in Nat
    BY KeyParts DEF Inv, Outside
  <2>2. v * R \in Int
    BY <2>1, IntsAre
  <2> QED BY <2>1, <2>2, IntsAre, BacklogIs DEF InTime, Calling
<1>2. /\ Over \in Nat /\ Over * N \in Nat /\ (Over * N) * R \in Nat
      /\ IF CanSkip /\ df > v * R THEN (Over * N) * R <= df - v * R ELSE Over = 0
  BY <1>1, OverIs
<1>3. CanSkip => df <= Backlog + v * R - R
  BY DEF InTime, AgedList
<1>4. Over = 0 => (Over * N) * R = 0
  <2>1. 0 * N = 0 /\ 0 * R = 0
    BY IntsAre
  <2> QED BY <2>1
<1> QED BY <1>1, <1>2, <1>3, <1>4

LEMMA InTimeReaches ==
    ASSUME Inv, InTime, \A d \in Diffs : d * R + MaxTime <= M * N * R
    PROVE  InReach
<1> SUFFICES ASSUME pc = "list"
             PROVE  Over \in Nat /\ v + Over * N \in Nat /\ v + Over * N < M * N
  BY DEF InReach
<1>1. v \in Diffs /\ v \in Nat
  BY KeyParts DEF Inv, Outside
<1>2. /\ Over \in Nat /\ Over * N \in Nat /\ (Over * N) * R \in Nat
      /\ (Over * N) * R <= Backlog - R
  BY OverInTime
<1>3. Backlog <= time /\ time <= MaxTime
  BY BacklogIs DEF InTime, Behind
<1>4. v * R + (Backlog - R) < M * N * R /\ Backlog - R \in Int
  <2>1. v * R \in Int /\ M * N * R \in Int
    BY <1>1, IntsAre, TickerAssumption
  <2>2. v * R + MaxTime <= M * N * R
    BY <1>1
  <2> QED BY <1>3, <2>1, <2>2, IntsAre
<1> QED BY <1>1, <1>2, <1>4, Reaches

LEMMA InitInTime == Init => InTime
<1> SUFFICES ASSUME Init PROVE InTime
  OBVIOUS
<1>1. /\ pc = "idle" /\ time = 0 /\ group = 0 /\ loop = 0
      /\ \A t \in Timers : heap.call[t] = FALSE
      /\ \A t \in Timers : extra[t] = 0
  BY DEF Init
<1>2. Aged
  BY <1>1, Zenon DEF Aged, InWheel
<1>3. Behind
  <2>1. 0 * R = 0 /\ 0 <= MaxTime
    BY TickerAssumption
  <2> QED BY <1>1, <2>1 DEF Behind, Calling
<1> QED BY <1>1, <1>2, <1>3 DEF InTime, AgedList, CalledNow, LastHere, Skips, Calling

LEMMA AheadIs ==
    ASSUME Inv, Frames, Turns, NEW t \in Timers
    PROVE  /\ Ahead(t) \in Nat /\ Due(t) \in Nat /\ period[t] \in Nat /\ since[t] \in Int
           /\ (period[t] - Ahead(t)) * R \in Int
<1>1. left[t] \in Nat /\ extra[t] \in Nat /\ period[t] \in Nat /\ since[t] \in Int
  BY DEF Turns, Frames, Inv, Locals
<1>2. Due(t) \in Nat
  BY <1>1 DEF Due
<1>3. Ahead(t) \in Nat
  BY <1>2 DEF Ahead
<1>4. (period[t] - Ahead(t)) * R \in Int
  BY <1>1, <1>3, IntsAre
<1> QED BY <1>1, <1>2, <1>3, <1>4

LEMMA SetTimerInTime ==
    ASSUME Inv, Frames, Turns, InTime, pc = "idle", NEW d \in Diffs, NEW g \in Tags, SetTimer(d, g)
    PROVE  InTime'
<1>1. PICK t \in Timers, k \in Keys :
              /\ Fresh(t) /\ ~heap.call[t] /\ t # cursor /\ t # last /\ k[1] # 0 /\ k[3] = d
              /\ k = SlotOf(cur', count, d, 0)
              /\ IsEntered(heap', heap, t, k)
              /\ Started /\ pc \in {"idle", "tickCall", "listCall"}
              /\ Reset(t, Since(time' - R))
              /\ tagged' = [tagged EXCEPT ![g] = @ \cup {t}]
              /\ period' = [period EXCEPT ![t] = d] /\ left' = [left EXCEPT ![t] = d]
              /\ rung' = [rung EXCEPT ![t] = 0] /\ extra' = [extra EXCEPT ![t] = 0]
              /\ UNCHANGED <<count, local, own, stops>>
  BY SetTimerHeap
<1>2. /\ UNCHANGED <<pc, group, loop>> /\ group = 0 /\ loop = 0 /\ Backlog = time
      /\ time' \in Int /\ 0 <= time' /\ time' <= MaxTime
      /\ (\E u \in Timers : heap.call[u]) => time' = time
  <2>1. UNCHANGED <<pc, group, loop>> /\ group = 0 /\ loop = 0 /\ Backlog = time
    BY <1>1, BacklogIs DEF local, InTime, Behind
  <2>2. time' = IF run THEN time ELSE 0
    BY <1>1 DEF Started
  <2>3. time \in Int /\ 0 <= time /\ time <= MaxTime /\ MaxTime \in Nat
    BY IntsAre DEF InTime, Behind
  <2>4. (\E u \in Timers : heap.call[u]) => run
    BY DEF Turns, Running
  <2> QED BY <2>1, <2>2, <2>3, <2>4
<1>3. R \in Nat \ {0} /\ 0 * R = 0 /\ (0 - 0) * R = 0 /\ d \in Nat
  BY IntsAre, KeyParts
<1>4. Backlog' = time'
  <2>1. group' - loop' = 0 /\ (group' - loop') * R = 0
    <3>1. group' = 0 /\ loop' = 0
      BY <1>2
    <3> QED BY <1>3, <3>1
  <2> QED BY <1>2, <2>1 DEF Backlog
<1>5. Behind'
  BY <1>2, <1>3 DEF Behind, Calling
<1>6. \A u \in Timers : /\ heap'.call[u] <=> u = t \/ heap.call[u]
                        /\ heap'.group[u] = IF u = t THEN k ELSE heap.group[u]
  BY <1>1 DEF IsEntered
<1>7. /\ period \in [Timers -> Nat] /\ left \in [Timers -> Nat] /\ extra \in [Timers -> Nat]
      /\ since \in [Timers -> Int]
  BY DEF Frames, Turns, Inv, Locals
<1>8. Aged'
  <2> SUFFICES ASSUME CanSkip, NEW u \in Timers, InWheel(u)' PROVE Explained(u)'
    BY DEF Aged
  <2>1. CASE u = t
    <3>1. heap'.group[t] = k /\ period'[t] = d /\ left'[t] = d
      BY <1>1, <1>6, <1>7
    <3>2. Ahead(t)' = d
      BY <1>1, <1>2, <3>1 DEF Ahead, Due, Calling
    <3>3. (d - d) * R = 0
      BY <1>3
    <3>4. since'[t] <= time' - R
      <4>1. since'[t] = Since(time' - R) /\ time' - R \in Int
        BY <1>1, <1>2, <1>3 DEF Reset
      <4> QED BY <4>1, SinceIs
    <3>5. period'[t] - Ahead(t)' = d - d
      BY <3>1, <3>2
    <3> QED BY <1>2, <1>3, <1>4, <2>1, <3>3, <3>4, <3>5 DEF Explained
  <2>2. CASE u # t
    <3>1. heap.call[u] /\ heap'.group[u] = heap.group[u]
      BY <1>6, <2>2 DEF InWheel
    <3>2. InWheel(u) /\ time' = time
      BY <1>2, <2>2, <3>1 DEF InWheel
    <3>3. period'[u] = period[u] /\ left'[u] = left[u] /\ since'[u] = since[u]
      <4>1. run
        BY <3>1 DEF Turns, Running
      <4> QED BY <1>1, <1>7, <2>2, <4>1 DEF Reset
    <3>4. Ahead(u)' = Ahead(u)
      BY <1>2, <3>1, <3>3 DEF Ahead, Due, Calling
    <3>5. Explained(u)
      BY <3>2 DEF InTime, Aged
    <3> QED BY <1>2, <1>4, <3>2, <3>3, <3>4, <3>5 DEF Explained
  <2> QED BY <2>1, <2>2
<1>9. Skips'
  BY <1>1, <1>2, <1>7 DEF InTime, Skips, Calling
<1> QED BY <1>2, <1>5, <1>8, <1>9 DEF InTime, AgedList, CalledNow, LastHere

LEMMA SetTickInTime ==
    ASSUME Inv, Frames, Turns, InTime, pc = "idle", NEW g \in Tags, SetTick(g)
    PROVE  InTime'
<1>1. PICK t \in Timers :
              /\ Fresh(t) /\ ~heap.call[t] /\ t # cursor /\ t # last
              /\ IsTicked(heap', heap, t) /\ Sound(heap')
              /\ Started /\ pc \in {"idle", "tickCall", "listCall"}
              /\ Reset(t, 0)
              /\ tagged' = [tagged EXCEPT ![g] = @ \cup {t}]
              /\ period' = [period EXCEPT ![t] = 0]
              /\ rung' = [rung EXCEPT ![t] = 1]
              /\ UNCHANGED <<count, local, left, extra, own, stops>>
  BY SetTickHeap
<1>2. /\ UNCHANGED <<pc, group, loop>> /\ group = 0 /\ loop = 0 /\ Backlog = time
      /\ time' \in Int /\ 0 <= time' /\ time' <= MaxTime
      /\ (\E u \in Timers : heap.call[u]) => time' = time
  <2>1. UNCHANGED <<pc, group, loop>> /\ group = 0 /\ loop = 0 /\ Backlog = time
    BY <1>1, BacklogIs DEF local, InTime, Behind
  <2>2. time' = IF run THEN time ELSE 0
    BY <1>1 DEF Started
  <2>3. time \in Int /\ 0 <= time /\ time <= MaxTime /\ MaxTime \in Nat
    BY IntsAre DEF InTime, Behind
  <2>4. (\E u \in Timers : heap.call[u]) => run
    BY DEF Turns, Running
  <2> QED BY <2>1, <2>2, <2>3, <2>4
<1>3. R \in Nat \ {0} /\ 0 * R = 0 /\ (0 - 0) * R = 0
  BY IntsAre
<1>4. Backlog' = time'
  <2>1. group' - loop' = 0 /\ (group' - loop') * R = 0
    <3>1. group' = 0 /\ loop' = 0
      BY <1>2
    <3> QED BY <1>3, <3>1
  <2> QED BY <1>2, <2>1 DEF Backlog
<1>5. Behind'
  BY <1>2, <1>3 DEF Behind, Calling
<1>6. \A u \in Timers : /\ heap'.call[u] <=> u = t \/ heap.call[u]
                        /\ heap'.group[u] = heap.group[u]
  BY <1>1 DEF IsTicked
<1>7. /\ period \in [Timers -> Nat] /\ since \in [Timers -> Int]
  BY DEF Frames, Inv, Locals
<1>8. Aged'
  <2> SUFFICES ASSUME CanSkip, NEW u \in Timers, InWheel(u)' PROVE Explained(u)'
    BY DEF Aged
  <2>1. u # t
    <3>1. heap.group[t] \notin Keys
      BY <1>1, TimerNames DEF Inv, Sound, DeadOut
    <3> QED BY <1>6, <3>1 DEF InWheel
  <2>2. InWheel(u) /\ time' = time /\ heap'.group[u] = heap.group[u]
    BY <1>2, <1>6, <2>1 DEF InWheel
  <2>3. period'[u] = period[u] /\ left'[u] = left[u] /\ since'[u] = since[u]
    <3>1. run
      BY <2>2 DEF Turns, Running, InWheel
    <3> QED BY <1>1, <1>7, <2>1, <3>1 DEF Reset
  <2>4. Ahead(u)' = Ahead(u)
    BY <1>2, <2>2, <2>3 DEF Ahead, Due, Calling
  <2>5. Explained(u)
    BY <2>2 DEF InTime, Aged
  <2> QED BY <1>2, <1>4, <2>2, <2>3, <2>4, <2>5 DEF Explained
<1>9. Skips'
  BY <1>1, <1>2 DEF InTime, Skips, Calling
<1> QED BY <1>2, <1>5, <1>8, <1>9 DEF InTime, AgedList, CalledNow, LastHere

LEMMA RemoveInTime ==
    ASSUME Inv, InTime,
           (\E t \in Timers : RemoveTimer(t)) \/ (\E g \in Tags : RemoveTimerByTag(g))
    PROVE  InTime'
<1>1. /\ UNCHANGED <<time, since, local, period, left, rung, extra>>
      /\ \A u \in Timers : heap'.call[u] => heap.call[u] /\ heap'.group[u] = heap.group[u]
  <2>1. ASSUME NEW t \in Timers, RemoveTimer(t)
        PROVE  /\ UNCHANGED <<time, since, local, period, left, rung, extra>>
               /\ \A u \in Timers : heap'.call[u] => heap.call[u] /\ heap'.group[u] = heap.group[u]
    BY <2>1, KeptOne DEF RemoveTimer, Inv, Kept
  <2>2. ASSUME NEW g \in Tags, RemoveTimerByTag(g)
        PROVE  /\ UNCHANGED <<time, since, local, period, left, rung, extra>>
               /\ \A u \in Timers : heap'.call[u] => heap.call[u] /\ heap'.group[u] = heap.group[u]
    <3>1. /\ heap' = RemovedAll(heap, tagged[g]) /\ tagged[g] \in SUBSET Timers
          /\ UNCHANGED <<time, since, local, period, left, rung, extra>>
      BY <2>2 DEF RemoveTimerByTag, Inv, Locals
    <3> QED BY <3>1, KeptAll DEF Inv, Kept
  <2> QED BY <2>1, <2>2
<1>2. UNCHANGED <<pc, last, v, df, group, loop>> /\ last \in Places
  BY <1>1 DEF local, Inv, Locals
<1>3. Backlog' = Backlog /\ Behind'
  BY <1>1, <1>2 DEF Backlog, InTime, Behind, Calling
<1>4. \A u \in Timers : InWheel(u)' =>
         InWheel(u) /\ heap'.group[u] = heap.group[u] /\ Ahead(u)' = Ahead(u)
  BY <1>1, <1>2 DEF InWheel, Ahead, Due, Calling
<1>5. Aged'
  BY <1>1, <1>2, <1>3, <1>4 DEF InTime, Aged, Explained
<1>6. AgedList' /\ Skips'
  BY <1>1, <1>2, <1>3 DEF InTime, AgedList, Skips, Calling
<1>7. CalledNow'
  BY <1>1, <1>2, <1>4 DEF InTime, CalledNow
<1>8. LastHere'
  <2>1. pc = "listCall" => last \in Timers
    BY <1>2 DEF Inv, Cursor, Places
  <2> QED BY <1>1, <1>2, <2>1 DEF InTime, LastHere
<1> QED BY <1>3, <1>5, <1>6, <1>7, <1>8 DEF InTime

LEMMA StopInTime ==
    ASSUME Inv, InTime, pc = "idle", Stop
    PROVE  InTime'
<1>1. /\ heap' = BlankAll(Cleared(heap)) /\ time' = 0
      /\ UNCHANGED <<pc, group, loop, extra>>
  BY DEF Stop, local, owed
<1>2. AllFree(heap)
  BY DEF Inv, Outside
<1>3. \A t \in Timers : ~heap'.call[t]
  BY <1>1, <1>2, BlankSound DEF Inv
<1>4. Aged'
  BY <1>3 DEF Aged, InWheel
<1>5. Behind' /\ Skips'
  <2>1. group = 0 /\ loop = 0 /\ 0 * R = 0 /\ MaxTime \in Nat
    BY BacklogIs, IntsAre DEF InTime, Behind
  <2> QED BY <1>1, <2>1 DEF InTime, Behind, Skips, Calling
<1> QED BY <1>1, <1>4, <1>5 DEF InTime, AgedList, CalledNow, LastHere

LEMMA TickInTime ==
    ASSUME Inv, Frames, Turns, InTime, NEW f \in 0..MaxFrame, NEW e \in 0..MaxFrame, Tick(f, e), e <= f
    PROVE  InTime'
<1>1. /\ pc = "idle" /\ pc' = "tick" /\ time' = time + f /\ time + f <= MaxTime
      /\ since' = Older(e)
      /\ UNCHANGED <<heap, group, loop, period, left, extra>>
  BY DEF Tick, Go
<1>2. /\ group = 0 /\ loop = 0 /\ Backlog = time /\ time \in Int /\ 0 <= time /\ f \in Nat
      /\ R \in Nat \ {0} /\ 0 * R = 0 /\ (0 - 0) * R = 0
  BY <1>1, BacklogIs, IntsAre DEF InTime, Behind
<1>3. Backlog' = time + f
  BY <1>1, <1>2 DEF Backlog
<1>4. Behind' /\ Skips'
  BY <1>1, <1>2 DEF InTime, Behind, Skips, Calling
<1>5. Aged'
  <2> SUFFICES ASSUME CanSkip, NEW u \in Timers, InWheel(u) PROVE Explained(u)'
    BY <1>1 DEF Aged, InWheel
  <2>1. Ahead(u)' = Ahead(u)
    BY <1>1 DEF Ahead, Due, Calling
  <2>2. /\ since[u] \in Int /\ (period[u] - Ahead(u)) * R \in Int
    BY AheadIs
  <2>3. e \in Nat /\ since'[u] \in Int /\ since'[u] <= since[u] + e
    <3>1. e \in Nat
      BY TickerAssumption
    <3> QED BY <1>1, <3>1, OlderIs
  <2>4. since'[u] <= since[u] + f
    BY <1>2, <2>2, <2>3
  <2>5. Explained(u)
    BY <1>1 DEF InTime, Aged
  <2> QED BY <1>1, <1>2, <1>3, <2>1, <2>2, <2>3, <2>4, <2>5 DEF Explained
<1> QED BY <1>1, <1>4, <1>5 DEF InTime, AgedList, CalledNow, LastHere

LEMMA CallNextInTime ==
    ASSUME Inv, Turns, InTime, TickStep \/ ListStep
    PROVE  InTime'
<1>1. /\ pc \in {"tick", "list"} /\ cursor \in Timers
      /\ pc' = IF ~heap.call[cursor] THEN "error"
               ELSE IF pc = "tick" THEN "tickCall" ELSE "listCall"
      /\ last' = cursor /\ rung' = [rung EXCEPT ![cursor] = @ + 1]
      /\ UNCHANGED <<heap, since, time, v, df, group, loop, period, left, extra>>
  <2>1. UNCHANGED <<group, loop>>
    BY DEF TickStep, ListStep, CallNext
  <2> QED BY <2>1, CallNextStep DEF wheel
<1>2. cursor # Nil
  BY <1>1, TimerNames
<1>3. Backlog' = Backlog
  BY <1>1 DEF Backlog
<1>4. CASE ~heap.call[cursor]
  <2>1. pc' = "error"
    BY <1>1, <1>4
  <2> QED BY <1>1, <2>1 DEF InTime, Behind, Aged, AgedList, CalledNow, LastHere, Skips, Calling
<1>5. CASE heap.call[cursor] /\ pc = "tick"
  <2>1. pc' = "tickCall"
    BY <1>1, <1>5
  <2>2. \A t \in Timers : Ahead(t)' = Ahead(t) /\ (InWheel(t)' <=> InWheel(t))
    BY <1>1, <1>5, <2>1 DEF Ahead, Due, Calling, InWheel
  <2>3. Aged'
    BY <1>1, <1>3, <1>5, <2>2 DEF InTime, Aged, Explained
  <2> QED BY <1>1, <1>5, <2>1, <2>3
          DEF InTime, Behind, AgedList, CalledNow, LastHere, Skips, Calling
<1>6. CASE heap.call[cursor] /\ pc = "list"
  <2>1. pc' = "listCall"
    BY <1>1, <1>6
  <2>2. \A t \in Timers : Ahead(t)' = Ahead(t) /\ (InWheel(t)' <=> InWheel(t))
    BY <1>1, <1>6, <2>1 DEF Ahead, Due, Calling, InWheel
  <2>3. Aged'
    BY <1>1, <1>3, <1>6, <2>2 DEF InTime, Aged, Explained
  <2>4. AgedList' /\ Skips' /\ Behind'
    BY <1>1, <1>3, <1>6, <2>1 DEF InTime, AgedList, Skips, Behind, Calling
  <2>5. CalledNow'
    BY <1>1, <1>6, <2>1, <2>2 DEF InTime, CalledNow
  <2>6. LastHere'
    BY <1>1, <1>2, <1>6 DEF LastHere, Turns, InList
  <2> QED BY <2>3, <2>4, <2>5, <2>6 DEF InTime
<1> QED BY <1>1, <1>4, <1>5, <1>6

LEMMA CallSlotInTime ==
    ASSUME Inv, Frames, Turns, InTime, CallSlot
    PROVE  InTime'
<1>1. /\ pc = "loop" /\ pc' = "groups" /\ heap' = Slotted(heap, cur, count)
      /\ UNCHANGED <<since, period, left, extra>>
  BY CallSlotHeap DEF owed
<1>2. loop > 0 /\ UNCHANGED <<time, group, loop>>
  BY DEF CallSlot
<1>3. /\ heap'.call = heap.call
      /\ \A t \in Timers : heap'.group[t] = IF heap.group[t] \in Here(cur, count)
                                            THEN Taken(heap.group[t][3]) ELSE heap.group[t]
  BY <1>1, SlottedIs DEF Inv, Sound, Locals
<1>4. \A k \in Here(cur, count) : /\ k \in Keys /\ Taken(k[3])[1] = 0
  BY HereIs DEF Inv, Locals
<1>5. Backlog' = Backlog
  BY <1>2 DEF Backlog
<1>6. 1 <= loop
  BY <1>2, IntsAre
<1>7. Behind'
  BY <1>1, <1>2, <1>6 DEF InTime, Behind
<1>8. Aged'
  <2> SUFFICES ASSUME CanSkip, NEW t \in Timers, InWheel(t)' PROVE Explained(t)'
    BY DEF Aged
  <2>1. InWheel(t)
    BY <1>3, <1>4 DEF InWheel
  <2>2. heap.group[t][1] # 0 /\ (heap.group[t] \in Here(cur, count) <=> left[t] = 0)
    BY <2>1, AtSlot
  <2>3. Ahead(t) = left[t]
    BY <1>1, <2>2 DEF Ahead, Due, Calling
  <2>4. Ahead(t)' = left[t]
    BY <1>1, <1>3, <1>4, <2>2 DEF Ahead, Due, Calling
  <2>5. Explained(t)
    BY <1>1, <2>1 DEF InTime, Aged
  <2> QED BY <1>1, <1>5, <2>3, <2>4, <2>5 DEF Explained
<1>9. Skips'
  <2>1. \A t \in Timers : extra[t] = 0
    BY <1>1 DEF InTime, Skips
  <2>2. 0 * R <= Backlog - R
    <3>1. R <= Backlog /\ 0 * R = 0
      BY <1>6, BacklogIs, IntsAre DEF InTime
    <3> QED BY <3>1, IntsAre
  <2> QED BY <1>1, <1>5, <2>1, <2>2 DEF Skips
<1> QED BY <1>1, <1>7, <1>8, <1>9 DEF InTime, AgedList, CalledNow, LastHere

LEMMA ListStartInTime ==
    ASSUME Inv, Frames, Turns, InTime, ListStart
    PROVE  InTime'
<1>1. PICK d \in todo :
              /\ d \in Diffs /\ pc = "groups" /\ pc' = "list"
              /\ todo' = todo \ {d} /\ v' = d /\ cursor' = heap.list[Taken(d)].head
              /\ df' = (IF CanSkip /\ run /\ cursor' # Nil THEN since[cursor'] ELSE 0)
              /\ cursor' \in Places
              /\ cursor' # Nil => heap.group[cursor'] = Taken(d) /\ Taken(d) \in Keys
              /\ UNCHANGED <<wheel, last, group, loop, owed, stops>>
  BY ListStartStep
<1>2. UNCHANGED <<heap, time, since, period, left, rung, extra>>
  BY <1>1 DEF wheel, owed
<1>3. Backlog' = Backlog
  BY <1>1, <1>2 DEF Backlog
<1>4. \A t \in Timers : Ahead(t)' = Ahead(t) /\ (InWheel(t)' <=> InWheel(t))
  BY <1>1, <1>2 DEF Ahead, Due, Calling, InWheel
<1>5. Behind' /\ Skips' /\ LastHere'
  BY <1>1, <1>2, <1>3 DEF InTime, Behind, Skips, LastHere, Calling
<1>6. Aged'
  BY <1>1, <1>2, <1>3, <1>4 DEF InTime, Aged, Explained
<1>7. CalledNow'
  BY <1>1, <1>2, NotCalledYet DEF CalledNow
<1>8. AgedList'
  <2> SUFFICES ASSUME CanSkip PROVE df' <= Backlog + d * R - R
    BY <1>1, <1>3 DEF AgedList
  <2>1. d \in Nat /\ d * R \in Nat /\ R <= Backlog /\ Backlog \in Int /\ R \in Nat
    <3>1. d \in Nat /\ R \in Nat
      BY <1>1, KeyParts, IntsAre
    <3>2. d * R \in Nat
      BY <3>1
    <3> QED BY <1>1, <3>1, <3>2, IntsAre, BacklogIs DEF InTime, Calling
  <2>2. CASE cursor' = Nil
    BY <1>1, <2>1, <2>2
  <2>3. CASE cursor' # Nil
    <3>1. cursor' \in Timers /\ heap.group[cursor'] = Taken(d) /\ Taken(d)[1] = 0
      BY <1>1, <2>3, KeyParts DEF Places
    <3>2. PICK t \in Timers : t = cursor'
      BY <3>1
    <3>3. InWheel(t) /\ period[t] = d /\ Ahead(t) = 0
      BY <1>1, <3>1, <3>2, NotCalledYet DEF Ahead
    <3>4. since[t] <= Backlog + (d - 0) * R - R
      BY <1>1, <3>3 DEF InTime, Aged, Explained
    <3>5. d - 0 = d
      BY <2>1
    <3>6. run
      BY <1>1 DEF Turns, Running
    <3> QED BY <1>1, <2>3, <3>2, <3>4, <3>5, <3>6
  <2> QED BY <2>2, <2>3
<1> QED BY <1>5, <1>6, <1>7, <1>8 DEF InTime

LEMMA ListReturnInTime ==
    ASSUME Inv, Frames, Turns, InTime, ListReturn
    PROVE  InTime'
<1>1. /\ pc = "listCall" /\ pc' = "list" /\ since' = [since EXCEPT ![last] = 0]
      /\ UNCHANGED <<heap, time, last, v, df, group, loop, period, left, rung, extra>>
  BY DEF ListReturn, Go, owed, Turns, Running
<1>2. last \in Timers /\ since \in [Timers -> Int]
  BY <1>1, IntsAre DEF Inv, Cursor, Locals, Places
<1>3. since'[last] = 0 /\ \A t \in Timers : t # last => since'[t] = since[t]
  BY <1>1, <1>2
<1>4. Backlog' = Backlog
  BY <1>1 DEF Backlog
<1>5. \A t \in Timers : Ahead(t)' = Ahead(t) /\ (InWheel(t)' <=> InWheel(t))
  BY <1>1 DEF Ahead, Due, Calling, InWheel
<1>6. Behind' /\ Skips' /\ LastHere' /\ AgedList'
  BY <1>1, <1>4 DEF InTime, Behind, Skips, LastHere, AgedList, Calling
<1>7. CalledNow'
  <2> SUFFICES ASSUME CanSkip, NEW t \in Timers, InWheel(t), heap.group[t] = Taken(v), rung[t] = 1
               PROVE  since'[t] <= 0
    BY <1>1, <1>5 DEF CalledNow
  <2>1. CASE t = last
    BY <1>3, <2>1
  <2>2. CASE t # last
    BY <1>1, <1>3, <2>2 DEF InTime, CalledNow
  <2> QED BY <2>1, <2>2
<1>8. Aged'
  <2> SUFFICES ASSUME CanSkip, NEW t \in Timers, InWheel(t) PROVE Explained(t)'
    BY <1>5 DEF Aged
  <2>1. CASE t # last
    <3>1. Explained(t)
      BY <1>1 DEF InTime, Aged
    <3> QED BY <1>1, <1>3, <1>4, <1>5, <2>1, <3>1 DEF Explained
  <2>2. CASE t = last
    <3>1. heap.group[t] = Taken(v)
      BY <1>1, <2>2 DEF InTime, LastHere, InWheel
    <3>2. Ahead(t) = 0
      <4>1. v \in Diffs
        BY <1>1 DEF Inv, Outside
      <4> QED BY <3>1, <4>1, KeyParts DEF Ahead
    <3>3. PICK p \in Nat : p = period[t]
      BY AheadIs
    <3>4. (p - 0) * R \in Nat /\ R <= Backlog /\ R \in Nat /\ Backlog \in Int
      <4>1. p - 0 = p /\ R \in Nat
        BY IntsAre
      <4>2. p * R \in Nat
        BY <4>1
      <4> QED BY <1>1, <4>1, <4>2, IntsAre, BacklogIs DEF InTime, Calling
    <3> QED BY <1>1, <1>3, <1>4, <1>5, <2>2, <3>2, <3>3, <3>4 DEF Explained
  <2> QED BY <2>1, <2>2
<1> QED BY <1>6, <1>7, <1>8 DEF InTime

LEMMA ListEndInTime ==
    ASSUME Inv, Frames, Turns, InTime, ListEnd
    PROVE  InTime'
<1>1. /\ cursor = Nil /\ pc = "list" /\ pc' = "groups" /\ v \in Diffs
      /\ SlotOf(cur, count, v, Over) \in Keys /\ SlotOf(cur, count, v, Over)[1] # 0
      /\ IF heap.list[Taken(v)].head = Nil THEN heap' = heap
         ELSE IsMoved(heap', heap, Taken(v), SlotOf(cur, count, v, Over))
      /\ extra' = [t \in Timers |-> IF heap.group[t] = Taken(v) THEN Over * N ELSE extra[t]]
      /\ UNCHANGED <<since, last, v, df, period, left, rung>>
  BY ListEndHeap
<1>2. UNCHANGED <<time, group, loop>>
  BY DEF ListEnd
<1> DEFINE k == SlotOf(cur, count, v, Over)
           j == Taken(v)
<1>3. k \in Keys /\ k[1] # 0 /\ j \in Keys /\ j[1] = 0
  BY <1>1, KeyParts
<1> HIDE DEF k, j
<1>4. \A u \in Timers : /\ heap'.call[u] <=> heap.call[u]
                        /\ heap'.group[u] = IF heap.group[u] = j THEN k ELSE heap.group[u]
  <2>1. CASE heap.list[j].head = Nil
    <3>1. heap' = heap /\ \A u \in Timers : heap.group[u] # j
      BY <1>1, <1>3, <2>1, EmptyList DEF Inv, j
    <3> QED BY <3>1
  <2>2. CASE heap.list[j].head # Nil
    BY <1>1, <2>2 DEF IsMoved, j, k
  <2> QED BY <2>1, <2>2
<1>5. \A u \in Timers : extra'[u] = IF heap.group[u] = j THEN Over * N ELSE extra[u]
  BY <1>1 DEF j
<1>6. Backlog' = Backlog
  BY <1>2 DEF Backlog
<1>7. /\ Over \in Nat /\ Over * N \in Nat /\ (Over * N) * R \in Nat
      /\ (Over * N) * R <= Backlog - R
  BY <1>1, OverInTime
<1>8. Behind'
  BY <1>1, <1>2 DEF InTime, Behind, Calling
<1>9. Skips'
  <2>1. \A t \in Timers : extra[t] * R <= Backlog - R
    BY <1>1 DEF InTime, Skips, Calling
  <2>2. \A t \in Timers : extra'[t] * R <= Backlog - R
    BY <1>5, <1>7, <2>1
  <2> QED BY <1>1, <1>6, <2>2 DEF Skips
<1>10. Aged'
  <2> SUFFICES ASSUME CanSkip, NEW u \in Timers, InWheel(u)' PROVE Explained(u)'
    BY DEF Aged
  <2>1. InWheel(u)
    BY <1>3, <1>4 DEF InWheel
  <2>2. CASE heap.group[u] = j
    <3>1. left[u] = 0 /\ rung[u] = 1 /\ period[u] = v
      BY <1>1, <2>2, AllCalled DEF j
    <3>2. since[u] <= 0
      BY <1>1, <2>1, <2>2, <3>1 DEF InTime, CalledNow, j
    <3>3. Ahead(u)' = v + Over * N
      <4>1. heap'.group[u] = k /\ left'[u] = 0 /\ period'[u] = v /\ extra'[u] = Over * N
        BY <1>1, <1>4, <1>5, <2>2, <3>1
      <4> QED BY <1>1, <1>3, <4>1 DEF Ahead, Due, Calling
    <3>4. PICK o \in Nat : o = Over * N
      BY <1>7
    <3>5. (v - (v + o)) * R = 0 - o * R
      <4>1. v \in Nat /\ R \in Nat
        BY <1>1, KeyParts, IntsAre
      <4>2. v - (v + o) = 0 - o /\ (0 - o) * R = 0 - o * R
        BY <4>1
      <4> QED BY <4>2
    <3>6. o * R \in Nat /\ o * R <= Backlog - R /\ Backlog \in Int /\ R \in Nat /\ since[u] \in Int
      BY <1>7, <3>4, IntsAre
    <3> QED BY <1>1, <1>6, <3>1, <3>2, <3>3, <3>4, <3>5, <3>6 DEF Explained
  <2>3. CASE heap.group[u] # j
    <3>1. heap'.group[u] = heap.group[u] /\ extra'[u] = extra[u]
      BY <1>4, <1>5, <2>3
    <3>2. Ahead(u)' = Ahead(u)
      BY <1>1, <3>1 DEF Ahead, Due, Calling
    <3>3. Explained(u)
      BY <1>1, <2>1 DEF InTime, Aged
    <3> QED BY <1>1, <1>6, <3>2, <3>3 DEF Explained
  <2> QED BY <2>2, <2>3
<1> QED BY <1>1, <1>8, <1>9, <1>10 DEF InTime, AgedList, CalledNow, LastHere

LEMMA AdvanceInTime ==
    ASSUME Inv, Frames, Turns, InTime, Advance
    PROVE  InTime'
<1>1. pc = "groups" /\ pc' = "loop" /\ UNCHANGED <<heap, time, since, period, group>>
  BY DEF Advance, Go
<1>2. loop' = loop - 1 /\ extra' = [t \in Timers |-> 0]
  BY DEF Advance
<1>3. /\ R \in Nat \ {0} /\ time \in Int /\ group \in Int /\ loop \in Int /\ Backlog \in Int
  BY IntsAre
<1>4. Backlog' = Backlog - R
  <2>1. PICK x \in Int : x = group - loop
    BY <1>3
  <2>2. group - (loop - 1) = x + 1
    BY <1>3, <2>1
  <2>3. (x + 1) * R = x * R + R /\ x * R \in Int
    BY <1>3
  <2> QED BY <1>1, <1>2, <1>3, <2>1, <2>2, <2>3 DEF Backlog
<1>5. Behind'
  BY <1>1, <1>2, <1>3 DEF InTime, Behind, Calling
<1>6. Skips'
  BY <1>1, <1>2 DEF Skips, Calling
<1>7. Aged'
  <2> SUFFICES ASSUME CanSkip, NEW t \in Timers, InWheel(t) PROVE Explained(t)'
    BY <1>1 DEF Aged, InWheel
  <2>1. heap.group[t][1] # 0 /\ Due(t) \in Nat /\ 1 <= Due(t) /\ left'[t] = Due(t) - 1
    BY AllAdvance
  <2>2. PICK l \in Nat, p \in Nat, s \in Int : l = Due(t) /\ p = period[t] /\ s = since[t]
    BY AheadIs
  <2>3. s <= Backlog + (p - l) * R - R
    <3>1. Explained(t)
      BY <1>1 DEF InTime, Aged
    <3> QED BY <2>1, <2>2, <3>1 DEF Explained, Ahead
  <2>4. Ahead(t)' = l - 1
    BY <1>1, <2>1, <2>2 DEF Ahead, Due, Calling
  <2>5. (p - (l - 1)) * R = (p - l) * R + R /\ (p - l) * R \in Int
    <3>1. PICK x \in Int : x = p - l
      OBVIOUS
    <3>2. p - (l - 1) = x + 1
      BY <3>1
    <3>3. (x + 1) * R = x * R + R /\ x * R \in Int
      BY <1>3
    <3> QED BY <3>1, <3>2, <3>3
  <2> QED BY <1>1, <1>3, <1>4, <2>2, <2>3, <2>4, <2>5 DEF Explained
<1> QED BY <1>1, <1>5, <1>6, <1>7 DEF InTime, AgedList, CalledNow, LastHere

LEMMA QuietInTime ==
    ASSUME Inv, InTime, TickReturn \/ TickEnd \/ LoopEnd \/ UNCHANGED vars
    PROVE  InTime'
<1>1. CASE TickReturn
  <2>1. /\ pc = "tickCall" /\ pc' = "tick"
        /\ UNCHANGED <<heap, time, since, group, loop, period, left, extra>>
    BY <1>1 DEF TickReturn, Go, wheel, owed
  <2>2. Backlog' = Backlog /\ \A t \in Timers : Ahead(t)' = Ahead(t) /\ (InWheel(t)' <=> InWheel(t))
    BY <2>1 DEF Backlog, Ahead, Due, Calling, InWheel
  <2>3. Aged'
    BY <2>1, <2>2 DEF InTime, Aged, Explained
  <2> QED BY <2>1, <2>2, <2>3
          DEF InTime, Behind, AgedList, CalledNow, LastHere, Skips, Calling
<1>2. CASE TickEnd
  <2>1. /\ pc = "tick" /\ pc' = "loop" /\ group' = AtMost(time \div R, N) /\ loop' = group'
        /\ UNCHANGED <<heap, time, since, period, left, extra>>
    BY <1>2 DEF TickEnd, Go, wheel, owed
  <2>2. Backlog = time /\ time \in Int /\ R \in Nat \ {0} /\ N \in Nat \ {0} /\ 0 <= time
    BY <2>1, IntsAre, BacklogIs DEF InTime, Behind
  <2>3. PICK q \in Int, r \in 0..(R - 1) : time = q * R + r /\ q = time \div R
    BY <2>2, Divided
  <2>4. 0 <= q
    <3>1. q < 0 => q * R <= 0 - R
      BY <2>2
    <3>2. q * R \in Int
      BY <2>2
    <3> QED BY <2>2, <2>3, <3>1, <3>2
  <2>5. group' \in Nat /\ group' <= q
    BY <2>1, <2>2, <2>3, <2>4 DEF AtMost
  <2>6. PICK x \in Nat : x = group'
    BY <2>5
  <2>7. x * R <= time
    <3>1. PICK y \in Nat : q = x + y
      <4>1. q - x \in Nat /\ q = x + (q - x)
        BY <2>3, <2>4, <2>5, <2>6
      <4> QED BY <4>1
    <3>2. q * R = x * R + y * R /\ x * R \in Nat /\ y * R \in Nat
      BY <2>2, <3>1
    <3> QED BY <2>2, <2>3, <3>2
  <2>8. Behind'
    <3>1. time <= MaxTime
      BY DEF InTime, Behind
    <3>2. group' * R <= time /\ loop' = group' /\ time' = time /\ 0 <= loop' /\ loop' <= group'
      BY <2>1, <2>5, <2>6, <2>7
    <3> QED BY <2>1, <2>2, <3>1, <3>2 DEF Behind, Calling
  <2>9. Backlog' = Backlog
    <3>1. x - x = 0 /\ 0 * R = 0
      BY <2>2
    <3>2. (group' - loop') * R = 0
      BY <2>1, <2>6, <3>1
    <3> QED BY <2>1, <2>2, <3>2 DEF Backlog
  <2>10. \A t \in Timers : Ahead(t)' = Ahead(t) /\ (InWheel(t)' <=> InWheel(t))
    BY <2>1 DEF Ahead, Due, Calling, InWheel
  <2>11. Aged'
    BY <2>1, <2>9, <2>10 DEF InTime, Aged, Explained
  <2>12. Skips'
    BY <2>1 DEF InTime, Skips, Calling
  <2> QED BY <2>1, <2>8, <2>11, <2>12 DEF InTime, AgedList, CalledNow, LastHere
<1>3. CASE LoopEnd
  <2>1. /\ pc = "loop" /\ pc' = "idle" /\ loop <= 0 /\ time' = time - group * R /\ group' = 0
        /\ UNCHANGED <<heap, since, loop, period, left, extra>>
    BY <1>3 DEF LoopEnd, Go
  <2>2. /\ time \in Int /\ group \in Int /\ loop = 0 /\ R \in Nat \ {0} /\ group * R \in Int
        /\ 0 <= group * R
    <3>1. time \in Int /\ group \in Int /\ loop \in Int /\ R \in Nat \ {0} /\ group * R \in Int
      BY IntsAre
    <3>2. loop = 0 /\ group \in Nat
      BY <2>1, <3>1 DEF InTime, Behind
    <3>3. 0 <= group * R
      BY <3>1, <3>2
    <3> QED BY <3>1, <3>2, <3>3
  <2>3. Backlog' = Backlog /\ 0 * R = 0
    <3>1. (0 - 0) * R = 0 /\ 0 * R = 0 /\ group - 0 = group
      BY <2>2
    <3> QED BY <2>1, <2>2, <3>1 DEF Backlog
  <2>4. Behind'
    <3>1. group * R <= time /\ time <= MaxTime
      BY DEF InTime, Behind
    <3>2. 0 <= time - group * R /\ time - group * R <= MaxTime
      <4>1. PICK x \in Int : x = group * R
        BY <2>2
      <4>2. MaxTime \in Int
        BY IntsAre
      <4> QED BY <2>2, <3>1, <4>1, <4>2
    <3>3. 0 <= time' /\ time' <= MaxTime /\ loop' = 0 /\ group' = 0 /\ 0 * R <= time'
      BY <2>1, <2>2, <2>3, <3>2
    <3> QED BY <2>1, <3>3 DEF Behind, Calling
  <2>5. \A t \in Timers : Ahead(t)' = Ahead(t) /\ (InWheel(t)' <=> InWheel(t))
    BY <2>1 DEF Ahead, Due, Calling, InWheel
  <2>6. Aged'
    BY <2>1, <2>3, <2>5 DEF InTime, Aged, Explained
  <2>7. Skips'
    BY <2>1 DEF InTime, Skips, Calling
  <2> QED BY <2>1, <2>4, <2>6, <2>7 DEF InTime, AgedList, CalledNow, LastHere
<1>4. CASE UNCHANGED vars
  BY <1>4 DEF vars, wheel, local, owed, InTime, Behind, Backlog, Aged, Explained, Ahead, Due,
     Calling, InWheel, AgedList, CalledNow, LastHere, Skips
<1> QED BY <1>1, <1>2, <1>3, <1>4

\* What holds as long as callbacks do nothing but remove their own timers.
Timely == Frames /\ Turns /\ InTime

\* The steps of a plan are steps of the ticker; without calls, of these four kinds.
LEMMA PlannedSteps ==
    ASSUME Inv, plan \in Plans, PlannedNext
    PROVE  /\ plan' = plan /\ [Next]_vars
           /\ ~plan.calls => \/ pc = "idle" /\ Api
                             \/ \E t \in Timers : RemoveTimer(t)
                             \/ \E f, e \in 0..MaxFrame : Tick(f, e) /\ e <= f
                             \/ Inside
                             \/ UNCHANGED vars
<1>1. plan' = plan
  BY DEF PlannedNext
<1>2. CASE (pc = "idle" \/ plan.calls) /\ Api
  BY <1>1, <1>2 DEF Next
<1>3. CASE InCall /\ RemoveTimer(last)
  <2>1. last \in Timers
    BY <1>3 DEF InCall, Inv, Cursor, Locals, Places
  <2>2. \E t \in Timers : RemoveTimer(t)
    BY <1>3, <2>1
  <2> QED BY <1>1, <2>2 DEF Next, Api
<1>4. CASE \E frame \in plan.frames : Tick(frame[1], frame[2]) /\ time' <= plan.backlog
  <2>1. PICK f, e \in 0..MaxFrame : Tick(f, e) /\ (~plan.calls => e <= f)
    BY <1>4, PlansAssumption
  <2> QED BY <1>1, <2>1 DEF Next
<1>5. CASE Inside
  BY <1>1, <1>5 DEF Next
<1>6. CASE Raised
  BY <1>1, <1>6 DEF Raised
<1> QED BY <1>2, <1>3, <1>4, <1>5, <1>6 DEF PlannedNext

LEMMA InsideInTime ==
    ASSUME Inv, Frames, Turns, InTime, Inside \/ UNCHANGED vars
    PROVE  InTime'
BY QuietInTime, CallNextInTime, CallSlotInTime, ListStartInTime, ListReturnInTime, ListEndInTime,
   AdvanceInTime DEF Inside

LEMMA NextTimely ==
    ASSUME Inv, Timely, InReach,
           \/ pc = "idle" /\ Api
           \/ \E t \in Timers : RemoveTimer(t)
           \/ \E f, e \in 0..MaxFrame : Tick(f, e) /\ e <= f
           \/ Inside
           \/ UNCHANGED vars
    PROVE  Timely'
<1> USE DEF Timely
<1>1. CASE \E g \in Tags : pc = "idle" /\ SetTick(g)
  BY <1>1, SetTickFrames, SetTickTurns, SetTickInTime
<1>2. CASE \E g \in Tags, d \in Diffs : pc = "idle" /\ SetTimer(d, g)
  BY <1>2, SetTimerFrames, SetTimerTurns, SetTimerInTime
<1>3. CASE (\E t \in Timers : RemoveTimer(t)) \/ (\E g \in Tags : RemoveTimerByTag(g))
  BY <1>3, RemoveFrames, RemoveTurns, RemoveInTime
<1>4. CASE pc = "idle" /\ Stop
  BY <1>4, StopFrames, StopTurns, StopInTime
<1>5. CASE \E f, e \in 0..MaxFrame : Tick(f, e) /\ e <= f
  BY <1>5, TickFrames, TickTurns, TickInTime
<1>6. CASE Inside \/ UNCHANGED vars
  BY <1>6, InsideFrames, InsideTurns, InsideInTime
<1> QED BY <1>1, <1>2, <1>3, <1>4, <1>5, <1>6 DEF Api

LEMMA TimelyIsOnTime == ASSUME Inv, Timely PROVE OnTime /\ SkipsOnlyThePast
<1>1. OnTime
  BY TurnsOnTime DEF Timely
<1>2. ASSUME pc \in {"groups", "list", "listCall"}, NEW t \in Timers
      PROVE  extra[t] * R <= time - (group - loop + 1) * R
  <2>1. extra[t] * R <= Backlog - R
    BY <1>2 DEF Timely, InTime, Skips, Calling
  <2>2. PICK x \in Int : x = group - loop
    BY IntsAre
  <2>3. (x + 1) * R = x * R + R /\ x * R \in Int /\ R \in Int /\ time \in Int
    BY IntsAre
  <2>4. Backlog - R = time - (x + 1) * R
    BY <2>2, <2>3 DEF Backlog
  <2> QED BY <2>1, <2>2, <2>4
<1> QED BY <1>1, <1>2 DEF SkipsOnlyThePast

\* A wheel that is late by more than a revolution still calls every timer when the wheel has
\* made as many steps as its period, and the revolutions left out, say, and it leaves out no
\* more than it is really behind (Ticker.lua:84-101): for any size of the wheel, and whatever
\* diffs Tick is given, none less than what the clock advanced by, as long as the longest
\* period and the longest backlog together are no more than the counter can tell apart.
THEOREM LateWheelsCatchUp ==
    ASSUME \A d \in Diffs : d * R + MaxTime <= M * N * R
    PROVE  PlannedSpec => []LateWheel
<1> DEFINE I == Inv /\ plan \in Plans /\ (~plan.calls => Timely)
<1>1. PlannedInit => I
  BY InitInv, InitFrames, InitTurns, InitInTime DEF PlannedInit, Timely
<1>2. I /\ [PlannedNext]_planned => I'
  <2> SUFFICES ASSUME I, [PlannedNext]_planned PROVE I'
    OBVIOUS
  <2>1. CASE PlannedNext
    <3>1. Inv' /\ plan' \in Plans
      BY <2>1, PlannedSteps, NextInv
    <3>2. ASSUME ~plan'.calls PROVE Timely'
      <4>1. ~plan.calls /\ Timely
        BY <2>1, <3>2, PlannedSteps
      <4>2. InReach
        BY <4>1, InTimeReaches DEF Timely
      <4>3. \/ pc = "idle" /\ Api
            \/ \E t \in Timers : RemoveTimer(t)
            \/ \E f, e \in 0..MaxFrame : Tick(f, e) /\ e <= f
            \/ Inside
            \/ UNCHANGED vars
        BY <2>1, <4>1, PlannedSteps
      <4> QED BY <4>1, <4>2, <4>3, NextTimely
    <3> QED BY <3>1, <3>2
  <2>2. CASE UNCHANGED planned
    <3>1. UNCHANGED vars /\ plan' = plan
      BY <2>2 DEF planned
    <3>2. Inv'
      BY <3>1, NextInv
    <3>3. ~plan.calls => Timely'
      <4>1. Timely => InReach
        BY InTimeReaches DEF Timely
      <4> QED BY <3>1, <4>1, NextTimely
    <3> QED BY <3>1, <3>2, <3>3
  <2> QED BY <2>1, <2>2
<1>3. I => LateWheel
  BY TimelyIsOnTime DEF LateWheel
<1> HIDE DEF I
<1> QED BY <1>1, <1>2, <1>3, PTL DEF PlannedSpec
=============================================================================
