---------------------------- MODULE SupportProofs -----------------------------
(***************************************************************************)
(* Timers by key, for any keys and intervals, and callbacks bound to a     *)
(* field, for any callbacks and values: what the table and the walks keep  *)
(* while the callbacks themselves change what is walked.                   *)
(***************************************************************************)
EXTENDS Timer, Binder, SequenceTheorems, TLAPS

(* No mark is on a living timer, so that the sweep at the end of a walk,   *)
(* with the marks of before a clearAll or without, drops only the others.  *)
SweepSafe ==
  /\ Present \ removes \subseteq alive
  /\ alive \cap removes = {}
  /\ alive \ reborn \subseteq Present
  /\ (alive \ reborn) \cap UNION rmvs = {}

LEMMA SweepSafeStep == SweepSafe /\ [TimerNext]_timerVars => SweepSafe'
<1> SUFFICES ASSUME SweepSafe, [TimerNext]_timerVars PROVE SweepSafe'
  OBVIOUS
<1>1. ASSUME NEW k \in TimerKeys, NEW i \in Intervals, NEW o \in BOOLEAN, AddTimer(k, i, o)
      PROVE  SweepSafe'
  BY <1>1 DEF AddTimer, Put, Present, SweepSafe
<1>2. ASSUME NEW k \in TimerKeys, RemoveTimer(k) PROVE SweepSafe'
  BY <1>2 DEF RemoveTimer, Present, SweepSafe
<1>3. ASSUME NEW k \in TimerKeys, Pass(k) PROVE SweepSafe'
  BY <1>3 DEF Pass, Elapsed, Present, SweepSafe
<1>4. ASSUME NEW k \in TimerKeys, Call(k) PROVE SweepSafe'
  <2>1. DOMAIN handlers' = DOMAIN handlers /\ rmvs' = rmvs /\ reborn' = reborn
    BY <1>4 DEF Call, Elapsed
  <2>2. \/ removes' = removes \cup {k} /\ alive' = alive \ {k}
        \/ removes' = removes /\ alive' = alive
    BY <1>4 DEF Call
  <2> QED
    BY <2>1, <2>2 DEF Present, SweepSafe
<1>5. CASE ClearAll
  BY <1>5 DEF ClearAll, Present, SweepSafe
<1>6. CASE BeginTrigger
  BY <1>6 DEF BeginTrigger, Present, SweepSafe
<1>7. CASE Return
  <2>1. DOMAIN handlers' = DOMAIN handlers
    BY <1>7 DEF Return, Present
  <2> QED
    BY <1>7, <2>1 DEF Return, Present, SweepSafe
<1>8. CASE Fail
  BY <1>8 DEF Fail, Present, SweepSafe
<1>9. CASE EndTrigger
  <2> DEFINE marks == IF rmvs = {} THEN removes ELSE UNION rmvs
  <2>1. /\ DOMAIN handlers' = Present \ marks /\ removes' = IF rmvs = {} THEN {} ELSE removes
        /\ rmvs' = {} /\ alive' = alive /\ reborn' = reborn
    BY <1>9 DEF EndTrigger
  <2> QED
    BY <2>1 DEF Present, SweepSafe
<1>10. CASE UNCHANGED timerVars
  BY <1>10 DEF timerVars, Present, SweepSafe
<1> QED
  BY <1>1, <1>2, <1>3, <1>4, <1>5, <1>6, <1>7, <1>8, <1>9, <1>10 DEF TimerNext

(* Between frames the table holds exactly the timers that live, whatever   *)
(* callbacks add, remove, clear and fail in a walk (Timer.lua:23-45), but  *)
(* for those added after a clearAll of the same walk.                      *)
THEOREM TimersAreKept == TimerSpec => []LivingKept
<1>1. TimerInit => SweepSafe
  BY DEF TimerInit, Present, SweepSafe
<1>2. SweepSafe => LivingKept
  BY DEF SweepSafe, LivingKept
<1> QED
  BY <1>1, <1>2, SweepSafeStep, PTL DEF TimerSpec

(* What the walk has still to come to is in the table, and a timer's time  *)
(* has not run ahead of the frames, unless a key was inserted under the    *)
(* walk.                                                                   *)
Handler == [once : BOOLEAN, interval : Intervals, elapse : Int]

TimerTyped ==
  /\ handlers \in [Present -> Handler] /\ age \in [TimerKeys -> Int]
  /\ Present \subseteq TimerKeys /\ todo \subseteq Present
  /\ todo \cup calling # {} => walking
  /\ calling \subseteq TimerKeys /\ calling \cap todo \subseteq unsure

InStep ==
  \A k \in Present \ unsure :
    age[k] >= IF k \in todo THEN Capped(handlers[k].elapse + 1) ELSE Capped(handlers[k].elapse)

WalkSafe == SweepSafe /\ TimerTyped /\ InStep

LEMMA Greatest == MaxInterval \in Int
<1>1. PICK m \in Intervals : \A i \in Intervals : i <= m
  BY TimerAssumption
<1>2. \A i \in Intervals : m >= i
  BY <1>1, TimerAssumption
<1>3. Max(Intervals) \in Intervals
  BY <1>2, Zenon DEF Max
<1>4. Intervals \subseteq Int
  BY TimerAssumption
<1>5. MaxInterval \in Intervals
  BY <1>3, Zenon DEF MaxInterval
<1> QED
  BY <1>4, <1>5

LEMMA CappedGrows ==
  /\ \A n \in Int : Capped(n) \in Int /\ Capped(n) <= n /\ Capped(Capped(n)) = Capped(n)
  /\ \A m, n \in Int : m <= n => Capped(m) <= Capped(n)
  /\ \A n \in Int : Capped(Capped(n) + 1) = Capped(n + 1)
BY Greatest DEF Capped

LEMMA WalkSafeStep == WalkSafe /\ [TimerNext]_timerVars => WalkSafe'
<1> SUFFICES ASSUME WalkSafe, [TimerNext]_timerVars PROVE TimerTyped' /\ InStep'
  BY SweepSafeStep DEF WalkSafe
<1> USE DEF WalkSafe, Present
<1>0. /\ \A k \in Present : handlers[k] \in Handler /\ handlers[k].elapse \in Int
      /\ \A k \in TimerKeys : age[k] \in Int
  BY DEF TimerTyped, Handler
<1>1. ASSUME NEW k \in TimerKeys, NEW i \in Intervals, NEW o \in BOOLEAN, AddTimer(k, i, o)
      PROVE  TimerTyped' /\ InStep'
  <2> DEFINE h == [once |-> o, interval |-> i, elapse |-> 0]
  <2>1. /\ handlers' = Put(k, h) /\ calling' = calling /\ walking' = walking
        /\ age' = [age EXCEPT ![k] = IF walking THEN 1 ELSE 0]
    BY <1>1 DEF AddTimer
  <2>2. \/ walking /\ todo' \subseteq Present \cup {k} /\ unsure' = Present \cup {k}
        \/ todo' = todo /\ unsure' = IF k \in todo THEN unsure ELSE unsure \ {k}
    BY <1>1 DEF AddTimer
  <2>3. h \in Handler /\ h.elapse = 0
    BY DEF Handler
  <2> HIDE DEF h
  <2>4. /\ handlers' \in [Present \cup {k} -> Handler] /\ Present' = Present \cup {k}
        /\ handlers'[k] = h /\ \A j \in Present \ {k} : handlers'[j] = handlers[j]
    BY <2>1, <2>3, <1>0 DEF Put
  <2>5. /\ age' \in [TimerKeys -> Int] /\ age'[k] = IF walking THEN 1 ELSE 0
        /\ \A j \in TimerKeys \ {k} : age'[j] = age[j]
    BY <2>1 DEF TimerTyped
  <2>6. TimerTyped'
    BY <2>1, <2>2, <2>4, <2>5 DEF TimerTyped
  <2>7. Capped(0) <= 0 /\ Capped(1) <= 1 /\ Capped(0) \in Int /\ Capped(1) \in Int
    BY CappedGrows
  <2>8. ASSUME NEW j \in Present' \ unsure'
        PROVE  age'[j] >= IF j \in todo' THEN Capped(handlers'[j].elapse + 1)
                                         ELSE Capped(handlers'[j].elapse)
    <3>1. todo' = todo /\ (k \in todo => walking) /\ (j # k => j \in Present \ unsure)
      BY <2>2, <2>4, <2>8 DEF TimerTyped
    <3>2. CASE j = k
      BY <2>3, <2>4, <2>5, <2>7, <3>1, <3>2
    <3>3. CASE j # k
      <4>1. j \in TimerKeys /\ age'[j] = age[j] /\ handlers'[j] = handlers[j]
        BY <2>4, <2>5, <3>1, <3>3 DEF TimerTyped
      <4> QED
        BY <4>1, <3>1, <3>3 DEF InStep
    <3> QED
      BY <3>2, <3>3
  <2> QED
    BY <2>6, <2>8 DEF InStep
<1>2. ASSUME NEW k \in TimerKeys, RemoveTimer(k) PROVE TimerTyped' /\ InStep'
  BY <1>2 DEF RemoveTimer, TimerTyped, InStep, Capped
<1>3. ASSUME NEW k \in todo, k \in TimerKeys, walking,
             handlers' = Elapsed(k), todo' = todo \ {k}, calling' \in {{}, {k}},
             walking' = walking, age' = age, unsure' = unsure
      PROVE  TimerTyped' /\ InStep'
  <2>1. /\ handlers[k].elapse + 1 \in Int /\ Capped(handlers[k].elapse + 1) \in Int
        /\ Capped(Capped(handlers[k].elapse + 1)) = Capped(handlers[k].elapse + 1)
    BY <1>0, <1>3, CappedGrows DEF TimerTyped
  <2>2. /\ handlers' \in [Present -> Handler] /\ Present' = Present
        /\ handlers'[k].elapse = Capped(handlers[k].elapse + 1)
        /\ \A j \in Present \ {k} : handlers'[j] = handlers[j]
    BY <1>0, <1>3, <2>1 DEF Elapsed, TimerTyped, Handler
  <2>3. TimerTyped'
    BY <1>3, <2>2 DEF TimerTyped
  <2> QED
    BY <1>3, <2>1, <2>2, <2>3 DEF InStep, TimerTyped
<1>4. ASSUME NEW k \in TimerKeys, Pass(k) \/ Call(k) PROVE TimerTyped' /\ InStep'
  BY <1>3, <1>4 DEF Pass, Call
<1>5. CASE ClearAll
  <2>1. Present' = {} /\ handlers' = [k \in {} |-> 0] /\ todo' = {} /\ calling' = calling
        /\ walking' = walking /\ age' = age
    BY <1>5 DEF ClearAll
  <2> QED
    BY <2>1 DEF TimerTyped, InStep
<1>6. CASE BeginTrigger
  <2>1. /\ walking' /\ handlers' = handlers /\ todo' = Present /\ calling' = calling
        /\ calling = {} /\ todo = {} /\ unsure' = unsure
        /\ age' = [k \in TimerKeys |-> Capped(age[k] + 1)]
    BY <1>6 DEF BeginTrigger, TimerTyped
  <2>2. \A k \in TimerKeys : Capped(age[k] + 1) \in Int
    BY <1>0, CappedGrows
  <2>3. TimerTyped'
    BY <2>1, <2>2 DEF TimerTyped
  <2>4. ASSUME NEW k \in Present \ unsure
        PROVE  Capped(age[k] + 1) >= Capped(handlers[k].elapse + 1)
    <3>1. age[k] >= Capped(handlers[k].elapse) /\ age[k] \in Int /\ handlers[k].elapse \in Int
      BY <1>0, <2>1 DEF InStep, TimerTyped
    <3>2. Capped(handlers[k].elapse) + 1 \in Int /\ age[k] + 1 \in Int
          /\ Capped(handlers[k].elapse) + 1 <= age[k] + 1
      BY <3>1, CappedGrows
    <3>3. Capped(Capped(handlers[k].elapse) + 1) <= Capped(age[k] + 1)
      BY <3>2, CappedGrows
    <3>4. /\ Capped(Capped(handlers[k].elapse) + 1) = Capped(handlers[k].elapse + 1)
          /\ Capped(handlers[k].elapse + 1) \in Int /\ Capped(age[k] + 1) \in Int
      BY <3>1, <3>2, CappedGrows
    <3> QED
      BY <3>3, <3>4
  <2> QED
    BY <2>1, <2>3, <2>4 DEF InStep, TimerTyped
<1>7. CASE Return
  <2>1. PICK k \in calling :
          /\ calling' = {} /\ todo' = todo /\ walking' = walking
          /\ handlers' = IF k \in Present THEN [handlers EXCEPT ![k].elapse = 0] ELSE handlers
          /\ age' = [age EXCEPT ![k] = 0]
          /\ unsure' = IF k \in todo THEN unsure ELSE unsure \ {k}
    BY <1>7 DEF Return
  <2>2. /\ handlers' \in [Present -> Handler] /\ Present' = Present
        /\ k \in Present => handlers'[k].elapse = 0
        /\ \A j \in Present \ {k} : handlers'[j] = handlers[j]
    BY <1>0, <2>1 DEF TimerTyped, Handler
  <2>3. /\ k \in TimerKeys /\ age' \in [TimerKeys -> Int] /\ age'[k] = 0
        /\ \A j \in TimerKeys \ {k} : age'[j] = age[j]
    BY <2>1 DEF TimerTyped
  <2>4. TimerTyped'
    BY <2>1, <2>2, <2>3 DEF TimerTyped
  <2>5. Capped(0) <= 0 /\ Capped(0) \in Int
    BY CappedGrows
  <2> QED
    BY <2>1, <2>2, <2>3, <2>4, <2>5 DEF InStep, TimerTyped
<1>8. CASE Fail
  <2>1. /\ calling' = {} /\ todo' = {} /\ handlers' = handlers /\ age' = age /\ unsure' = unsure
    BY <1>8 DEF Fail
  <2>2. \A k \in Present : /\ Capped(handlers[k].elapse) <= Capped(handlers[k].elapse + 1)
                           /\ Capped(handlers[k].elapse) \in Int
                           /\ Capped(handlers[k].elapse + 1) \in Int
    BY <1>0, CappedGrows
  <2> QED
    BY <1>0, <2>1, <2>2 DEF TimerTyped, InStep
<1>9. CASE EndTrigger
  <2> DEFINE marks == IF rmvs = {} THEN removes ELSE UNION rmvs
  <2>1. /\ handlers' = [k \in Present \ marks |-> handlers[k]]
        /\ todo = {} /\ todo' = {} /\ calling' = {} /\ age' = age /\ unsure' = unsure
    BY <1>9 DEF EndTrigger
  <2> HIDE DEF marks
  <2>2. /\ Present' = Present \ marks /\ handlers' \in [Present' -> Handler]
        /\ \A k \in Present' : handlers'[k] = handlers[k]
    BY <1>0, <2>1
  <2> QED
    BY <2>1, <2>2 DEF TimerTyped, InStep
<1>10. CASE UNCHANGED timerVars
  BY <1>10 DEF timerVars, TimerTyped, InStep, Capped
<1> QED
  BY <1>1, <1>2, <1>4, <1>5, <1>6, <1>7, <1>8, <1>9, <1>10 DEF TimerNext

(* No callback is called once its timer is removed, cleared or used up,    *)
(* nor before its interval has passed (Timer.lua:23-45) unless a key was   *)
(* inserted into the table being walked since it was last called, for any  *)
(* keys, intervals and number of calls and failures.                       *)
THEOREM OnlyTheLivingAreCalled == TimerSpec => CallsTheLiving
<1>1. TimerInit => WalkSafe
  BY DEF TimerInit, WalkSafe, SweepSafe, TimerTyped, InStep, Present, Handler
<1>2. ASSUME WalkSafe, TimerNext, NEW k \in TimerKeys, calling = {}, k \in calling'
      PROVE  k \in alive /\ (k \in unsure \/ age[k] >= handlers[k].interval)
  <2>1. Call(k)
    <3>1. PICK j \in TimerKeys : Call(j)
      BY <1>2 DEF TimerNext, AddTimer, RemoveTimer, Pass, ClearAll, BeginTrigger, Return, Fail,
                  EndTrigger
    <3> QED
      BY <1>2, <3>1 DEF Call
  <2>2. k \in todo /\ k \in Present \ removes /\ Due(k)
    BY <1>2, <2>1 DEF Call, WalkSafe, TimerTyped
  <2>3. handlers[k].interval \in Nat /\ handlers[k].elapse \in Int /\ age[k] \in Int
    BY <1>2, <2>2, TimerAssumption DEF WalkSafe, TimerTyped, Handler
  <2>4. Capped(handlers[k].elapse + 1) \in Int
    BY <2>3, CappedGrows
  <2>5. k \in alive
    BY <1>2, <2>2 DEF WalkSafe, SweepSafe
  <2>6. k \notin unsure => age[k] >= Capped(handlers[k].elapse + 1)
    BY <1>2, <2>2 DEF WalkSafe, InStep
  <2> QED
    BY <2>2, <2>3, <2>4, <2>5, <2>6 DEF Due
<1>3. WalkSafe /\ [TimerNext]_timerVars =>
        [\A k \in TimerKeys : (calling = {} /\ k \in calling') =>
           /\ k \in alive
           /\ k \in unsure \/ age[k] >= handlers[k].interval]_timerVars
  BY <1>2
<1> QED
  BY <1>1, <1>3, WalkSafeStep, PTL DEF TimerSpec, CallsTheLiving

-----------------------------------------------------------------------------
Frame == [value : Values, walk : {0, 1, 2}, todo : SUBSET BindTags, calling : SUBSET BindTags,
          lost : BOOLEAN]

BinderTyped ==
  /\ value \in Values /\ bound \in SUBSET BindTags
  /\ frames \in Seq(Frame)

(* Somewhere on the stack is a Set of the value that the field has now, in *)
(* its first walk, so that the second is still to come, or in its second   *)
(* walk, in which those who have not been told of it are still to come.    *)
Untold == (bound \ fresh) \ told
Owes(f, v, owed) == f.value = v /\ (f.walk = 1 \/ (f.walk = 2 /\ owed \subseteq f.todo))
ToldOrToCome ==
  ~failed /\ Untold # {} => \E i \in 1..Len(frames) : Owes(frames[i], value, Untold)

BinderInv == BinderTyped /\ ToldOrToCome

LEMMA TopOfStack ==
  ASSUME NEW fs \in Seq(Frame), fs # <<>>
  PROVE  /\ Len(fs) \in Nat \ {0} /\ Last(fs) = fs[Len(fs)] /\ Last(fs) \in Frame
         /\ Front(fs) \in Seq(Frame) /\ Len(Front(fs)) = Len(fs) - 1
         /\ \A i \in 1..Len(fs) - 1 : Front(fs)[i] = fs[i]
<1>1. Len(fs) \in Nat \ {0}
  BY EmptySeq
<1>2. \A i \in 1..Len(fs) : fs[i] \in Frame
  BY ElementOfSeq
<1>3. \A i \in 1..(Len(fs) - 1) : fs[i] \in Frame
  BY <1>1, <1>2
<1>4. Front(fs) = SubSeq(fs, 1, Len(fs) - 1)
  BY DEF Front
<1>5. /\ SubSeq(fs, 1, Len(fs) - 1) \in Seq(Frame)
      /\ Len(SubSeq(fs, 1, Len(fs) - 1)) = Len(fs) - 1
      /\ \A i \in 1..Len(fs) - 1 : SubSeq(fs, 1, Len(fs) - 1)[i] = fs[i]
  <2> DEFINE n == Len(fs) - 1
  <2>1. n \in Nat /\ 1 \in Int /\ n \in Int /\ n - 1 + 1 = n
    BY <1>1
  <2>2. \A i \in 1..n : fs[i] \in Frame
    BY <1>3
  <2> HIDE DEF n
  <2>3. /\ SubSeq(fs, 1, n) \in Seq(Frame)
        /\ Len(SubSeq(fs, 1, n)) = IF 1 <= n THEN n - 1 + 1 ELSE 0
        /\ \A i \in 1..n - 1 + 1 : SubSeq(fs, 1, n)[i] = fs[1 + i - 1]
    BY <2>1, <2>2, SubSeqProperties
  <2>4. \A i \in 1..n : 1 + i - 1 = i
    BY <2>1
  <2>5. /\ SubSeq(fs, 1, n) \in Seq(Frame) /\ Len(SubSeq(fs, 1, n)) = n
        /\ \A i \in 1..n : SubSeq(fs, 1, n)[i] = fs[i]
    BY <2>1, <2>3, <2>4
  <2> QED
    BY <2>5 DEF n
<1>6. Last(fs) = fs[Len(fs)] /\ Last(fs) \in Frame
  BY <1>1, <1>2 DEF Last
<1> QED
  BY <1>1, <1>4, <1>5, <1>6

(* What a step that only changes the innermost Set does to the stack.      *)
LEMMA Amended ==
  ASSUME frames \in Seq(Frame), frames # <<>>, NEW f \in Frame, Amend(f)
  PROVE  /\ frames' \in Seq(Frame) /\ Len(frames') = Len(frames) /\ Len(frames) \in Nat \ {0}
         /\ \A i \in 1..Len(frames) - 1 : frames'[i] = frames[i]
         /\ frames'[Len(frames)] = f
         /\ Top = frames[Len(frames)] /\ Top \in Frame
<1> DEFINE fr == Front(frames)
<1>1. /\ Len(frames) \in Nat \ {0} /\ Top = frames[Len(frames)] /\ Top \in Frame
      /\ fr \in Seq(Frame) /\ Len(fr) = Len(frames) - 1
      /\ \A i \in 1..Len(frames) - 1 : fr[i] = frames[i]
  BY TopOfStack DEF Top
<1>2. frames' = Append(fr, f)
  BY DEF Amend
<1> HIDE DEF fr
<1>3. /\ Append(fr, f) \in Seq(Frame) /\ Len(Append(fr, f)) = Len(fr) + 1
      /\ \A i \in 1..Len(fr) : Append(fr, f)[i] = fr[i]
      /\ Append(fr, f)[Len(fr) + 1] = f
  BY <1>1, AppendProperties
<1> QED
  BY <1>1, <1>2, <1>3

LEMMA BinderStep == BinderInv /\ [BinderNext]_binderVars => BinderInv'
<1> SUFFICES ASSUME BinderInv, [BinderNext]_binderVars PROVE BinderInv'
  OBVIOUS
<1> USE DEF BinderInv, BinderTyped
<1>1. ASSUME NEW v \in Values, Set(v) PROVE BinderInv'
  <2> DEFINE f == FirstWalk(v)
  <2>1. f \in Frame /\ frames' = Append(frames, f) /\ value' = v /\ UNCHANGED bound
    BY <1>1 DEF Set, Frame, FirstWalk
  <2>2. f.walk = 1 /\ f.value = v
    BY DEF FirstWalk
  <2> HIDE DEF f
  <2>3. /\ frames' \in Seq(Frame) /\ Len(frames') = Len(frames) + 1
        /\ frames'[Len(frames) + 1] = f
    BY <2>1, AppendProperties
  <2>4. Len(frames) + 1 \in 1..Len(frames')
    BY <2>3, LenProperties
  <2>5. Owes(f, value', Untold')
    BY <2>1, <2>2 DEF Owes
  <2> QED
    BY <2>1, <2>3, <2>4, <2>5 DEF ToldOrToCome, Owes, Untold
<1>2. ASSUME NEW c \in BindTags, Deliver(c) PROVE BinderInv'
  <2> DEFINE f == [Top EXCEPT !.todo = @ \ {c}, !.calling = {c}, !.lost = FALSE]
  <2>1. /\ frames # <<>> /\ Amend(f) /\ UNCHANGED <<value, bound, fresh, failed>>
        /\ told' = IF Top.value = value THEN told \cup {c} ELSE told
    BY <1>2 DEF Deliver
  <2>2. Top \in Frame
    BY <2>1, TopOfStack DEF Top
  <2>3. /\ f \in Frame /\ f.walk = Top.walk /\ f.value = Top.value
        /\ f.todo = Top.todo \ {c}
    BY <2>2 DEF Frame
  <2> HIDE DEF f
  <2>4. /\ frames' \in Seq(Frame) /\ Len(frames') = Len(frames) /\ Len(frames) \in Nat \ {0}
        /\ \A i \in 1..Len(frames) - 1 : frames'[i] = frames[i]
        /\ frames'[Len(frames)] = f /\ Top = frames[Len(frames)]
    BY <2>1, <2>3, Amended
  <2>5. CASE failed \/ Untold = {}
    BY <2>1, <2>4, <2>5 DEF ToldOrToCome, Untold
  <2>6. ASSUME NEW i \in 1..Len(frames) - 1, Owes(frames[i], value, Untold) PROVE ToldOrToCome'
    <3>1. Owes(frames'[i], value', Untold')
      BY <2>1, <2>4, <2>6 DEF Owes, Untold
    <3> QED
      BY <2>4, <3>1 DEF ToldOrToCome
  <2>7. CASE Owes(Top, value, Untold)
    <3>1. Owes(f, value', Untold')
      BY <2>1, <2>3, <2>7 DEF Owes, Untold
    <3> QED
      BY <2>1, <2>4, <3>1 DEF ToldOrToCome
  <2>8. \A i \in 1..Len(frames) : i \in 1..Len(frames) - 1 \/ i = Len(frames)
    BY <2>4
  <2>9. ToldOrToCome'
    BY <2>4, <2>5, <2>6, <2>7, <2>8 DEF ToldOrToCome
  <2> QED
    BY <2>1, <2>4, <2>9
<1>3. CASE CallbackReturns
  <2> DEFINE f == [Top EXCEPT !.calling = {}]
  <2>1. frames # <<>> /\ Amend(f) /\ UNCHANGED <<value, bound, fresh, told, failed>>
    BY <1>3 DEF CallbackReturns
  <2>2. Top \in Frame
    BY <2>1, TopOfStack DEF Top
  <2>3. f \in Frame /\ f.walk = Top.walk /\ f.value = Top.value /\ f.todo = Top.todo
    BY <2>2 DEF Frame
  <2> HIDE DEF f
  <2>4. /\ frames' \in Seq(Frame) /\ Len(frames') = Len(frames) /\ Len(frames) \in Nat \ {0}
        /\ \A i \in 1..Len(frames) - 1 : frames'[i] = frames[i]
        /\ frames'[Len(frames)] = f /\ Top = frames[Len(frames)]
    BY <2>1, <2>3, Amended
  <2>5. \A i \in 1..Len(frames) : Owes(frames[i], value, Untold) => Owes(frames'[i], value', Untold')
    BY <2>1, <2>3, <2>4 DEF Owes, Untold
  <2> QED
    BY <2>1, <2>4, <2>5 DEF ToldOrToCome, Owes, Untold
<1>4. CASE SecondWalk
  <2> DEFINE f == [Top EXCEPT !.walk = 2, !.todo = bound, !.lost = FALSE]
  <2>1. /\ frames # <<>> /\ Amend(f) /\ UNCHANGED <<value, bound, fresh, told, failed>>
        /\ Top.walk = 1
    BY <1>4 DEF SecondWalk
  <2>2. Top \in Frame
    BY <2>1, TopOfStack DEF Top
  <2>3. f \in Frame /\ f.walk = 2 /\ f.value = Top.value /\ f.todo = bound
    BY <2>2 DEF Frame
  <2> HIDE DEF f
  <2>4. /\ frames' \in Seq(Frame) /\ Len(frames') = Len(frames) /\ Len(frames) \in Nat \ {0}
        /\ \A i \in 1..Len(frames) - 1 : frames'[i] = frames[i]
        /\ frames'[Len(frames)] = f /\ Top = frames[Len(frames)]
    BY <2>1, <2>3, Amended
  <2>5. \A i \in 1..Len(frames) - 1 : Owes(frames[i], value, Untold) => Owes(frames'[i], value', Untold')
    BY <2>1, <2>4 DEF Owes, Untold
  <2>6. Owes(Top, value, Untold) => Owes(f, value', Untold')
    BY <2>1, <2>3 DEF Owes, Untold
  <2>7. \A i \in 1..Len(frames) : i \in 1..Len(frames) - 1 \/ i = Len(frames)
    BY <2>4
  <2> QED
    BY <2>1, <2>4, <2>5, <2>6, <2>7 DEF ToldOrToCome, Owes, Untold
<1>5. CASE SetReturns
  <2>1. /\ frames # <<>> /\ frames' = Front(frames) /\ Top.walk # 1 /\ Top.todo = {}
        /\ UNCHANGED <<value, bound, fresh, told, failed>>
    BY <1>5 DEF SetReturns
  <2>2. /\ Len(frames) \in Nat \ {0} /\ Top = frames[Len(frames)]
        /\ frames' \in Seq(Frame) /\ Len(frames') = Len(frames) - 1
        /\ \A i \in 1..Len(frames) - 1 : frames'[i] = frames[i]
    BY <2>1, TopOfStack DEF Top
  <2>3. \A i \in 1..Len(frames) - 1 : Owes(frames[i], value, Untold) => Owes(frames'[i], value', Untold')
    BY <2>1, <2>2 DEF Owes, Untold
  <2>4. Owes(frames[Len(frames)], value, Untold) => Untold = {}
    BY <2>1, <2>2 DEF Owes, Untold
  <2>5. \A i \in 1..Len(frames) : i \in 1..Len(frames) - 1 \/ i = Len(frames)
    BY <2>2
  <2> QED
    BY <2>1, <2>2, <2>3, <2>4, <2>5 DEF ToldOrToCome, Owes, Untold
<1>6. ASSUME NEW c \in BindTags, NEW now \in BOOLEAN, Bind(c, now) PROVE BinderInv'
  <2>1. PICK rest \in [1..Len(frames) -> SUBSET (bound \cup {c})] :
          frames' = [i \in 1..Len(frames) |-> AfterBind(frames[i], c, rest[i])]
                    \o (IF now
                        THEN <<[FirstWalk(value) EXCEPT !.walk = 0, !.todo = {}, !.calling = {c}]>>
                        ELSE <<>>)
    BY <1>6 DEF Bind
  <2>2. /\ bound' = bound \cup {c} /\ UNCHANGED <<value, failed>>
        /\ fresh' = fresh \cup PassedOver \cup IF now THEN {} ELSE {c}
        /\ told' = IF now THEN told \cup {c} ELSE told
    BY <1>6 DEF Bind
  <2> DEFINE walks == [i \in 1..Len(frames) |-> AfterBind(frames[i], c, rest[i])]
             called == [FirstWalk(value) EXCEPT !.walk = 0, !.todo = {}, !.calling = {c}]
             more == IF now THEN <<called>> ELSE <<>>
  <2>3. \A i \in 1..Len(frames) : frames[i] \in Frame
    BY ElementOfSeq
  <2>4. \A i \in 1..Len(frames) : /\ AfterBind(frames[i], c, rest[i]) \in Frame
                                 /\ AfterBind(frames[i], c, rest[i]).walk = frames[i].walk
                                 /\ AfterBind(frames[i], c, rest[i]).value = frames[i].value
    <3> SUFFICES ASSUME NEW i \in 1..Len(frames)
                 PROVE  /\ AfterBind(frames[i], c, rest[i]) \in Frame
                        /\ AfterBind(frames[i], c, rest[i]).walk = frames[i].walk
                        /\ AfterBind(frames[i], c, rest[i]).value = frames[i].value
      OBVIOUS
    <3>1. rest[i] \in SUBSET BindTags
      OBVIOUS
    <3>2. frames[i] \in Frame
      BY <2>3
    <3>3. (frames[i].calling # {c} /\ (frames[i].lost \/ ~(frames[i].calling \subseteq bound))) \in BOOLEAN
      OBVIOUS
    <3> QED
      BY <3>1, <3>2, <3>3 DEF AfterBind, Frame
  <2>5. walks \in [1..Len(frames) -> Frame]
    BY <2>4
  <2>6. called \in Frame
    BY DEF Frame, FirstWalk
  <2>7. \A i \in 1..Len(frames) : walks[i].walk = frames[i].walk /\ walks[i].value = frames[i].value
    BY <2>4
  <2>8. frames' = walks \o more
    BY <2>1
  <2> HIDE DEF walks, called
  <2>9. more \in Seq(Frame)
    BY <2>6
  <2>10. Len(frames) \in Nat
    BY LenProperties
  <2>11. walks \in Seq(Frame) /\ Len(walks) = Len(frames)
    BY <2>5, <2>10, LenProperties
  <2> HIDE DEF more
  <2>12. /\ frames' \in Seq(Frame) /\ Len(frames') = Len(walks) + Len(more)
         /\ \A i \in 1..Len(walks) : frames'[i] = walks[i]
    <3>1. /\ walks \o more \in Seq(Frame) /\ Len(walks \o more) = Len(walks) + Len(more)
          /\ \A i \in 1..Len(walks) + Len(more) :
               (walks \o more)[i] = IF i <= Len(walks) THEN walks[i] ELSE more[i - Len(walks)]
      BY <2>9, <2>11, ConcatProperties
    <3>2. Len(walks) \in Nat /\ Len(more) \in Nat
      BY <2>9, <2>11, LenProperties
    <3>3. \A i \in 1..Len(walks) : i \in 1..Len(walks) + Len(more) /\ i <= Len(walks)
      BY <3>2
    <3> QED
      BY <2>8, <3>1, <3>3
  <2>13. Len(more) \in Nat
    BY <2>9, LenProperties
  <2>14. CASE Walks(1) # {}
    <3>1. PICK i \in 1..Len(frames) : frames[i].value = value /\ frames[i].walk = 1
      BY <2>14 DEF Walks
    <3>2. i \in 1..Len(frames') /\ frames'[i].value = value' /\ frames'[i].walk = 1
      BY <2>2, <2>7, <2>10, <2>11, <2>12, <2>13, <3>1
    <3>3. Owes(frames'[i], value', Untold')
      BY <3>2 DEF Owes
    <3>4. ToldOrToCome'
      BY <3>2, <3>3 DEF ToldOrToCome
    <3> QED
      BY <2>2, <2>12, <3>4
  <2>15. CASE Walks(1) = {} /\ ~failed
    <3>1. Untold \subseteq PassedOver
      <4>1. CASE Untold = {}
        BY <4>1
      <4>2. CASE Untold # {}
        <5>1. PICK i \in 1..Len(frames) : Owes(frames[i], value, Untold)
          BY <2>15, <4>2 DEF ToldOrToCome
        <5>2. i \in Walks(2) /\ Untold \subseteq frames[i].todo
          BY <2>15, <5>1 DEF Owes, Walks
        <5> QED
          BY <2>15, <5>2 DEF PassedOver
      <4> QED
        BY <4>1, <4>2
    <3>2. Untold' = {}
      BY <2>2, <3>1 DEF Untold
    <3> QED
      BY <2>12, <3>2, <2>2 DEF ToldOrToCome
  <2>16. CASE failed
    BY <2>2, <2>12, <2>16 DEF ToldOrToCome
  <2> QED
    BY <2>14, <2>15, <2>16
<1>7. ASSUME NEW c \in BindTags, Unbind(c) PROVE BinderInv'
  <2>1. /\ bound' = bound \ {c} /\ told' = told \ {c} /\ fresh' = fresh \ {c}
        /\ UNCHANGED <<value, failed>>
        /\ frames' = [i \in 1..Len(frames) |-> [frames[i] EXCEPT !.todo = @ \ {c}]]
    BY <1>7 DEF Unbind
  <2>2. \A i \in 1..Len(frames) : frames[i] \in Frame
    BY ElementOfSeq
  <2>3. \A i \in 1..Len(frames) : /\ frames'[i] \in Frame /\ frames'[i].todo = frames[i].todo \ {c}
                                 /\ frames'[i].walk = frames[i].walk
                                 /\ frames'[i].value = frames[i].value
    BY <2>1, <2>2 DEF Frame
  <2>4. Len(frames) \in Nat
    BY LenProperties
  <2>5. frames' \in [1..Len(frames) -> Frame]
    BY <2>1, <2>3
  <2>6. frames' \in Seq(Frame) /\ Len(frames') = Len(frames)
    BY <2>4, <2>5, LenProperties
  <2>7. Untold' \subseteq Untold \ {c}
    BY <2>1 DEF Untold
  <2>8. \A i \in 1..Len(frames) : Owes(frames[i], value, Untold) => Owes(frames'[i], value', Untold')
    BY <2>1, <2>3, <2>7 DEF Owes
  <2>9. ToldOrToCome'
    BY <2>1, <2>6, <2>7, <2>8 DEF ToldOrToCome
  <2> QED
    BY <2>1, <2>6, <2>9
<1>8. CASE WalkFails
  BY <1>8, EmptySeq DEF WalkFails, ToldOrToCome
<1>9. CASE UNCHANGED binderVars
  BY <1>9 DEF binderVars, ToldOrToCome, Owes, Untold
<1> QED
  BY <1>1, <1>2, <1>3, <1>4, <1>5, <1>6, <1>7, <1>8, <1>9 DEF BinderNext

(* Outside of any Set, and unless a walk failed, every callback bound when *)
(* the field got its value has been called with it, for any callbacks and  *)
(* any values, whatever callbacks set, bind and unbind in the walks, but   *)
(* for those still to come in the second walk of that Set when another     *)
(* callback was bound (Property.lua:147-169, ToBind.lua:9-31).             *)
THEOREM EveryoneIsTold == BinderSpec => []EveryoneTold
<1>1. BinderInit => BinderInv
  BY EmptySeq DEF BinderInit, BinderInv, BinderTyped, ToldOrToCome, Untold
<1>2. BinderInv => EveryoneTold
  BY DEF BinderInv, ToldOrToCome, EveryoneTold, Untold
<1> QED
  BY <1>1, <1>2, BinderStep, PTL DEF BinderSpec
=============================================================================
