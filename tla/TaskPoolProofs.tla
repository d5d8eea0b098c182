--------------------------- MODULE TaskPoolProofs ---------------------------
(***************************************************************************)
(* Theorems about TaskPool, for any number of workers, clients and tasks.  *)
(***************************************************************************)
EXTENDS TaskPool, TLAPS

-----------------------------------------------------------------------------
(* Typing.  Whoever is past the point where it took a task has one. *)

WorkerHolds == \A w \in Workers :
    /\ wpc[w] \in {"valid", "begin", "calls"} => wtask[w] \in Tasks
    /\ wpc[w] \in {"loop", "try", "size", "pop", "exit"} => wtask[w] = None

ClientHolds == \A c \in Clients :
    /\ cpc[c] \in {"locked", "push", "attach"} => ctask[c] \in Tasks
    /\ cpc[c] = "locked" => c \in Careful

Typing == TypeOK /\ WorkerHolds /\ ClientHolds

LEMMA TypingInit == Init => Typing
<1> SUFFICES ASSUME Init PROVE Typing
  OBVIOUS
<1>0. bRun \in BOOLEAN /\ freed \in BOOLEAN
  BY DEF Init
<1>7. tasks \in Seq(Tasks \cup {Garbage})
  BY DEF Init
<1>1. /\ lock \in Workers \cup Clients \cup {None}
      /\ refs \subseteq Clients \cup {None}
      /\ lost \subseteq Tasks
  BY DEF Init
<1>2. /\ state \in [Tasks -> {"Unkown", "Valid"}]
      /\ value \in [Tasks -> BOOLEAN]
      /\ calls \in [Tasks -> 0..MaxCalls]
      /\ runs \in [Tasks -> Nat] /\ fired \in [Tasks -> Nat]
  BY PoolAssumption DEF Init
<1>3. /\ wpc \in [Workers -> WPoints]
      /\ wtask \in [Workers -> Tasks \cup {Garbage, None}]
      /\ wnext \in [Workers -> Nat] /\ wend \in [Workers -> 0..MaxCalls]
      /\ late \in [Workers -> Nat]
  BY PoolAssumption DEF Init, WPoints
<1>4. /\ cpc \in [Clients -> CPoints]
      /\ ctask \in [Clients -> Tasks \cup {None}]
      /\ torn \in [Clients -> BOOLEAN]
  BY DEF Init, CPoints
<1>5. TypeOK
  BY <1>0, <1>7, <1>1, <1>2, <1>3, <1>4 DEF TypeOK
<1>6. WorkerHolds /\ ClientHolds
  BY DEF Init, WorkerHolds, ClientHolds
<1> QED
  BY <1>5, <1>6 DEF Typing

\* A step of a worker keeps the types ...
LEMMA TypesWorker ==
    ASSUME Typing, NEW w \in Workers, WorkerStep(w)
    PROVE  TypeOK'
<1> USE PoolAssumption DEF Typing, TypeOK, WorkerHolds, WPoints, WGo,
        pool, future, worker, client, ghost
<1>1. CASE Loop(w)
  <2>1. wpc' = [wpc EXCEPT ![w] = "try"] \/ wpc' = [wpc EXCEPT ![w] = "exit"]
    BY <1>1 DEF Loop
  <2>2. wpc' \in [Workers -> WPoints]
    BY <2>1
  <2> QED
    BY <1>1, <2>2 DEF Loop
<1>2. CASE TryLock(w)
  <2>1. lock' = w \/ lock' = lock
    BY <1>2 DEF TryLock
  <2>2. wpc' = [wpc EXCEPT ![w] = "size"] \/ wpc' = [wpc EXCEPT ![w] = "loop"]
    BY <1>2 DEF TryLock
  <2>3. wpc' \in [Workers -> WPoints]
    BY <2>2
  <2> QED
    BY <1>2, <2>1, <2>3 DEF TryLock
<1>3. CASE Size(w)
  BY <1>3 DEF Size
<1>4. CASE Pop(w)
  <2>1. Head(tasks) \in Tasks \cup {Garbage} /\ Tail(tasks) \in Seq(Tasks \cup {Garbage})
    BY <1>4 DEF Pop
  <2>2. torn' \in [Clients -> BOOLEAN]
    BY <1>4 DEF Pop, TearPushes
  <2>3. late' \in [Workers -> Nat]
    <3>1. CASE bRun
      BY <1>4, <3>1 DEF Pop
    <3>2. CASE ~bRun
      BY <1>4, <3>2 DEF Pop
    <3> QED
      BY <3>1, <3>2
  <2>4. wpc' \in [Workers -> WPoints] /\ wtask' \in [Workers -> Tasks \cup {Garbage, None}]
    BY <1>4, <2>1 DEF Pop
  <2> QED
    BY <1>4, <2>1, <2>2, <2>3, <2>4 DEF Pop
<1>5. CASE Unlock(w)
  BY <1>5 DEF Unlock
<1>6. CASE Run(w)
  <2>1. runs' \in [Tasks -> Nat] /\ value' \in [Tasks -> BOOLEAN]
    BY <1>6 DEF Run
  <2>2. wpc' \in [Workers -> WPoints]
    BY <1>6 DEF Run
  <2> QED
    BY <1>6, <2>1, <2>2 DEF Run
<1>7. CASE RunGarbage(w)
  BY <1>7 DEF RunGarbage
<1>8. CASE Valid(w)
  BY <1>8 DEF Valid
<1>9. CASE Begin(w)
  <2>1. wtask[w] \in Tasks
    BY <1>9 DEF Begin
  <2>2. wnext' \in [Workers -> Nat] /\ wend' \in [Workers -> 0..MaxCalls]
    BY <1>9, <2>1 DEF Begin
  <2>3. wpc' \in [Workers -> WPoints]
    BY <1>9 DEF Begin
  <2> QED
    BY <1>9, <2>2, <2>3 DEF Begin
<1>10. CASE Call(w)
  <2>1. wtask[w] \in Tasks
    BY <1>10 DEF Call
  <2>2. fired' \in [Tasks -> Nat]
    BY <1>10, <2>1 DEF Call
  <2>3. wnext' \in [Workers -> Nat]
    BY <1>10 DEF Call
  <2> QED
    BY <1>10, <2>2, <2>3 DEF Call
<1>11. CASE Return(w)
  <2>1. /\ wpc' \in [Workers -> WPoints]
        /\ wtask' \in [Workers -> Tasks \cup {Garbage, None}]
    BY <1>11 DEF Return
  <2> QED
    BY <1>11, <2>1 DEF Return
<1>12. CASE UseAfterFree(w)
  BY <1>12 DEF UseAfterFree
<1> QED
  BY <1>1, <1>2, <1>3, <1>4, <1>5, <1>6, <1>7, <1>8, <1>9, <1>10, <1>11, <1>12
  DEF WorkerStep

\* ... and leaves a task in every hand that needs one.
LEMMA HoldsWorker ==
    ASSUME Typing, NEW w \in Workers, WorkerStep(w)
    PROVE  WorkerHolds' /\ ClientHolds'
<1> USE PoolAssumption DEF Typing, TypeOK, WorkerHolds, ClientHolds, WPoints, WGo,
        pool, future, worker, client, ghost
<1>1. CASE Loop(w)
  BY <1>1 DEF Loop
<1>2. CASE TryLock(w)
  BY <1>2 DEF TryLock
<1>3. CASE Size(w)
  BY <1>3 DEF Size
<1>4. CASE Pop(w)
  BY <1>4 DEF Pop, TearPushes
<1>5. CASE Unlock(w)
  <2>1. CASE wtask[w] = None
    BY <1>5, <2>1 DEF Unlock
  <2>2. CASE wtask[w] # None
    BY <1>5, <2>2 DEF Unlock
  <2> QED
    BY <2>1, <2>2
<1>6. CASE Run(w)
  BY <1>6 DEF Run
<1>7. CASE RunGarbage(w)
  BY <1>7 DEF RunGarbage
<1>8. CASE Valid(w)
  BY <1>8 DEF Valid
<1>9. CASE Begin(w)
  BY <1>9 DEF Begin
<1>10. CASE Call(w)
  BY <1>10 DEF Call
<1>11. CASE Return(w)
  BY <1>11 DEF Return
<1>12. CASE UseAfterFree(w)
  BY <1>12 DEF UseAfterFree
<1> QED
  BY <1>1, <1>2, <1>3, <1>4, <1>5, <1>6, <1>7, <1>8, <1>9, <1>10, <1>11, <1>12
  DEF WorkerStep

\* The same for the steps of a client.
LEMMA TypesClient ==
    ASSUME Typing, NEW c \in Clients, ClientStep(c)
    PROVE  TypeOK'
<1> USE PoolAssumption DEF Typing, TypeOK, ClientHolds, WPoints, CPoints, CGo,
        pool, future, worker, client, ghost
<1>1. CASE Lock(c)
  BY <1>1 DEF Lock
<1>2. CASE PushBegin(c)
  <2>1. torn' \in [Clients -> BOOLEAN]
    <3>1. PICK f : torn' = [d \in Clients |-> f[d]] /\ \A d \in Clients : f[d] \in BOOLEAN
      <4> DEFINE g == [d \in Clients |-> IF d = c THEN \E e \in Clients : cpc[e] = "push"
                                         ELSE torn[d] \/ cpc[d] = "push"]
      <4>1. torn' = g
        BY <1>2 DEF PushBegin
      <4>2. \A d \in Clients : g[d] \in BOOLEAN
        OBVIOUS
      <4>3. g = [d \in Clients |-> g[d]]
        OBVIOUS
      <4> QED
        BY <4>1, <4>2, <4>3
    <3> QED
      BY <3>1
  <2>2. ctask' \in [Clients -> Tasks \cup {None}] /\ cpc' \in [Clients -> CPoints]
    <3>1. PICK t \in Tasks : ctask' = [ctask EXCEPT ![c] = t]
      BY <1>2 DEF PushBegin
    <3>2. cpc' = [cpc EXCEPT ![c] = "push"]
      BY <1>2 DEF PushBegin
    <3> QED
      BY <3>1, <3>2
  <2> QED
    BY <1>2, <2>1, <2>2 DEF PushBegin
<1>3. CASE PushEnd(c)
  <2>1. ctask[c] \in Tasks
    BY <1>3 DEF PushEnd
  <2>2. Append(tasks, ctask[c]) \in Seq(Tasks \cup {Garbage})
    BY <2>1
  <2>3. Append(Append(tasks, ctask[c]), Garbage) \in Seq(Tasks \cup {Garbage})
    BY <2>2
  <2>4. tasks' \in {Append(tasks, ctask[c]), tasks, Append(Append(tasks, ctask[c]), Garbage)}
    BY <1>3 DEF PushEnd, Pushed
  <2>5. tasks' \in Seq(Tasks \cup {Garbage})
    BY <2>2, <2>3, <2>4
  <2> QED
    BY <1>3, <2>1, <2>5 DEF PushEnd
<1>4. CASE OnValid(c)
  BY <1>4 DEF OnValid
<1>5. CASE Leave(c)
  BY <1>5 DEF Leave
<1>6. CASE Drop(c)
  BY <1>6 DEF Drop, Release
<1>7. CASE Destroy(c)
  BY <1>7 DEF Destroy, Release
<1>8. CASE DtorStop(c)
  BY <1>8 DEF DtorStop
<1>9. CASE DtorLock(c)
  BY <1>9 DEF DtorLock
<1>10. CASE DtorUnlock(c)
  BY <1>10 DEF DtorUnlock
<1>11. CASE DtorFree(c)
  BY <1>11 DEF DtorFree
<1>12. CASE DropLocked(c)
  BY <1>12 DEF DropLocked
<1> QED
  BY <1>1, <1>2, <1>3, <1>4, <1>5, <1>6, <1>7, <1>8, <1>9, <1>10, <1>11, <1>12
  DEF ClientStep, DtorStep

\* A client does not take a task out of a hand that needs it.
LEMMA HoldsClient ==
    ASSUME Typing, NEW c \in Clients, ClientStep(c)
    PROVE  WorkerHolds' /\ ClientHolds'
<1> USE PoolAssumption DEF Typing, TypeOK, WorkerHolds, ClientHolds, WPoints, CPoints, CGo,
        pool, future, worker, client, ghost
<1>1. CASE Lock(c)
  BY <1>1 DEF Lock
<1>2. CASE PushBegin(c)
  BY <1>2 DEF PushBegin
<1>3. CASE PushEnd(c)
  BY <1>3 DEF PushEnd
<1>4. CASE OnValid(c)
  BY <1>4 DEF OnValid
<1>5. CASE Leave(c)
  BY <1>5 DEF Leave
<1>6. CASE Drop(c)
  BY <1>6 DEF Drop, Release
<1>7. CASE Destroy(c)
  BY <1>7 DEF Destroy, Release
<1>8. CASE DtorStop(c)
  BY <1>8 DEF DtorStop
<1>9. CASE DtorLock(c)
  BY <1>9 DEF DtorLock
<1>10. CASE DtorUnlock(c)
  BY <1>10 DEF DtorUnlock
<1>11. CASE DtorFree(c)
  BY <1>11 DEF DtorFree
<1>12. CASE DropLocked(c)
  BY <1>12 DEF DropLocked
<1> QED
  BY <1>1, <1>2, <1>3, <1>4, <1>5, <1>6, <1>7, <1>8, <1>9, <1>10, <1>11, <1>12
  DEF ClientStep, DtorStep

LEMMA TypingStep == Typing /\ [Next]_vars => Typing'
<1> SUFFICES ASSUME Typing, [Next]_vars PROVE Typing'
  OBVIOUS
<1>1. CASE UNCHANGED vars
  BY <1>1 DEF Typing, TypeOK, WorkerHolds, ClientHolds, vars, pool, future, worker,
              client, ghost
<1>2. CASE Ended
  BY <1>2 DEF Ended, Typing, TypeOK, WorkerHolds, ClientHolds, vars, pool, future,
              worker, client, ghost
<1> QED
  BY <1>1, <1>2, TypesWorker, HoldsWorker, TypesClient, HoldsClient DEF Next, Typing

\* The variables of the pool keep their types in every behaviour.
THEOREM TypeCorrect == Spec => []TypeOK
<1>1. Typing => TypeOK
  BY DEF Typing
<1> QED
  BY <1>1, TypingInit, TypingStep, PTL DEF Spec

-----------------------------------------------------------------------------
(* Mutual exclusion: whoever is inside the critical section owns the mutex. *)

Owners == /\ \A w \in Workers : wpc[w] \in {"size", "pop", "unlock"} => lock = w
          /\ \A c \in Clients :
                /\ c \in Careful /\ cpc[c] \in {"locked", "push", "attach"} => lock = c
                /\ cpc[c] = "dtorUnlock" => lock = c

LEMMA OwnersInit == Init => Owners
  BY DEF Init, Owners

LEMMA OwnersWorker ==
    ASSUME Typing, Owners, NEW w \in Workers, WorkerStep(w)
    PROVE  Owners'
<1> USE PoolAssumption DEF Typing, TypeOK, Owners, WPoints, WGo,
        pool, future, worker, client, ghost
<1>1. CASE Loop(w)
  BY <1>1 DEF Loop
<1>2. CASE TryLock(w)
  BY <1>2 DEF TryLock
<1>3. CASE Size(w)
  BY <1>3 DEF Size
<1>4. CASE Pop(w)
  BY <1>4 DEF Pop
<1>5. CASE Unlock(w)
  BY <1>5 DEF Unlock
<1>6. CASE Run(w)
  BY <1>6 DEF Run
<1>7. CASE RunGarbage(w)
  BY <1>7 DEF RunGarbage
<1>8. CASE Valid(w)
  BY <1>8 DEF Valid
<1>9. CASE Begin(w)
  BY <1>9 DEF Begin
<1>10. CASE Call(w)
  BY <1>10 DEF Call
<1>11. CASE Return(w)
  BY <1>11 DEF Return
<1>12. CASE UseAfterFree(w)
  BY <1>12 DEF UseAfterFree
<1> QED
  BY <1>1, <1>2, <1>3, <1>4, <1>5, <1>6, <1>7, <1>8, <1>9, <1>10, <1>11, <1>12
  DEF WorkerStep

LEMMA OwnersClient ==
    ASSUME Typing, Owners, NEW c \in Clients, ClientStep(c)
    PROVE  Owners'
<1> USE PoolAssumption DEF Typing, TypeOK, Owners, ClientHolds, WPoints, CPoints, CGo,
        pool, future, worker, client, ghost
<1>1. CASE Lock(c)
  BY <1>1 DEF Lock
<1>2. CASE PushBegin(c)
  BY <1>2 DEF PushBegin
<1>3. CASE PushEnd(c)
  BY <1>3 DEF PushEnd
<1>4. CASE OnValid(c)
  BY <1>4 DEF OnValid
<1>5. CASE Leave(c)
  BY <1>5 DEF Leave
<1>6. CASE Drop(c)
  BY <1>6 DEF Drop, Release
<1>7. CASE Destroy(c)
  BY <1>7 DEF Destroy, Release
<1>8. CASE DtorStop(c)
  BY <1>8 DEF DtorStop
<1>9. CASE DtorLock(c)
  BY <1>9 DEF DtorLock
<1>10. CASE DtorUnlock(c)
  BY <1>10 DEF DtorUnlock
<1>11. CASE DtorFree(c)
  BY <1>11 DEF DtorFree
<1>12. CASE DropLocked(c)
  BY <1>12 DEF DropLocked
<1> QED
  BY <1>1, <1>2, <1>3, <1>4, <1>5, <1>6, <1>7, <1>8, <1>9, <1>10, <1>11, <1>12
  DEF ClientStep, DtorStep

LEMMA OwnersStutter == Owners /\ (UNCHANGED vars \/ Ended) => Owners'
  BY DEF Owners, Ended, vars, pool, future, worker, client, ghost

\* The step under careful clients: the owner of the mutex is the only one inside.
LEMMA RaceFreeStep ==
    ASSUME Careful = Clients, Typing, Owners, QueueRaceFree, [Next]_vars
    PROVE  QueueRaceFree'
<1> USE DEF QueueRaceFree
<1>1. CASE UNCHANGED torn
  BY <1>1
<1>2. CASE \E w \in Workers : Pop(w)
  <2>1. PICK w \in Workers : Pop(w)
    BY <1>2
  <2>2. lock = w
    BY <2>1 DEF Pop, WGo, Owners
  <2>3. \A c \in Clients : cpc[c] # "push"
    BY <2>2, PoolAssumption DEF Owners
  <2> QED
    BY <2>1, <2>3 DEF Pop, TearPushes
<1>3. CASE \E c \in Clients : PushBegin(c)
  <2>1. PICK c \in Clients : PushBegin(c)
    BY <1>3
  <2>2. cpc[c] = "locked" /\ lock = c
    BY <2>1 DEF PushBegin, CGo, Owners
  <2>3. \A e \in Clients : cpc[e] # "push"
    BY <2>2 DEF Owners
  <2>4. \A d \in Clients :
          torn'[d] = IF d = c THEN \E e \in Clients : cpc[e] = "push"
                     ELSE torn[d] \/ cpc[d] = "push"
    BY <2>1 DEF PushBegin
  <2> QED
    BY <2>3, <2>4
<1>4. CASE \E c \in Clients : PushEnd(c)
  BY <1>4 DEF PushEnd, Typing, TypeOK
<1> QED
  BY <1>1, <1>2, <1>3, <1>4 DEF Next, Ended, WorkerStep, ClientStep, DtorStep,
     Loop, TryLock, Size, Unlock, Run, RunGarbage, Valid, Begin, Call, Return,
     UseAfterFree, Lock, OnValid, Leave, Drop, DropLocked, Destroy, Release, DtorStop, DtorLock,
     DtorUnlock, DtorFree, vars, client

LEMMA OwnersStep == Typing /\ Owners /\ [Next]_vars => Owners'
  BY OwnersWorker, OwnersClient, OwnersStutter DEF Next

\* When every client takes the lock around AddTask, no other thread touches the
\* queue during a push (Task.h:77, :90).
THEOREM PushesNeverRace == Careful = Clients => (Spec => []QueueRaceFree)
<1> SUFFICES ASSUME Careful = Clients PROVE Spec => []QueueRaceFree
  OBVIOUS
<1> DEFINE Inv == Typing /\ Owners /\ QueueRaceFree
<1>1. Init => Inv
  BY TypingInit, OwnersInit DEF Init, QueueRaceFree
<1>2. Inv /\ [Next]_vars => Inv'
  BY TypingStep, OwnersStep, RaceFreeStep
<1> QED
  BY <1>1, <1>2, PTL DEF Spec

-----------------------------------------------------------------------------
(* After _bRun is cleared a worker takes at most one more task: the take that *)
(* was counted leaves it past the loop, and the loop lets nobody in any more. *)

Stopped == \A w \in Workers :
    /\ late[w] <= 1
    /\ late[w] > 0 => ~bRun /\ wpc[w] \notin {"try", "size", "pop"}

THEOREM StopIsABarrier == Spec => []StopBarrier
<1> DEFINE Inv == Typing /\ Stopped
<1>1. Init => Inv
  BY TypingInit DEF Init, Stopped
<1>2. Inv /\ [Next]_vars => Inv'
  <2> SUFFICES ASSUME Inv, [Next]_vars PROVE Stopped'
    BY TypingStep
  <2> USE DEF Stopped, Typing, TypeOK, WPoints, WGo, pool, future, worker, client, ghost
  <2>1. CASE \E w \in Workers : Loop(w)
    BY <2>1 DEF Loop
  <2>2. CASE \E w \in Workers : TryLock(w)
    BY <2>2 DEF TryLock
  <2>3. CASE \E w \in Workers : Size(w)
    BY <2>3 DEF Size
  <2>4. CASE \E w \in Workers : Pop(w)
    <3>1. PICK w \in Workers : Pop(w)
      BY <2>4
    <3>2. late[w] = 0
      BY <3>1 DEF Pop
    <3>3. CASE bRun
      BY <3>1, <3>3 DEF Pop
    <3>4. CASE ~bRun
      BY <3>1, <3>2, <3>4 DEF Pop
    <3> QED
      BY <3>3, <3>4
  <2>5. CASE \E w \in Workers : Unlock(w)
    BY <2>5 DEF Unlock
  <2>6. CASE \E w \in Workers : Run(w)
    BY <2>6 DEF Run
  <2>7. CASE \E w \in Workers : RunGarbage(w)
    BY <2>7 DEF RunGarbage
  <2>8. CASE \E w \in Workers : Valid(w)
    BY <2>8 DEF Valid
  <2>9. CASE \E w \in Workers : Begin(w)
    BY <2>9 DEF Begin
  <2>10. CASE \E w \in Workers : Call(w)
    BY <2>10 DEF Call
  <2>11. CASE \E w \in Workers : Return(w)
    BY <2>11 DEF Return
  <2>12. CASE \E w \in Workers : UseAfterFree(w)
    BY <2>12 DEF UseAfterFree
  <2>13. CASE \E c \in Clients : ClientStep(c)
    <3>1. PICK c \in Clients : ClientStep(c)
      BY <2>13
    <3>2. CASE OnValid(c)
      BY <3>2 DEF OnValid
    <3>3. CASE DtorStop(c)
      BY <3>3 DEF DtorStop
    <3>4. CASE UNCHANGED <<bRun, wpc, late>>
      BY <3>4
    <3> QED
      BY <3>1, <3>2, <3>3, <3>4 DEF ClientStep, DtorStep, Lock, PushBegin, PushEnd, Leave,
         Drop, DropLocked, Destroy, Release, DtorLock, DtorUnlock, DtorFree
  <2>14. CASE UNCHANGED vars
    BY <2>14 DEF vars
  <2> QED
    BY <2>1, <2>2, <2>3, <2>4, <2>5, <2>6, <2>7, <2>8, <2>9, <2>10, <2>11, <2>12, <2>13,
       <2>14 DEF Next, Ended, WorkerStep
<1>3. Inv => StopBarrier
  BY DEF Stopped, StopBarrier
<1> QED
  BY <1>1, <1>2, <1>3, PTL DEF Spec

-----------------------------------------------------------------------------
(* No task runs twice.  A task is in at most one pair of hands: one client is *)
(* about to push it, or it is in one place of the queue, or one worker has it; *)
(* and it has not run before the last of these has called it.                  *)

Queued(t) == \E i \in DOMAIN tasks : tasks[i] = t

InOneHand ==
    /\ \A i, j \in DOMAIN tasks : tasks[i] \in Tasks /\ tasks[i] = tasks[j] => i = j
    /\ \A w, x \in Workers : wtask[w] \in Tasks /\ wtask[w] = wtask[x] => w = x
    /\ \A c, d \in Clients : ctask[c] \in Tasks /\ ctask[c] = ctask[d] => c = d
    /\ \A w \in Workers : wtask[w] \in Tasks => ~Queued(wtask[w])

Unrun(t) == ~Queued(t) /\ (\A w \in Workers : wtask[w] # t) /\ runs[t] = 0

NotYetRun ==
    /\ \A c \in Clients : cpc[c] \in {"locked", "push"} => Unrun(ctask[c])
    /\ \A t \in Tasks : Queued(t) => runs[t] = 0
    /\ \A w \in Workers :
          wpc[w] \in {"unlock", "run"} /\ wtask[w] \in Tasks => runs[wtask[w]] = 0

Once == InOneHand /\ NotYetRun /\ RunOnce

LEMMA OnceInit == Init => Once
  BY PoolAssumption DEF Init, Once, InOneHand, NotYetRun, Unrun, Queued, RunOnce

\* A step that moves no task and brings no thread to the point of using one.
LEMMA OnceQuiet ==
    ASSUME Once, UNCHANGED <<tasks, wtask, ctask, runs>>,
           \A c \in Clients : cpc'[c] \in {"locked", "push"} => cpc[c] \in {"locked", "push"},
           \A w \in Workers : wpc'[w] \in {"unlock", "run"} /\ wtask[w] \in Tasks
                                  => wpc[w] \in {"unlock", "run"}
    PROVE  Once'
  BY DEF Once, InOneHand, NotYetRun, Unrun, Queued, RunOnce

\* pop() hands the front over: it leaves the queue as it enters the worker.
LEMMA OncePop ==
    ASSUME Typing, Once, NEW w \in Workers, Pop(w)
    PROVE  Once'
<1> USE DEF Typing, TypeOK
<1>1. /\ tasks # <<>> /\ tasks \in Seq(Tasks \cup {Garbage})
      /\ wtask' = [wtask EXCEPT ![w] = tasks[1]] /\ tasks' = Tail(tasks)
      /\ wpc' = [wpc EXCEPT ![w] = "unlock"]
      /\ UNCHANGED <<cpc, ctask, runs>>
  BY DEF Pop, WGo
<1>2. /\ 1 \in DOMAIN tasks
      /\ \A i \in DOMAIN tasks' : i + 1 \in DOMAIN tasks /\ tasks'[i] = tasks[i + 1] /\ i \in Nat \ {0}
  BY <1>1
<1>3. \A i \in DOMAIN tasks' : i + 1 # 1
  BY <1>2
<1>4. \A t : Queued(t)' => Queued(t)
  BY <1>2 DEF Queued
<1>5. \A i, j \in DOMAIN tasks' : tasks'[i] \in Tasks /\ tasks'[i] = tasks'[j] => i = j
  <2>1. SUFFICES ASSUME NEW i \in DOMAIN tasks', NEW j \in DOMAIN tasks',
                        tasks'[i] \in Tasks, tasks'[i] = tasks'[j]
                 PROVE  i = j
    OBVIOUS
  <2>2. i + 1 = j + 1
    BY <1>2, <2>1 DEF Once, InOneHand
  <2> QED
    BY <1>2, <2>2
<1>6. tasks[1] \in Tasks => \A i \in DOMAIN tasks' : tasks'[i] # tasks[1]
  BY <1>2, <1>3 DEF Once, InOneHand
<1>7. tasks[1] \in Tasks => Queued(tasks[1]) /\ runs[tasks[1]] = 0
  BY <1>2 DEF Once, NotYetRun, Queued
<1>8. InOneHand'
  <2>1. \A x, y \in Workers : wtask'[x] \in Tasks /\ wtask'[x] = wtask'[y] => x = y
    BY <1>1, <1>7 DEF Once, InOneHand
  <2>2. \A x \in Workers : wtask'[x] \in Tasks => ~Queued(wtask[x])'
    <3>1. SUFFICES ASSUME NEW x \in Workers, wtask'[x] \in Tasks
                   PROVE  ~Queued(wtask[x])'
      OBVIOUS
    <3>2. CASE x = w
      BY <1>1, <1>6, <3>1, <3>2 DEF Queued
    <3>3. CASE x # w
      <4>1. wtask'[x] = wtask[x] /\ ~Queued(wtask[x])
        BY <1>1, <3>1, <3>3 DEF Once, InOneHand
      <4> QED
        BY <1>2, <4>1 DEF Queued
    <3> QED
      BY <3>2, <3>3
  <2> QED
    BY <1>1, <1>5, <2>1, <2>2 DEF Once, InOneHand
<1>9. NotYetRun'
  <2>1. \A c \in Clients : cpc[c] \in {"locked", "push"} => Unrun(ctask[c])'
    BY <1>1, <1>2, <1>4 DEF Once, NotYetRun, Unrun, Queued
  <2> QED
    BY <1>1, <1>4, <1>7, <2>1 DEF Once, NotYetRun
<1> QED
  BY <1>1, <1>8, <1>9 DEF Once, RunOnce

\* The call: the worker alone has the task, and it had not run.
LEMMA OnceRun ==
    ASSUME Typing, Once, NEW w \in Workers, Run(w)
    PROVE  Once'
<1> USE DEF Typing, TypeOK
<1>1. /\ wtask[w] \in Tasks /\ wpc[w] = "run" /\ wpc' = [wpc EXCEPT ![w] = "valid"]
      /\ runs' = [runs EXCEPT ![wtask[w]] = @ + 1]
      /\ UNCHANGED <<tasks, wtask, cpc, ctask>>
  BY DEF Run, WGo, pool, client
<1>2. runs[wtask[w]] = 0 /\ ~Queued(wtask[w])
  BY <1>1 DEF Once, NotYetRun, InOneHand
<1>3. InOneHand'
  BY <1>1 DEF Once, InOneHand, Queued
<1>4. NotYetRun'
  <2>1. \A c \in Clients : cpc[c] \in {"locked", "push"} => Unrun(ctask[c])'
    BY <1>1 DEF Once, NotYetRun, Unrun, Queued, ClientHolds
  <2>2. \A t \in Tasks : Queued(t)' => runs'[t] = 0
    BY <1>1, <1>2 DEF Once, NotYetRun, Queued
  <2>3. \A x \in Workers :
           wpc'[x] \in {"unlock", "run"} /\ wtask[x] \in Tasks => runs'[wtask[x]] = 0
    BY <1>1 DEF Once, NotYetRun, InOneHand, WPoints
  <2> QED
    BY <1>1, <2>1, <2>2, <2>3 DEF NotYetRun
<1>5. RunOnce'
  BY <1>1, <1>2 DEF Once, RunOnce
<1> QED
  BY <1>3, <1>4, <1>5 DEF Once

LEMMA OnceWorker ==
    ASSUME Typing, Once, NEW w \in Workers, WorkerStep(w)
    PROVE  Once'
<1> USE PoolAssumption DEF Typing, TypeOK, WorkerHolds, WPoints, WGo, pool, client, ghost
<1>1. CASE Pop(w)
  BY <1>1, OncePop
<1>2. CASE Run(w)
  BY <1>2, OnceRun
<1>3. CASE Return(w)
  <2>1. /\ wtask' = [wtask EXCEPT ![w] = None] /\ wpc' = [wpc EXCEPT ![w] = "loop"]
        /\ UNCHANGED <<tasks, ctask, cpc, runs>>
    BY <1>3 DEF Return
  <2>2. \A x \in Workers : wtask'[x] \in Tasks => x # w /\ wtask'[x] = wtask[x]
    BY <2>1
  <2>3. InOneHand'
    <3>1. \A x, y \in Workers : wtask'[x] \in Tasks /\ wtask'[x] = wtask'[y] => x = y
      BY <2>2 DEF Once, InOneHand
    <3>2. \A x \in Workers : wtask'[x] \in Tasks => ~Queued(wtask[x])'
      BY <2>1, <2>2 DEF Once, InOneHand, Queued
    <3> QED
      BY <2>1, <3>1, <3>2 DEF Once, InOneHand
  <2>4. NotYetRun'
    <3>1. \A c \in Clients : cpc[c] \in {"locked", "push"} => ctask[c] \in Tasks
      BY DEF ClientHolds
    <3> QED
      BY <2>1, <2>2, <3>1 DEF Once, NotYetRun, Unrun, Queued
  <2> QED
    BY <2>1, <2>3, <2>4 DEF Once, RunOnce
<1>4. CASE Loop(w) \/ TryLock(w) \/ Size(w)
  BY <1>4, OnceQuiet DEF Loop, TryLock, Size
<1>5. CASE Unlock(w) \/ RunGarbage(w) \/ UseAfterFree(w)
  BY <1>5, OnceQuiet DEF Unlock, RunGarbage, UseAfterFree
<1>6. CASE Valid(w) \/ Begin(w) \/ Call(w)
  BY <1>6, OnceQuiet DEF Valid, Begin, Call
<1> QED
  BY <1>1, <1>2, <1>3, <1>4, <1>5, <1>6 DEF WorkerStep

\* A client that picks a fresh task picks one that is in no hand.
LEMMA OnceFresh ==
    ASSUME Typing, Once, NEW c \in Clients, NEW t \in Tasks, Fresh(t),
           ctask' = [ctask EXCEPT ![c] = t],
           UNCHANGED <<tasks, wpc, wtask, runs>>,
           \A d \in Clients \ {c} : cpc'[d] = cpc[d]
    PROVE  Once'
<1> USE DEF Typing, TypeOK
<1>1. Unrun(t)'
  BY DEF Fresh, Unrun, Queued
<1>2. \A d \in Clients : ctask'[d] = IF d = c THEN t ELSE ctask[d]
  OBVIOUS
<1>3. \A d \in Clients : ctask[d] # t
  BY DEF Fresh
<1>4. InOneHand'
  BY <1>2, <1>3 DEF Once, InOneHand, Queued
<1>5. \A d \in Clients : cpc'[d] \in {"locked", "push"} => Unrun(ctask[d])'
  <2>1. SUFFICES ASSUME NEW d \in Clients, cpc'[d] \in {"locked", "push"}
                 PROVE  Unrun(ctask[d])'
    OBVIOUS
  <2>2. CASE d = c
    BY <1>1, <1>2, <2>2
  <2>3. CASE d # c
    BY <1>2, <2>1, <2>3 DEF Once, NotYetRun, Unrun, Queued
  <2> QED
    BY <2>2, <2>3
<1>6. NotYetRun'
  BY <1>5 DEF Once, NotYetRun, Queued
<1> QED
  BY <1>4, <1>6 DEF Once, RunOnce

\* The push: the task goes from the client's hand to the end of the queue,
\* to nowhere, or to the queue with garbage behind it.
LEMMA OncePushEnd ==
    ASSUME Typing, Once, NEW c \in Clients, PushEnd(c)
    PROVE  Once'
<1> USE PoolAssumption DEF Typing, TypeOK
<1> DEFINE t == ctask[c]
<1>1. /\ cpc[c] = "push" /\ cpc' = [cpc EXCEPT ![c] = "attach"]
      /\ UNCHANGED <<wpc, wtask, ctask, runs>>
  BY DEF PushEnd, CGo, worker
<1>2. t \in Tasks /\ Unrun(t)
  BY <1>1 DEF ClientHolds, Once, NotYetRun
<1>3. tasks' \in {Append(tasks, t), tasks, Append(Append(tasks, t), Garbage)}
  BY DEF PushEnd, Pushed
<1> DEFINE n == Len(tasks)
<1>4. n \in Nat /\ DOMAIN tasks = 1 .. n
  OBVIOUS
<1>5. \A i \in DOMAIN tasks' :
         \/ i \in DOMAIN tasks /\ tasks'[i] = tasks[i]
         \/ i = n + 1 /\ tasks'[i] = t
         \/ i = n + 2 /\ tasks'[i] = Garbage
  <2>1. CASE tasks' = Append(tasks, t)
    BY <1>4, <2>1
  <2>2. CASE tasks' = tasks
    BY <2>2
  <2>3. CASE tasks' = Append(Append(tasks, t), Garbage)
    <3>1. /\ Append(tasks, t) \in Seq(Tasks \cup {Garbage})
          /\ Len(Append(tasks, t)) = n + 1
          /\ \A i \in 1 .. n : Append(tasks, t)[i] = tasks[i]
          /\ Append(tasks, t)[n + 1] = t
      BY <1>2, <1>4
    <3> HIDE DEF t, n
    <3> DEFINE q == Append(tasks, t)
    <3>2. \A i \in DOMAIN Append(q, Garbage) :
             \/ i \in 1 .. n + 1 /\ Append(q, Garbage)[i] = q[i]
             \/ i = n + 2 /\ Append(q, Garbage)[i] = Garbage
      <4> HIDE DEF q
      <4>1. q \in Seq(Tasks \cup {Garbage}) /\ Len(q) = n + 1
        BY <3>1 DEF q
      <4> QED
        BY <4>1, <1>4
    <3> QED
      BY <1>4, <2>3, <3>1, <3>2
  <2> QED
    BY <1>3, <2>1, <2>2, <2>3
<1>6. \A u \in Tasks : Queued(u)' => Queued(u) \/ u = t
  BY <1>5 DEF Queued
<1>7. \A i \in DOMAIN tasks : tasks[i] # t
  BY <1>2 DEF Unrun, Queued
<1>8. InOneHand'
  <2>1. \A i, j \in DOMAIN tasks' : tasks'[i] \in Tasks /\ tasks'[i] = tasks'[j] => i = j
    <3> HIDE DEF t, n
    <3> QED
      BY <1>2, <1>5, <1>7 DEF Once, InOneHand
  <2>2. \A w \in Workers : wtask'[w] \in Tasks => ~Queued(wtask[w])'
    BY <1>1, <1>2, <1>6 DEF Once, InOneHand, Unrun
  <2> QED
    BY <1>1, <2>1, <2>2 DEF Once, InOneHand
<1>9. NotYetRun'
  <2>1. \A d \in Clients : cpc'[d] \in {"locked", "push"} => Unrun(ctask[d])'
    <3>1. SUFFICES ASSUME NEW d \in Clients, cpc'[d] \in {"locked", "push"}
                   PROVE  Unrun(ctask[d])'
      OBVIOUS
    <3>2. d # c /\ cpc[d] \in {"locked", "push"}
      BY <1>1, <3>1
    <3>3. ctask[d] \in Tasks /\ ctask[d] # t
      BY <1>2, <3>2 DEF ClientHolds, Once, InOneHand
    <3>4. Unrun(ctask[d])
      BY <3>2 DEF Once, NotYetRun
    <3>5. ~Queued(ctask[d])'
      BY <1>1, <1>6, <3>3, <3>4 DEF Unrun
    <3> QED
      BY <1>1, <3>4, <3>5 DEF Unrun
  <2>2. \A u \in Tasks : Queued(u)' => runs'[u] = 0
    BY <1>1, <1>2, <1>6 DEF Once, NotYetRun, Unrun
  <2> QED
    BY <1>1, <2>1, <2>2 DEF Once, NotYetRun
<1> QED
  BY <1>1, <1>8, <1>9 DEF Once, RunOnce

LEMMA OnceClient ==
    ASSUME Typing, Once, NEW c \in Clients, ClientStep(c)
    PROVE  Once'
<1> USE PoolAssumption DEF Typing, TypeOK, CPoints, CGo, worker, ghost
<1>1. CASE Lock(c)
  BY <1>1, OnceFresh DEF Lock
<1>2. CASE PushBegin(c)
  <2>1. PICK t \in Tasks :
          /\ ctask' = [ctask EXCEPT ![c] = t]
          /\ IF c \in Careful THEN t = ctask[c] /\ CGo(c, "locked", "push")
                              ELSE Fresh(t) /\ CGo(c, "idle", "push")
    BY <1>2 DEF PushBegin
  <2>2. UNCHANGED <<tasks, wpc, wtask, runs>>
    BY <1>2 DEF PushBegin, pool
  <2>3. CASE c \in Careful
    <3>1. UNCHANGED ctask
      BY <2>1, <2>3
    <3> QED
      BY <2>1, <2>2, <2>3, <3>1, OnceQuiet
  <2>4. CASE c \notin Careful
    BY <2>1, <2>2, <2>4, OnceFresh
  <2> QED
    BY <2>3, <2>4
<1>3. CASE PushEnd(c)
  BY <1>3, OncePushEnd
<1>4. CASE Leave(c)
  BY <1>4 DEF Leave, Once, InOneHand, NotYetRun, Unrun, Queued, RunOnce
<1>5. CASE OnValid(c)
  BY <1>5, OnceQuiet DEF OnValid, pool, client
<1>6. CASE Drop(c) \/ Destroy(c)
  BY <1>6, OnceQuiet DEF Drop, Destroy, Release
<1>7. CASE DtorStop(c) \/ DtorLock(c) \/ DtorUnlock(c)
  BY <1>7, OnceQuiet DEF DtorStop, DtorLock, DtorUnlock
<1>8. CASE DtorFree(c)
  <2>1. \A t : ~Queued(t)'
    BY <1>8 DEF DtorFree, Queued
  <2> QED
    BY <1>8, <2>1 DEF DtorFree, Once, InOneHand, NotYetRun, Unrun, RunOnce
<1>9. CASE DropLocked(c)
  BY <1>9 DEF DropLocked, Once, InOneHand, NotYetRun, Unrun, Queued, RunOnce
<1> QED
  BY <1>1, <1>2, <1>3, <1>4, <1>5, <1>6, <1>7, <1>8, <1>9 DEF ClientStep, DtorStep

LEMMA OnceStep == Typing /\ Once /\ [Next]_vars => Once'
<1> SUFFICES ASSUME Typing, Once, [Next]_vars PROVE Once'
  OBVIOUS
<1>1. CASE UNCHANGED vars \/ Ended
  BY <1>1, OnceQuiet DEF Ended, vars, pool, worker, client, ghost
<1> QED
  BY <1>1, OnceWorker, OnceClient DEF Next

\* However the pushes race (Task.h:77, :90), no submitted function runs twice.
THEOREM EachTaskRunsOnce == Spec => []RunOnce
<1> DEFINE Inv == Typing /\ Once
<1>1. Init => Inv
  BY TypingInit, OnceInit
<1>2. Inv /\ [Next]_vars => Inv'
  BY TypingStep, OnceStep
<1>3. Inv => RunOnce
  BY DEF Once
<1> QED
  BY <1>1, <1>2, <1>3, PTL DEF Spec

-----------------------------------------------------------------------------
(* Careful clients.  A client at work holds the pool, so the destructor runs   *)
(* alone; and it attaches its callbacks while the task is still in the queue,  *)
(* because a worker needs the mutex to take it.                                *)

Holding == \A c \in Clients :
    /\ cpc[c] \in {"idle", "locked", "push", "attach"} => c \in refs
    /\ cpc[c] \in {"dtor", "dtorLock", "dtorUnlock", "dtorFree"} => refs = {}
    /\ cpc[c] = "attach" => Queued(ctask[c])

\* How far a worker is with the task it holds ...
Progress(w) == LET t == wtask[w] IN
    /\ wpc[w] \in {"unlock", "run", "ub"} => runs[t] = 0
    /\ wpc[w] \in {"valid", "begin", "calls"} => runs[t] > 0 /\ value[t]
    /\ wpc[w] \in {"valid", "begin"} => fired[t] = 0
    /\ wpc[w] \in {"begin", "calls"} => state[t] = "Valid"
    /\ wpc[w] = "calls" => fired[t] = wnext[w] /\ wnext[w] <= wend[w] /\ wend[w] = calls[t]

\* ... and that a finished task has run every callback.
Delivering ==
    /\ \A t \in Tasks : runs[t] = 0 => fired[t] = 0
    /\ \A w \in Workers : wtask[w] \in Tasks => Progress(w)
    /\ \A t \in Tasks : Finished(t) => value[t] /\ state[t] = "Valid" /\ fired[t] = calls[t]

CarefulInv == Typing /\ Owners /\ QueueRaceFree /\ Once /\ Holding /\ Delivering

LEMMA CarefulInit == Init => CarefulInv
<1> SUFFICES ASSUME Init PROVE CarefulInv
  OBVIOUS
<1>1. QueueRaceFree /\ Holding
  BY DEF Init, QueueRaceFree, Holding
<1>2. Delivering
  BY PoolAssumption DEF Init, Delivering, Finished
<1> QED
  BY <1>1, <1>2, TypingInit, OwnersInit, OnceInit DEF CarefulInv

LEMMA HoldingWorker ==
    ASSUME Careful = Clients, CarefulInv, NEW w \in Workers, WorkerStep(w)
    PROVE  Holding'
<1> USE DEF CarefulInv
<1>1. CASE Pop(w)
  <2>1. \A c \in Clients : cpc[c] # "attach"
    BY <1>1, PoolAssumption DEF Pop, WGo, Owners
  <2> QED
    BY <1>1, <2>1 DEF Pop, Holding
<1>2. CASE UNCHANGED <<refs, tasks, cpc, ctask>>
  BY <1>2 DEF Holding, Queued
<1> QED
  BY <1>1, <1>2 DEF WorkerStep, Loop, TryLock, Size, Unlock, Run, RunGarbage, Valid,
     Begin, Call, Return, UseAfterFree, pool, client

LEMMA HoldingClient ==
    ASSUME Careful = Clients, CarefulInv, NEW c \in Clients, ClientStep(c)
    PROVE  Holding'
<1> USE PoolAssumption DEF CarefulInv, Typing, TypeOK, CPoints, CGo, Holding
<1>1. CASE Lock(c)
  BY <1>1 DEF Lock, Queued
<1>2. CASE PushBegin(c)
  BY <1>2 DEF PushBegin, pool, Queued
<1>3. CASE PushEnd(c)
  <2>1. tasks' = Append(tasks, ctask[c]) /\ cpc' = [cpc EXCEPT ![c] = "attach"]
        /\ UNCHANGED <<refs, ctask>> /\ cpc[c] = "push"
    BY <1>3 DEF PushEnd, Pushed, QueueRaceFree
  <2>2. /\ \A i \in DOMAIN tasks : i \in DOMAIN tasks' /\ tasks'[i] = tasks[i]
        /\ Len(tasks) + 1 \in DOMAIN tasks' /\ tasks'[Len(tasks) + 1] = ctask[c]
    BY <2>1 DEF ClientHolds
  <2>3. Queued(ctask[c])' /\ \A d \in Clients : Queued(ctask[d]) => Queued(ctask[d])'
    BY <2>1, <2>2 DEF Queued
  <2> QED
    BY <2>1, <2>3
<1>4. CASE OnValid(c)
  BY <1>4 DEF OnValid, pool, client, Queued
<1>5. CASE Leave(c)
  BY <1>5 DEF Leave, Queued
<1>6. CASE Drop(c)
  BY <1>6 DEF Drop, Release, Queued
<1>7. CASE Destroy(c)
  BY <1>7 DEF Destroy, Release, Queued
<1>8. CASE DtorStop(c) \/ DtorLock(c) \/ DtorUnlock(c)
  <2>1. /\ UNCHANGED <<refs, tasks, ctask>> /\ cpc[c] \in {"dtor", "dtorLock", "dtorUnlock"}
        /\ \E to \in {"dtorLock", "dtorUnlock", "dtorFree"} : cpc' = [cpc EXCEPT ![c] = to]
    BY <1>8 DEF DtorStop, DtorLock, DtorUnlock
  <2> QED
    BY <2>1 DEF Queued
<1>9. CASE DtorFree(c)
  BY <1>9 DEF DtorFree
<1>10. CASE DropLocked(c)
  BY <1>10 DEF DropLocked, Queued
<1> QED
  BY <1>1, <1>2, <1>3, <1>4, <1>5, <1>6, <1>7, <1>8, <1>9, <1>10 DEF ClientStep, DtorStep

LEMMA DeliveringWorker ==
    ASSUME Careful = Clients, CarefulInv, NEW w \in Workers, WorkerStep(w)
    PROVE  Delivering'
<1> USE PoolAssumption DEF CarefulInv, Typing, TypeOK, WorkerHolds, WPoints, WGo,
        pool, future, client, ghost
<1>1. CASE Loop(w) \/ TryLock(w) \/ Size(w) \/ RunGarbage(w)
  <2>1. /\ UNCHANGED <<state, value, calls, wtask, wnext, wend, runs, fired>>
        /\ \A x \in Workers \ {w} : wpc'[x] = wpc[x]
        /\ wtask[w] \notin Tasks
    BY <1>1 DEF Loop, TryLock, Size, RunGarbage
  <2> QED
    BY <2>1 DEF Delivering, Progress, Finished, Held
<1>2. CASE Unlock(w) \/ UseAfterFree(w)
  <2>1. /\ UNCHANGED <<state, value, calls, wtask, wnext, wend, runs, fired>>
        /\ \A x \in Workers \ {w} : wpc'[x] = wpc[x]
        /\ wtask[w] \in Tasks => wpc[w] = "unlock" /\ wpc'[w] \in {"run", "ub"}
    BY <1>2 DEF Unlock, UseAfterFree
  <2> QED
    BY <2>1 DEF Delivering, Progress, Finished, Held
<1>3. CASE Pop(w)
  <2>1. /\ UNCHANGED <<state, value, calls, wnext, wend, runs, fired>>
        /\ wpc' = [wpc EXCEPT ![w] = "unlock"] /\ wtask' = [wtask EXCEPT ![w] = tasks[1]]
        /\ wtask[w] = None /\ tasks # <<>>
    BY <1>3 DEF Pop
  <2>2. tasks[1] \in Tasks => runs[tasks[1]] = 0
    BY <2>1 DEF Once, NotYetRun, Queued
  <2>3. \A t \in Tasks : Finished(t)' => Finished(t)
    BY <2>1 DEF Finished, Held
  <2> QED
    BY <2>1, <2>2, <2>3 DEF Delivering, Progress
<1>4. CASE Run(w)
  <2> DEFINE t == wtask[w]
  <2>1. /\ t \in Tasks /\ wpc[w] = "run" /\ wpc' = [wpc EXCEPT ![w] = "valid"]
        /\ runs' = [runs EXCEPT ![t] = @ + 1] /\ value' = [value EXCEPT ![t] = TRUE]
        /\ UNCHANGED <<state, calls, wtask, wnext, wend, fired>>
    BY <1>4 DEF Run
  <2>2. \A x \in Workers \ {w} : wtask[x] # t
    BY <2>1 DEF Once, InOneHand
  <2>3. runs[t] = 0 /\ fired[t] = 0
    BY <2>1 DEF Delivering, Progress
  <2>4. \A u \in Tasks : Finished(u)' => u # t /\ Finished(u)
    BY <2>1 DEF Finished, Held
  <2> QED
    BY <2>1, <2>2, <2>3, <2>4 DEF Delivering, Progress
<1>5. CASE Valid(w)
  BY <1>5 DEF Valid, Delivering, Progress, Finished, Held, Once, InOneHand
<1>6. CASE Begin(w)
  BY <1>6 DEF Begin, Delivering, Progress, Finished, Held, Once, InOneHand
<1>7. CASE Call(w)
  <2> DEFINE t == wtask[w]
  <2>1. /\ t \in Tasks /\ wpc[w] = "calls" /\ wnext[w] < wend[w]
        /\ fired' = [fired EXCEPT ![t] = @ + 1] /\ wnext' = [wnext EXCEPT ![w] = @ + 1]
        /\ UNCHANGED <<state, value, calls, wpc, wtask, wend, runs>>
    BY <1>7 DEF Call
  <2>2. \A x \in Workers \ {w} : wtask[x] # t
    BY <2>1 DEF Once, InOneHand
  <2>3. ~Finished(t) /\ runs[t] > 0 /\ fired[t] = wnext[w]
    BY <2>1 DEF Finished, Held, Delivering, Progress
  <2>4. \A u \in Tasks : Finished(u)' = Finished(u)
    BY <2>1 DEF Finished, Held
  <2>5. Progress(w)'
    BY <2>1, <2>3 DEF Delivering, Progress
  <2>6. \A x \in Workers \ {w} : wtask[x] \in Tasks => Progress(x)'
    BY <2>1, <2>2 DEF Delivering, Progress
  <2> QED
    BY <2>1, <2>3, <2>4, <2>5, <2>6 DEF Delivering
<1>8. CASE Return(w)
  <2> DEFINE t == wtask[w]
  <2>1. /\ t \in Tasks /\ wpc[w] = "calls" /\ wnext[w] = wend[w]
        /\ wpc' = [wpc EXCEPT ![w] = "loop"] /\ wtask' = [wtask EXCEPT ![w] = None]
        /\ UNCHANGED <<state, value, calls, wnext, wend, runs, fired>>
    BY <1>8 DEF Return
  <2>2. value[t] /\ state[t] = "Valid" /\ fired[t] = calls[t]
    BY <2>1 DEF Delivering, Progress
  <2>3. \A u \in Tasks : Finished(u)' => u = t \/ Finished(u)
    BY <2>1 DEF Finished, Held
  <2> QED
    BY <2>1, <2>2, <2>3 DEF Delivering, Progress
<1> QED
  BY <1>1, <1>2, <1>3, <1>4, <1>5, <1>6, <1>7, <1>8 DEF WorkerStep

\* No worker is inside the range-for of a future that still gets callbacks.
LEMMA AttachIsEarly ==
    ASSUME CarefulInv, NEW c \in Clients, OnValid(c)
    PROVE  /\ ctask[c] \in Tasks /\ Queued(ctask[c]) /\ runs[ctask[c]] = 0
           /\ \A w \in Workers : wtask[w] # ctask[c]
           /\ UNCHANGED wpc
<1> USE DEF CarefulInv, Typing, TypeOK
<1>1. ctask[c] \in Tasks /\ Queued(ctask[c])
  BY DEF OnValid, Holding, ClientHolds
<1>2. runs[ctask[c]] = 0 /\ \A w \in Workers : wtask[w] # ctask[c]
  BY <1>1 DEF Once, NotYetRun, InOneHand
<1>3. UNCHANGED wpc
  BY <1>2 DEF OnValid
<1> QED
  BY <1>1, <1>2, <1>3

LEMMA DeliveringClient ==
    ASSUME Careful = Clients, CarefulInv, NEW c \in Clients, ClientStep(c)
    PROVE  Delivering'
<1> USE DEF CarefulInv, Typing, TypeOK
<1>1. CASE OnValid(c)
  <2> DEFINE t == ctask[c]
  <2>1. /\ t \in Tasks /\ runs[t] = 0 /\ \A w \in Workers : wtask[w] # t
        /\ UNCHANGED wpc
    BY <1>1, AttachIsEarly
  <2>2. /\ UNCHANGED <<state, value, wtask, wnext, wend, runs, fired>>
        /\ \A u \in Tasks \ {t} : calls'[u] = calls[u]
    BY <1>1 DEF OnValid, ghost
  <2>3. \A u \in Tasks : Finished(u)' => Finished(u) /\ u # t
    BY <2>1, <2>2 DEF Finished, Held
  <2>4. \A w \in Workers : wtask[w] \in Tasks => Progress(w)'
    BY <2>1, <2>2 DEF Delivering, Progress
  <2> QED
    BY <2>2, <2>3, <2>4 DEF Delivering
<1>2. CASE UNCHANGED <<future, worker, runs, fired>>
  BY <1>2 DEF Delivering, Progress, Finished, Held, future, worker
<1> QED
  BY <1>1, <1>2 DEF ClientStep, DtorStep, Lock, PushBegin, PushEnd, Leave, Drop,
     DropLocked, Destroy, Release, DtorStop, DtorLock, DtorUnlock, DtorFree, ghost

LEMMA CarefulStep ==
    ASSUME Careful = Clients, CarefulInv, [Next]_vars
    PROVE  CarefulInv'
<1>1. Typing' /\ Owners' /\ Once'
  BY TypingStep, OwnersStep, OnceStep DEF CarefulInv
<1>2. QueueRaceFree'
  BY RaceFreeStep DEF CarefulInv
<1>3. Holding' /\ Delivering'
  <2>1. CASE UNCHANGED vars \/ Ended
    BY <2>1 DEF CarefulInv, Holding, Queued, Delivering, Progress, Finished, Held, Ended,
       vars, pool, future, worker, client, ghost
  <2> QED
    BY <2>1, HoldingWorker, HoldingClient, DeliveringWorker, DeliveringClient DEF Next
<1> QED
  BY <1>1, <1>2, <1>3 DEF CarefulInv

\* A callback finds a valid future, none runs too often, and a finished task has
\* run all of those that careful clients attached (Future.h:20-38, Task.h:38-45).
THEOREM CallbacksOfCarefulClients ==
    Careful = Clients => (Spec => []CallbacksDelivered)
<1> SUFFICES ASSUME Careful = Clients PROVE Spec => []CallbacksDelivered
  OBVIOUS
<1>1. CarefulInv => CallbacksDelivered
  <2> SUFFICES ASSUME CarefulInv, NEW t \in Tasks
      PROVE  /\ fired[t] > 0 => state[t] = "Valid" /\ value[t] /\ fired[t] <= calls[t]
             /\ Finished(t) => fired[t] = calls[t]
    BY DEF CallbacksDelivered
  <2> USE DEF CarefulInv, Typing, TypeOK, Delivering
  <2>1. CASE Finished(t)
    BY <2>1
  <2>2. CASE ~Finished(t) /\ fired[t] > 0
    <3>1. PICK w \in Workers : wtask[w] = t
      BY <2>2 DEF Finished, Held
    <3>2. t # None /\ runs[t] # 0 /\ wpc[w] \in WPoints /\ Progress(w)
      BY <2>2, <3>1, PoolAssumption
    <3>4. wpc[w] = "calls"
      BY <2>2, <3>1, <3>2 DEF Progress, WPoints, WorkerHolds
    <3> QED
      BY <2>2, <3>1, <3>4 DEF Progress
  <2>3. CASE ~Finished(t) /\ ~(fired[t] > 0)
    BY <2>3
  <2> QED
    BY <2>1, <2>2, <2>3
<1>2. CarefulInv /\ [Next]_vars => CarefulInv'
  BY CarefulStep
<1> QED
  BY <1>1, <1>2, CarefulInit, PTL DEF Spec

-----------------------------------------------------------------------------
(* Refinement: what careful clients see is the service.  A push submits, a pop *)
(* starts, the return of the range-for finishes; the last reference closes.    *)

LEMMA ServiceInit == Init => Service!Init
<1> SUFFICES ASSUME Init PROVE Service!Init
  OBVIOUS
<1>1. {wtask[w] : w \in Workers} \ {None} = {} /\ {t \in Tasks : Finished(t)} = {}
  BY DEF Init, Finished
<1>2. tasks = <<>> /\ refs # {}
      /\ calls = [t \in Tasks |-> 0] /\ fired = [t \in Tasks |-> 0]
  BY DEF Init
<1> QED
  BY <1>1, <1>2 DEF Service!Init

LEMMA ServiceWorker ==
    ASSUME Careful = Clients, CarefulInv, NEW w \in Workers, WorkerStep(w)
    PROVE  [Service!Next]_(Service!svars)
<1> USE PoolAssumption DEF CarefulInv, Typing, TypeOK, WorkerHolds, WPoints, WGo,
        pool, future, client, ghost
<1> DEFINE running == {wtask[x] : x \in Workers} \ {None}
           done == {t \in Tasks : Finished(t)}
<1>1. CASE Pop(w)
  <2>1. /\ tasks # <<>> /\ tasks' = Tail(tasks) /\ wtask[w] = None
        /\ wtask' = [wtask EXCEPT ![w] = Head(tasks)]
        /\ UNCHANGED <<calls, fired, refs, runs>>
    BY <1>1 DEF Pop
  <2>2. Head(tasks) \in Tasks \cup {Garbage} /\ Head(tasks) = tasks[1] /\ 1 \in DOMAIN tasks
    BY <2>1
  <2>3. running' = running \cup {Head(tasks)}
    BY <2>1, <2>2
  <2>4. \A t \in Tasks : Finished(t)' = Finished(t)
    <3>1. Head(tasks) \in Tasks => runs[Head(tasks)] = 0
      BY <2>2 DEF Once, NotYetRun, Queued
    <3> QED
      BY <2>1, <2>2, <3>1 DEF Finished, Held
  <2>5. done' = done
    BY <2>4
  <2>6. Service!Start
    BY <2>1, <2>3, <2>5 DEF Service!Start
  <2> QED
    BY <2>6 DEF Service!Next
<1>2. CASE Call(w)
  <2> DEFINE t == wtask[w]
  <2>1. /\ t \in Tasks /\ fired' = [fired EXCEPT ![t] = @ + 1]
        /\ UNCHANGED <<tasks, wtask, runs, calls, refs>>
        /\ wpc[w] = "calls" /\ wnext[w] < wend[w]
    BY <1>2 DEF Call
  <2>2. t \in running /\ fired[t] < calls[t]
    BY <2>1 DEF Delivering, Progress
  <2>3. running' = running /\ done' = done
    BY <2>1 DEF Finished, Held
  <2>4. Service!Deliver(t)
    BY <2>1, <2>2, <2>3 DEF Service!Deliver
  <2> QED
    BY <2>1, <2>4 DEF Service!Next
<1>3. CASE Return(w)
  <2>0. PICK t \in Tasks : t = wtask[w]
    BY <1>3 DEF Return
  <2>1. /\ t = wtask[w] /\ wpc[w] = "calls" /\ wnext[w] = wend[w]
        /\ wtask' = [wtask EXCEPT ![w] = None]
        /\ UNCHANGED <<tasks, runs, calls, fired, refs>>
    BY <1>3, <2>0 DEF Return
  <2>2. t \in running /\ fired[t] = calls[t] /\ runs[t] > 0
    BY <2>1 DEF Delivering, Progress
  <2>3. \A x \in Workers \ {w} : wtask[x] # t
    BY <2>1 DEF Once, InOneHand
  <2>4. running' = running \ {t}
    BY <2>1, <2>3
  <2>5. done' = done \cup {t}
    <3>1. \A u \in Tasks : Finished(u)' <=> Finished(u) \/ u = t
      BY <2>1, <2>2, <2>3 DEF Finished, Held
    <3> QED
      BY <2>1, <3>1
  <2>6. Service!Finish(t)
    BY <2>1, <2>2, <2>4, <2>5 DEF Service!Finish
  <2> QED
    BY <2>6 DEF Service!Next
<1>4. CASE Run(w)
  <2>1. /\ wtask[w] \in Tasks /\ UNCHANGED <<tasks, wtask, calls, fired, refs>>
        /\ \A t \in Tasks : t # wtask[w] => runs'[t] = runs[t]
    BY <1>4 DEF Run
  <2>2. \A t \in Tasks : Finished(t)' = Finished(t)
    BY <2>1 DEF Finished, Held
  <2> QED
    BY <2>1, <2>2 DEF Service!svars
<1>5. CASE UNCHANGED <<tasks, wtask, runs, calls, fired, refs>>
  BY <1>5 DEF Service!svars, Finished, Held
<1> QED
  BY <1>1, <1>2, <1>3, <1>4, <1>5 DEF WorkerStep, Loop, TryLock, Size, Unlock, RunGarbage,
     Valid, Begin, UseAfterFree

LEMMA ServiceClient ==
    ASSUME Careful = Clients, CarefulInv, NEW c \in Clients, ClientStep(c)
    PROVE  [Service!Next]_(Service!svars)
<1> USE PoolAssumption DEF CarefulInv, Typing, TypeOK, CGo, worker, future, ghost
<1> DEFINE running == {wtask[x] : x \in Workers} \ {None}
           done == {t \in Tasks : Finished(t)}
<1>1. CASE PushEnd(c)
  <2> DEFINE t == ctask[c]
  <2>1. /\ tasks' = Append(tasks, t) /\ cpc[c] = "push" /\ t \in Tasks
        /\ UNCHANGED <<wtask, runs, calls, fired, refs>>
    BY <1>1 DEF PushEnd, Pushed, QueueRaceFree, ClientHolds
  <2>2. refs # {}
    BY <2>1 DEF Holding
  <2>3. Unrun(t)
    BY <2>1 DEF Once, NotYetRun
  <2>4. t \notin Service!Queued /\ t \notin running /\ t \notin done
    BY <2>1, <2>3 DEF Unrun, Queued, Service!Queued, Finished
  <2>5. running' = running /\ done' = done
    BY <2>1 DEF Finished, Held
  <2>6. Service!Submit(t)
    BY <2>1, <2>2, <2>4, <2>5 DEF Service!Submit
  <2> QED
    BY <2>1, <2>6 DEF Service!Next
<1>2. CASE OnValid(c)
  <2> DEFINE t == ctask[c]
  <2>1. t \in Tasks /\ Queued(t)
    BY <1>2, AttachIsEarly
  <2>2. /\ calls[t] < MaxCalls /\ calls' = [calls EXCEPT ![t] = @ + 1]
        /\ UNCHANGED <<tasks, wtask, runs, fired, refs>>
    BY <1>2 DEF OnValid, pool
  <2>3. running' = running /\ done' = done
    BY <2>2 DEF Finished, Held
  <2>4. t \in Service!Queued
    BY <2>1 DEF Queued, Service!Queued
  <2>5. Service!Attach(t)
    BY <2>2, <2>3, <2>4 DEF Service!Attach
  <2> QED
    BY <2>1, <2>5 DEF Service!Next
<1>3. CASE Drop(c) \/ Destroy(c) \/ DropLocked(c)
  <2>1. /\ UNCHANGED <<tasks, wtask, runs, calls, fired>>
        /\ refs # {}
    BY <1>3 DEF Drop, Destroy, DropLocked, Release
  <2>2. running' = running /\ done' = done
    BY <2>1 DEF Finished, Held
  <2>3. CASE refs' = {}
    <3>1. Service!Close
      BY <2>1, <2>2, <2>3 DEF Service!Close
    <3> QED
      BY <3>1 DEF Service!Next
  <2>4. CASE refs' # {}
    BY <2>1, <2>2, <2>4 DEF Service!svars
  <2> QED
    BY <2>3, <2>4
<1>4. CASE DtorFree(c)
  <2>1. /\ tasks' = <<>> /\ refs = {} /\ UNCHANGED <<wtask, runs, calls, fired, refs>>
    BY <1>4 DEF DtorFree, Holding
  <2>2. running' = running /\ done' = done
    BY <2>1 DEF Finished, Held
  <2>3. Service!Abandon
    BY <2>1, <2>2 DEF Service!Abandon
  <2> QED
    BY <2>3 DEF Service!Next
<1>5. CASE UNCHANGED <<tasks, wtask, runs, calls, fired, refs>>
  BY <1>5 DEF Service!svars, Finished, Held
<1> QED
  BY <1>1, <1>2, <1>3, <1>4, <1>5 DEF ClientStep, DtorStep, Lock, PushBegin, Leave,
     DtorStop, DtorLock, DtorUnlock, pool

\* The pool, its futures and its destructor implement TaskService for careful
\* clients, whatever the number of workers and clients (Task.h, Future.h).
THEOREM PoolImplementsService == Careful = Clients => (Spec => ImplementsService)
<1> SUFFICES ASSUME Careful = Clients PROVE Spec => ImplementsService
  OBVIOUS
<1>1. CarefulInv /\ [Next]_vars => [Service!Next]_(Service!svars)
  <2>1. UNCHANGED vars \/ Ended => UNCHANGED Service!svars
    BY DEF Service!svars, Finished, Held, Ended, vars, pool, future, worker, ghost
  <2> QED
    BY <2>1, ServiceWorker, ServiceClient DEF Next
<1>2. CarefulInv /\ [Next]_vars => CarefulInv'
  BY CarefulStep
<1> QED
  BY <1>1, <1>2, CarefulInit, ServiceInit, PTL DEF Spec, ImplementsService, Service!Spec
=============================================================================
