------------------------------ MODULE TaskPool ------------------------------
(***************************************************************************)
(* The thread pool Study/Task (Task.h) with the futures it hands out       *)
(* (Future.h).  Detached worker threads poll a std::queue under a mutex    *)
(* they only try to take; AddTask itself takes no lock.  A client in       *)
(* Careful brackets AddTask and OnValid with Lock / Unlock, as the program *)
(* of IsInRangeTest.cpp does; the others just call AddTask.                *)
(*                                                                         *)
(* Each action ends at an access another thread can observe.  AddTask's    *)
(* push is an interval (PushBegin .. PushEnd): a queue access of another   *)
(* thread inside it is a data race, whose outcome is chosen freely among   *)
(* those of a deque that keeps its size in a plain member.                 *)
(***************************************************************************)
EXTENDS Naturals, Sequences, FiniteSets

CONSTANTS Workers,    \* the threads of the pool (hardware_concurrency)
          Clients,    \* the threads that hold a shared_ptr to the pool
          Careful,    \* those that take the pool's lock around AddTask
          Tasks,      \* the tasks that may be submitted, each one once
          MaxCalls,   \* bound: callbacks attached to one future
          None, Garbage

ASSUME PoolAssumption ==
    /\ Careful \subseteq Clients
    /\ Workers \cap Clients = {}
    /\ MaxCalls \in Nat
    /\ None \notin Workers \cup Clients \cup Tasks
    /\ Garbage \notin Tasks \cup {None}

VARIABLES
    bRun, lock, tasks,   \* Task::_bRun, _lock (its owner), _tasks
    refs,                \* who holds the shared_ptr; None is Task::_pinstance
    freed,               \* ~Task has returned and the storage is gone
    state, value,        \* Future::_state; whether Set has stored a value
    calls,               \* number of callbacks in Future::_calls
    wpc, wtask,          \* a worker's control point and its copy of front()
    wnext, wend,         \* the iterators of the range-for in Valid
    cpc, ctask,          \* a client's control point and its current future
    torn,                \* another thread touched the queue during its push
    runs, fired,         \* history: runs of a task, of callbacks of its future
    lost, late           \* history: pushes lost; takes after _bRun was cleared

pool   == <<bRun, lock, tasks, refs, freed>>
future == <<state, value, calls>>
worker == <<wpc, wtask, wnext, wend>>
client == <<cpc, ctask, torn>>
ghost  == <<runs, fired, lost, late>>
vars   == <<pool, future, worker, client, ghost>>

WPoints == {"loop", "try", "size", "pop", "unlock", "run", "valid", "begin",
            "calls", "exit", "ub"}
CPoints == {"idle", "locked", "push", "attach", "gone",
            "dtor", "dtorLock", "dtorUnlock", "dtorFree"}

Init == /\ bRun = TRUE /\ lock = None /\ tasks = <<>>
        /\ refs = Clients \cup {None} /\ freed = FALSE
        /\ state = [t \in Tasks |-> "Unkown"]
        /\ value = [t \in Tasks |-> FALSE]
        /\ calls = [t \in Tasks |-> 0]
        /\ wpc = [w \in Workers |-> "loop"]
        /\ wtask = [w \in Workers |-> None]
        /\ wnext = [w \in Workers |-> 0]
        /\ wend = [w \in Workers |-> 0]
        /\ cpc = [c \in Clients |-> "idle"]
        /\ ctask = [c \in Clients |-> None]
        /\ torn = [c \in Clients |-> FALSE]
        /\ runs = [t \in Tasks |-> 0]
        /\ fired = [t \in Tasks |-> 0]
        /\ lost = {}
        /\ late = [w \in Workers |-> 0]

WGo(w, from, to) == wpc[w] = from /\ wpc' = [wpc EXCEPT ![w] = to]
CGo(c, from, to) == cpc[c] = from /\ cpc' = [cpc EXCEPT ![c] = to]

\* Every client that is inside a push has been overlapped by this access.
TearPushes == torn' = [c \in Clients |-> torn[c] \/ cpc[c] = "push"]

-----------------------------------------------------------------------------
(* The workers. *)

\* Mutant: while (true).
LoopForever(w) == /\ ~freed
                  /\ WGo(w, "loop", "try")
                  /\ UNCHANGED <<pool, future, wtask, wnext, wend, client, ghost>>

Loop(w) == /\ IF bRun THEN ~freed /\ WGo(w, "loop", "try") ELSE WGo(w, "loop", "exit")
           /\ UNCHANGED <<pool, future, wtask, wnext, wend, client, ghost>>

TryLock(w) == /\ ~freed
              /\ IF lock = None
                 THEN lock' = w /\ WGo(w, "try", "size")
                 ELSE UNCHANGED lock /\ WGo(w, "try", "loop")
              /\ UNCHANGED <<bRun, tasks, refs, freed, future, wtask, wnext, wend,
                             client, ghost>>

\* Mutant: no Unlock when the queue is empty.
SizeKeepsLock(w) == /\ ~freed
                    /\ WGo(w, "size", IF tasks = <<>> THEN "loop" ELSE "pop")
                    /\ UNCHANGED <<pool, future, wtask, wnext, wend, client, ghost>>

Size(w) == /\ ~freed
           /\ WGo(w, "size", IF tasks = <<>> THEN "unlock" ELSE "pop")
           /\ UNCHANGED <<pool, future, wtask, wnext, wend, client, ghost>>

\* Mutant: front() without pop().
PopKeepsFront(w) == /\ ~freed
                    /\ tasks # <<>>
                    /\ WGo(w, "pop", "unlock")
                    /\ wtask' = [wtask EXCEPT ![w] = Head(tasks)]
                    /\ UNCHANGED <<pool, future, wnext, wend, client, ghost>>

\* Mutant: a stack instead of a queue.
PopBack(w) == /\ ~freed
              /\ tasks # <<>>
              /\ WGo(w, "pop", "unlock")
              /\ wtask' = [wtask EXCEPT ![w] = tasks[Len(tasks)]]
              /\ tasks' = SubSeq(tasks, 1, Len(tasks) - 1)
              /\ UNCHANGED <<bRun, lock, refs, freed, future, wnext, wend, client, ghost>>

Pop(w) == /\ ~freed
          /\ tasks # <<>>
          /\ WGo(w, "pop", "unlock")
          /\ wtask' = [wtask EXCEPT ![w] = Head(tasks)]
          /\ tasks' = Tail(tasks)
          /\ TearPushes
          /\ late' = [late EXCEPT ![w] = IF bRun THEN @ ELSE @ + 1]
          /\ UNCHANGED <<bRun, lock, refs, freed, future, wnext, wend, cpc, ctask,
                         runs, fired, lost>>

\* Mutant: no Unlock on the path that found a task.
UnlockForgotten(w) == /\ ~freed
                      /\ lock' = IF wtask[w] = None THEN None ELSE lock
                      /\ WGo(w, "unlock", IF wtask[w] = None THEN "loop" ELSE "run")
                      /\ UNCHANGED <<bRun, tasks, refs, freed, future, wtask, wnext, wend,
                                     client, ghost>>

Unlock(w) == /\ ~freed
             /\ lock' = None
             /\ WGo(w, "unlock", IF wtask[w] = None THEN "loop" ELSE "run")
             /\ UNCHANGED <<bRun, tasks, refs, freed, future, wtask, wnext, wend,
                            client, ghost>>

\* t(): the submitted function runs and its result is stored in the future.
Run(w) == /\ wtask[w] \in Tasks
          /\ WGo(w, "run", "valid")
          /\ runs' = [runs EXCEPT ![wtask[w]] = @ + 1]
          /\ value' = [value EXCEPT ![wtask[w]] = TRUE]
          /\ UNCHANGED <<pool, state, calls, wtask, wnext, wend, client, fired,
                         lost, late>>

\* t() on a slot that no push ever filled.
RunGarbage(w) == /\ wtask[w] = Garbage
                 /\ WGo(w, "run", "ub")
                 /\ UNCHANGED <<pool, future, wtask, wnext, wend, client, ghost>>

Valid(w) == /\ WGo(w, "valid", "begin")
            /\ state' = [state EXCEPT ![wtask[w]] = "Valid"]
            /\ UNCHANGED <<pool, value, calls, wtask, wnext, wend, client, ghost>>

\* Mutants: an index loop that misses the last callback, or passes the end.
BeginShort(w) == /\ WGo(w, "begin", "calls")
                 /\ wnext' = [wnext EXCEPT ![w] = IF calls[wtask[w]] = 0 THEN 0 ELSE 1]
                 /\ wend' = [wend EXCEPT ![w] = calls[wtask[w]]]
                 /\ UNCHANGED <<pool, future, wtask, client, ghost>>

BeginLong(w) == /\ WGo(w, "begin", "calls")
                /\ wnext' = [wnext EXCEPT ![w] = 0]
                /\ wend' = [wend EXCEPT ![w] = calls[wtask[w]] + 1]
                /\ UNCHANGED <<pool, future, wtask, client, ghost>>

\* The range-for reads begin() and end() once.
Begin(w) == /\ WGo(w, "begin", "calls")
            /\ wnext' = [wnext EXCEPT ![w] = 0]
            /\ wend' = [wend EXCEPT ![w] = calls[wtask[w]]]
            /\ UNCHANGED <<pool, future, wtask, client, ghost>>

Call(w) == /\ wpc[w] = "calls" /\ wnext[w] < wend[w]
           /\ fired' = [fired EXCEPT ![wtask[w]] = @ + 1]
           /\ wnext' = [wnext EXCEPT ![w] = @ + 1]
           /\ UNCHANGED <<pool, future, wpc, wtask, wend, client, runs, lost, late>>

Return(w) == /\ wnext[w] = wend[w]
             /\ WGo(w, "calls", "loop")
             /\ wtask' = [wtask EXCEPT ![w] = None]
             /\ UNCHANGED <<pool, future, wnext, wend, client, ghost>>

\* The lambda captured the pool by reference: after ~Task these are accesses
\* to storage that is gone.  (Reading a stale FALSE _bRun is Loop's last case.)
UseAfterFree(w) == /\ freed
                   /\ wpc[w] \in {"loop", "try", "size", "pop", "unlock"}
                   /\ wpc' = [wpc EXCEPT ![w] = "ub"]
                   /\ UNCHANGED <<pool, future, wtask, wnext, wend, client, ghost>>

-----------------------------------------------------------------------------
(* The clients. *)

\* Each task is submitted once: it is not in the hands of any thread yet.
Fresh(t) == /\ runs[t] = 0 /\ t \notin lost
            /\ \A i \in DOMAIN tasks : tasks[i] # t
            /\ \A w \in Workers : wtask[w] # t
            /\ \A c \in Clients : ctask[c] # t

\* Mutant: TryLock whose answer is ignored.
LockUnchecked(c) == /\ c \in Careful
                    /\ lock' = c
                    /\ CGo(c, "idle", "locked")
                    /\ \E t \in Tasks : Fresh(t) /\ ctask' = [ctask EXCEPT ![c] = t]
                    /\ UNCHANGED <<bRun, tasks, refs, freed, future, worker, torn, ghost>>

\* The client takes the lock to submit t.
Lock(c) == /\ c \in Careful
           /\ lock = None
           /\ lock' = c
           /\ CGo(c, "idle", "locked")
           /\ \E t \in Tasks : Fresh(t) /\ ctask' = [ctask EXCEPT ![c] = t]
           /\ UNCHANGED <<bRun, tasks, refs, freed, future, worker, torn, ghost>>

PushBegin(c) == \E t \in Tasks :
    /\ IF c \in Careful THEN t = ctask[c] /\ CGo(c, "locked", "push")
                         ELSE Fresh(t) /\ CGo(c, "idle", "push")
    /\ ctask' = [ctask EXCEPT ![c] = t]
    /\ torn' = [d \in Clients |-> IF d = c THEN \E e \in Clients : cpc[e] = "push"
                                  ELSE torn[d] \/ cpc[d] = "push"]
    /\ UNCHANGED <<pool, future, worker, ghost>>

\* What a push leaves behind: its task; when torn, perhaps nothing (the size
\* another thread wrote back hides it) or one element too many.
Pushed(t, isTorn) == {Append(tasks, t)} \cup
    IF isTorn THEN {tasks, Append(Append(tasks, t), Garbage)} ELSE {}

PushEnd(c) == /\ CGo(c, "push", "attach")
              /\ tasks' \in Pushed(ctask[c], torn[c])
              /\ lost' = IF tasks' = tasks THEN lost \cup {ctask[c]} ELSE lost
              /\ torn' = [torn EXCEPT ![c] = FALSE]
              /\ UNCHANGED <<bRun, lock, refs, freed, future, worker, ctask,
                             runs, fired, late>>

\* push_back on _calls.  A worker inside the range-for keeps its end(); if the
\* vector grows, its iterators dangle.
OnValid(c) ==
    LET t == ctask[c]
        iterating == {w \in Workers : wpc[w] = "calls" /\ wtask[w] = t}
    IN  /\ cpc[c] = "attach"
        /\ calls[t] < MaxCalls
        /\ calls' = [calls EXCEPT ![t] = @ + 1]
        /\ \E grown \in BOOLEAN :
             wpc' = [w \in Workers |-> IF grown /\ w \in iterating THEN "ub" ELSE wpc[w]]
        /\ UNCHANGED <<pool, state, value, wtask, wnext, wend, client, ghost>>

\* Unlock, or for a careless client just the end of its use of the future.
Leave(c) == /\ CGo(c, "attach", "idle")
            /\ lock' = IF c \in Careful THEN None ELSE lock
            /\ ctask' = [ctask EXCEPT ![c] = None]
            /\ UNCHANGED <<bRun, tasks, refs, freed, future, worker, torn, ghost>>

\* One reference goes; whoever drops the last one runs ~Task.
Release(c, r, to) ==
    /\ r \in refs
    /\ refs' = refs \ {r}
    /\ CGo(c, cpc[c], IF refs' = {} THEN "dtor" ELSE to)
    /\ UNCHANGED <<bRun, lock, tasks, freed, future, worker, ctask, torn, ghost>>

Drop(c)    == cpc[c] = "idle" /\ Release(c, c, "gone")
Destroy(c) == cpc[c] \in {"idle", "gone"} /\ Release(c, None, cpc[c])

\* The last reference may go while its holder is still between Lock and Unlock:
\* ~Task then waits for a mutex that its own thread owns.
DropLocked(c) ==
    /\ c \in Careful /\ refs = {c}
    /\ refs' = {}
    /\ cpc[c] \in {"locked", "attach"} /\ CGo(c, cpc[c], "dtor")
    /\ ctask' = [ctask EXCEPT ![c] = None]
    /\ UNCHANGED <<bRun, lock, tasks, freed, future, worker, torn, ghost>>

DtorStop(c) == /\ CGo(c, "dtor", "dtorLock")
               /\ bRun' = FALSE
               /\ UNCHANGED <<lock, tasks, refs, freed, future, worker, ctask, torn, ghost>>

DtorLock(c) == /\ lock = None
               /\ CGo(c, "dtorLock", "dtorUnlock")
               /\ lock' = c
               /\ UNCHANGED <<bRun, tasks, refs, freed, future, worker, ctask, torn, ghost>>

DtorUnlock(c) == /\ CGo(c, "dtorUnlock", "dtorFree")
                 /\ lock' = None
                 /\ UNCHANGED <<bRun, tasks, refs, freed, future, worker, ctask, torn, ghost>>

DtorFree(c) == /\ CGo(c, "dtorFree", "gone")
               /\ freed' = TRUE
               /\ tasks' = <<>>
               /\ UNCHANGED <<bRun, lock, refs, future, worker, ctask, torn, ghost>>

-----------------------------------------------------------------------------
WorkerStep(w) == \/ Loop(w) \/ TryLock(w) \/ Size(w) \/ Pop(w) \/ Unlock(w)
                 \/ Run(w) \/ RunGarbage(w) \/ Valid(w) \/ Begin(w) \/ Call(w)
                 \/ Return(w) \/ UseAfterFree(w)

DtorStep(c) == DtorStop(c) \/ DtorLock(c) \/ DtorUnlock(c) \/ DtorFree(c)

ClientStep(c) == \/ Lock(c) \/ PushBegin(c) \/ PushEnd(c) \/ OnValid(c) \/ Leave(c)
                 \/ Drop(c) \/ Destroy(c) \/ DropLocked(c) \/ DtorStep(c)

\* The destructor's own thread holds the mutex that the destructor asks for.
WaitsForItself(c) == cpc[c] \in {"dtor", "dtorLock"} /\ lock = c

\* Every thread has stopped: the pool is gone, undefined behaviour was met, or
\* the destructor waits for itself.
Ended == /\ \A w \in Workers : wpc[w] \in {"exit", "ub"}
         /\ \A c \in Clients : cpc[c] = "gone" \/ WaitsForItself(c)
         /\ UNCHANGED vars

Next == (\E w \in Workers : WorkerStep(w)) \/ (\E c \in Clients : ClientStep(c)) \/ Ended

Spec == Init /\ [][Next]_vars

(* The scheduler runs every thread, and a thread that waits for the mutex gets *)
(* it in the end: the others leave it free for a millisecond in every round.   *)
Fairness == /\ \A w \in Workers : WF_vars(WorkerStep(w))
            /\ \A c \in Clients : /\ WF_vars((c \in Careful /\ PushBegin(c)) \/ PushEnd(c)
                                              \/ Leave(c) \/ DtorStep(c))
                                   /\ SF_vars(DtorLock(c))

FairSpec == Spec /\ Fairness
-----------------------------------------------------------------------------
(* Properties. *)

TypeOK == /\ bRun \in BOOLEAN /\ freed \in BOOLEAN
          /\ lock \in Workers \cup Clients \cup {None}
          /\ tasks \in Seq(Tasks \cup {Garbage})
          /\ refs \subseteq Clients \cup {None}
          /\ state \in [Tasks -> {"Unkown", "Valid"}]
          /\ value \in [Tasks -> BOOLEAN]
          /\ calls \in [Tasks -> 0..MaxCalls]
          /\ wpc \in [Workers -> WPoints]
          /\ wtask \in [Workers -> Tasks \cup {Garbage, None}]
          /\ wnext \in [Workers -> Nat] /\ wend \in [Workers -> 0..MaxCalls]
          /\ cpc \in [Clients -> CPoints]
          /\ ctask \in [Clients -> Tasks \cup {None}]
          /\ torn \in [Clients -> BOOLEAN]
          /\ runs \in [Tasks -> Nat] /\ fired \in [Tasks -> Nat]
          /\ lost \subseteq Tasks /\ late \in [Workers -> Nat]

\* The unlocked push of Task.h:77 and :90 is never overlapped by another access
\* to the queue, when every client holds the lock around AddTask.
QueueRaceFree == \A c \in Clients : ~torn[c]

\* No submitted function runs twice, whoever submitted it and however the
\* pushes raced (front and pop of Task.h:37-38 by two workers on one element).
RunOnce == \A t \in Tasks : runs[t] <= 1

Held(t)     == \E w \in Workers : wtask[w] = t
Finished(t) == runs[t] > 0 /\ ~Held(t)
Undefined   == \E w \in Workers : wpc[w] = "ub"

\* A callback of OnValid finds the future valid and its value stored, and none
\* runs more often than it was attached (the range-for of Future.h:22). When
\* every client attaches its callbacks inside the critical section of AddTask,
\* a finished task has run every one of them (IsInRangeTest.cpp:120-129).
CallbacksDelivered == \A t \in Tasks :
    /\ fired[t] > 0 => state[t] = "Valid" /\ value[t] /\ fired[t] <= calls[t]
    /\ Finished(t) => fired[t] = calls[t]

\* Once ~Task has cleared _bRun, a worker takes at most one more task: the one
\* it was on its way to when it last read _bRun (Task.h:31-38 and :53).
StopBarrier == \A w \in Workers : late[w] <= 1

\* A submitted task is finished, its callbacks included, unless the pool stops:
\* ~Task drops what is still queued (Task.h:52-66).
TaskServed == \A t \in Tasks :
    (\E i \in DOMAIN tasks : tasks[i] = t) ~> (Finished(t) \/ ~bRun)

\* Careless clients: a callback that is attached before the future turns valid
\* is called in the end, unless its task never ran at all (Future.h:20-38).
EarlyCallbackServed == \A t \in Tasks : \A k \in 1..MaxCalls :
    (calls[t] >= k /\ state[t] = "Unkown")
        ~> (fired[t] >= k \/ t \in lost \/ Undefined \/ ~bRun)

\* The destructor comes to its end (Task.h:52-66): neither the workers that poll
\* the mutex nor a client that still pushes keep it waiting for ever at :54. The
\* one exception is a thread that dropped the last reference between Lock and
\* Unlock.
DestructorEnds == \A c \in Clients : (cpc[c] = "dtor" /\ ~WaitsForItself(c)) ~> freed

\* Careful clients get the service that TaskService describes.
Service == INSTANCE TaskService WITH
    queue <- tasks,
    running <- {wtask[w] : w \in Workers} \ {None},
    done <- {t \in Tasks : Finished(t)},
    attached <- calls,
    delivered <- fired,
    open <- refs # {}

ImplementsService == Service!Spec
=============================================================================
