---------------------------- MODULE TaskService ----------------------------
(***************************************************************************)
(* What the thread pool of Study/Task promises to the threads that use it  *)
(* as IsInRangeTest.cpp does (Lock, AddTask, OnValid, Unlock): tasks start *)
(* in the order in which they were added, each one once; the callbacks of  *)
(* a future are delivered in the order in which they were attached, each   *)
(* one once, and a task is done only when all of them have been.           *)
(***************************************************************************)
EXTENDS Naturals, Sequences

CONSTANTS Tasks,      \* the tasks that may be submitted
          MaxCalls    \* callbacks attached to one future, at most

VARIABLES queue,      \* submitted tasks that no thread has taken yet
          running,    \* tasks taken and not finished
          done,       \* tasks finished
          attached,   \* callbacks attached to the future of each task
          delivered,  \* callbacks that have run
          open        \* somebody still holds the service

svars == <<queue, running, done, attached, delivered, open>>

Queued == {queue[i] : i \in DOMAIN queue}

Init == /\ queue = <<>>
        /\ running = {}
        /\ done = {}
        /\ attached = [t \in Tasks |-> 0]
        /\ delivered = [t \in Tasks |-> 0]
        /\ open = TRUE

Submit(t) == /\ open
             /\ t \notin Queued \cup running \cup done
             /\ queue' = Append(queue, t)
             /\ UNCHANGED <<running, done, attached, delivered, open>>

\* A callback may be attached as long as nobody has taken the task.
Attach(t) == /\ t \in Queued
             /\ attached[t] < MaxCalls
             /\ attached' = [attached EXCEPT ![t] = @ + 1]
             /\ UNCHANGED <<queue, running, done, delivered, open>>

Start == /\ queue # <<>>
         /\ running' = running \cup {Head(queue)}
         /\ queue' = Tail(queue)
         /\ UNCHANGED <<done, attached, delivered, open>>

Deliver(t) == /\ t \in running
              /\ delivered[t] < attached[t]
              /\ delivered' = [delivered EXCEPT ![t] = @ + 1]
              /\ UNCHANGED <<queue, running, done, attached, open>>

Finish(t) == /\ t \in running
             /\ delivered[t] = attached[t]
             /\ running' = running \ {t}
             /\ done' = done \cup {t}
             /\ UNCHANGED <<queue, attached, delivered, open>>

\* The last holder leaves; then the service may drop what nobody has taken.
Close == open /\ open' = FALSE /\ UNCHANGED <<queue, running, done, attached, delivered>>

Abandon == /\ ~open
           /\ queue' = <<>>
           /\ UNCHANGED <<running, done, attached, delivered, open>>

Next == Start \/ Close \/ Abandon \/ \E t \in Tasks :
            Submit(t) \/ Attach(t) \/ Deliver(t) \/ Finish(t)

Spec == Init /\ [][Next]_svars
============================================================================
