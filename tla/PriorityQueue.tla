---------------------------- MODULE PriorityQueue ----------------------------
(***************************************************************************)
(* What heappushArray and heappopArray promise the searches: a bag of      *)
(* costs from which a least one is taken.  An item is its cost: the key    *)
(* that comes with it plays no part in the order.                          *)
(***************************************************************************)
EXTENDS Naturals

CONSTANT Costs
VARIABLES
  queued,   \* how many items of a cost are in the queue
  taken     \* the cost that was taken last

PQInit == queued = [c \in Costs |-> 0] /\ taken = {}

Put(c) == /\ queued' = [queued EXCEPT ![c] = @ + 1]
          /\ UNCHANGED taken

TakeLeast(c) == /\ queued[c] > 0
                /\ \A d \in Costs : queued[d] > 0 => c <= d
                /\ queued' = [queued EXCEPT ![c] = @ - 1]
                /\ taken' = {c}

PQNext == \E c \in Costs : Put(c) \/ TakeLeast(c)
PQSpec == PQInit /\ [][PQNext]_<<queued, taken>>
=============================================================================
