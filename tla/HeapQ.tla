-------------------------------- MODULE HeapQ --------------------------------
(***************************************************************************)
(* The binary heap of the searches (src/Debug/heapq.lua): heappushArray    *)
(* and heappopArray, one action per round of their loops.  heappush and    *)
(* heappop are the same loops over plain numbers.  Nobody else runs while  *)
(* one of them does.                                                       *)
(***************************************************************************)
EXTENDS Integers, Sequences, FiniteSets

CONSTANTS
  Costs,    \* the costs of items: item[1]
  MaxHeap   \* bound: the length of the heap

ASSUME CostsAssumption == Costs \subseteq Int

VARIABLES
  heap,     \* list
  curPos,   \* where the item is that the loop moves
  sift,     \* the loop that runs: "up", "down" or "none"
  popped    \* the item that pop returns, as a set; empty before the first
heapVars == <<heap, curPos, sift, popped>>

HeapInit == heap = <<>> /\ curPos = 1 /\ sift = "none" /\ popped = {}

Swap(l, i, j) == [l EXCEPT ![i] = l[j], ![j] = l[i]]

HeapPush(c) ==
  /\ sift = "none" /\ Len(heap) < MaxHeap
  /\ heap' = Append(heap, c)
  /\ curPos' = Len(heap) + 1
  /\ sift' = "up"
  /\ UNCHANGED popped

SiftUp ==
  /\ sift = "up"
  /\ LET parent == curPos \div 2
     IN IF parent > 0 /\ heap[curPos] < heap[parent]
        THEN heap' = Swap(heap, curPos, parent) /\ curPos' = parent /\ sift' = sift
        ELSE sift' = "none" /\ UNCHANGED <<heap, curPos>>
  /\ UNCHANGED popped

(* The last item takes the place of the first.                             *)
HeapPop ==
  /\ sift = "none" /\ heap # <<>>
  /\ popped' = {heap[1]}
  /\ heap' = [i \in 1..Len(heap) - 1 |-> IF i = 1 THEN heap[Len(heap)] ELSE heap[i]]
  /\ curPos' = 1
  /\ sift' = "down"

(* The least of the item and its children: of two equal ones the item      *)
(* itself before the left child before the right one.                      *)
LesserChild(l, i) ==
  LET left == 2 * i
      right == 2 * i + 1
      m == IF left <= Len(l) /\ l[i] > l[left] THEN left ELSE i
  IN IF right <= Len(l) /\ l[m] > l[right] THEN right ELSE m

(* Mutant: the right child is compared with the item, not with the less of *)
(* the item and its left child.                                            *)
SiftDownRight ==
  /\ sift = "down"
  /\ LET right == 2 * curPos + 1
         min == IF right <= Len(heap) /\ heap[curPos] > heap[right]
                THEN right ELSE LesserChild(heap, curPos)
     IN IF min # curPos
        THEN heap' = Swap(heap, curPos, min) /\ curPos' = min /\ sift' = sift
        ELSE sift' = "none" /\ UNCHANGED <<heap, curPos>>
  /\ UNCHANGED popped

SiftDown ==
  /\ sift = "down"
  /\ LET min == LesserChild(heap, curPos)
     IN IF curPos <= Len(heap) /\ min # curPos
        THEN heap' = Swap(heap, curPos, min) /\ curPos' = min /\ sift' = sift
        ELSE sift' = "none" /\ UNCHANGED <<heap, curPos>>
  /\ UNCHANGED popped

HeapNext == (\E c \in Costs : HeapPush(c)) \/ SiftUp \/ HeapPop \/ SiftDown
HeapSpec == HeapInit /\ [][HeapNext]_heapVars

-----------------------------------------------------------------------------
(* The heap is a queue of priorities: whatever is pushed and popped, in    *)
(* any order and with equal costs among them, heappopArray returns a least *)
(* item, and the loops lose and double none (heapq.lua:54-103).  Only      *)
(* because of it is a cell of the searches closed with its least cost.     *)
Queue == INSTANCE PriorityQueue
           WITH queued <- [c \in Costs |-> Cardinality({i \in DOMAIN heap : heap[i] = c})],
                taken <- popped
QueueKept == Queue!PQSpec

(* Between two calls a parent costs no more than its children.             *)
HeapOrdered == sift = "none" => \A i \in 2..Len(heap) : heap[i \div 2] <= heap[i]
=============================================================================
