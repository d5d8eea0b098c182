----------------------------- MODULE AStarPaths -----------------------------
(***************************************************************************)
(* What the path finder promises, against a reference: the cheapest walk   *)
(* over the same graph computed by relaxing every edge until nothing       *)
(* changes.  Also what NavLib's Lua side makes of an answer (Nav.lua).     *)
(***************************************************************************)
EXTENDS AStar, TLC

\* From a set of pairs <<cell, cost>>, the least one per cell.
LeastCosts(S) == {p \in S : \A r \in S : r[1] = p[1] => p[2] <= r[2]}

RECURSIVE Settled(_)
Settled(S) ==
    LET T == LeastCosts(S \cup
                 UNION {{<<j, p[2] + CalcuDistance(p[1], j)>> :
                            j \in {c \in NextTo(p[1]) : height[c] >= 0}} : p \in S})
    IN  IF T = S THEN S ELSE Settled(T)

\* The pairs <<goal, least cost>> of the goals that can be reached.
Reached(q) == {p \in Settled({<<q.start, 0>>}) : p[1] \in Goals(q)}

RECURSIVE Connected(_)
Connected(S) ==
    LET T == S \cup {c \in UNION {NextTo(i) : i \in S} : height[c] >= 0}
    IN  IF T = S THEN S ELSE Connected(T)

Reachable(q) == Connected({q.start}) \cap Goals(q) # {}

RECURSIVE Cost(_)
Cost(p) == IF Len(p) <= 1 THEN 0
           ELSE CalcuDistance(p[Len(p)-1], p[Len(p)]) + Cost(SubSeq(p, 1, Len(p) - 1))

\* No wall attracts by more than its height, so no step costs less than its
\* length: so it is as long as no wall is lowered.
Priced == \A c \in Cells : height[c] > 0 => attr[c] <= height[c]

-----------------------------------------------------------------------------
(* Properties *)

\* Search gives a cheapest path, although it stops at the first neighbour that
\* is the goal, closes edges instead of cells and leaves worse nodes in the heap.
\* FlagSearch takes the first flagged neighbour it sees, which need not be the
\* nearest flagged cell, but is dearer by less than one step onto a wall.  A search
\* resumed again after it has answered goes on to other, dearer paths.
Dearer(q) == IF q.kind = "Flag" THEN 80 + 4 + 10 * (W - 2) ELSE 0
Cheapest == [][FoundNow /\ run.asked.kind \in {"Normal", "Flag"} /\ Priced /\ ~Again =>
    \A r \in Reached(run.asked) : Cost(ans'.path) <= r[2] + Dearer(run.asked)]_vars

\* The first answer of a search, if it is empty, means what Nav.lua says of it: no
\* goal can be reached.  A caller that resumes gets it neither for somebody else's
\* search nor for an id that was never given out.
NoneMeansUnreachable ==
    [][ans' # ans /\ ans' # Nil /\ ans'.kind = "none" =>
          run # Nil /\ (Again \/ ~Reachable(run.asked))]_vars

-----------------------------------------------------------------------------
(* The Lua side: ReturnPath.  A number is written as a sequence of one. *)

Vector(a) == IF a.kind = "id" THEN <<a.id>> ELSE a.path

ReturnPath(v) == IF Len(v) >= 1 THEN v ELSE <<-1>>

\* The comments of ReturnPath: a number is the id to resume, -1 is a failure.
\* A caller can tell a failed search from one that can be resumed.
FailureIsDistinct == ans # Nil /\ ans.kind = "id" => ReturnPath(Vector(ans)) # <<-1>>

\* The comment of Search: an id instead of a path means that the search was not
\* finished within the time it was given.
IdMeansOutOfTime == [][ans' # ans /\ ans' # Nil /\ ans'.kind = "id" => late]_vars
=============================================================================
