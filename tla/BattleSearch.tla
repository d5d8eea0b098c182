----------------------------- MODULE BattleSearch -----------------------------
(***************************************************************************)
(* How a soldier finds a way (BattleMap:searchPathUsingAstar): an A* over  *)
(* astarSize x astarSize cells, of which the outer ring is always free,    *)
(* that may go through walls at a price.  The route ends at the first wall *)
(* on the way, which becomes the target of the attack.  The fields of the  *)
(* cells stay from one search to the next, told apart by searchId only.    *)
(* Routes are not reused: reuseInfos never gets the fourth entry that      *)
(* checkReusePath compares with the target.                                *)
(***************************************************************************)
EXTENDS Integers, Sequences, FiniteSets

CONSTANTS
  astarSize,    \* the cells of a row: size + 2
  Plans,        \* the maps: [walls: who is in allWalls, others: other cells
                \*   with a weight, likes: cells with a building to attack]
  Tasks,        \* the searches: [from: a cell, to: a cell, range: halves]
  MaxRuns   \* bound

(* A map has at least one cell inside of its free ring.                    *)
ASSUME SearchAssumption == astarSize \in Nat /\ astarSize >= 3

VARIABLES
  plan,         \* the map: allWalls and mapGrid
  cellW,        \* searchCells[key][2]
  cells,        \* searchCells[key][1], [3], [6] and closeSet[key]
  openList,     \* the heap: pairs of F and key
  searchId,
  task,         \* the arguments of the search that runs
  startKey,     \* key: the cell it starts at
  answer        \* what it returned, and the cell it started at
searchVars == <<plan, cellW, cells, openList, searchId, task, startKey, answer>>

Area == 1..astarSize * astarSize
X(k) == (k - 1) % astarSize
Y(k) == (k - 1) \div astarSize

Apart(a, b) == IF a < b THEN b - a ELSE a - b

Directions == << <<-1,-1,14>>, <<0,-1,10>>, <<1,-1,14>>, <<1,0,10>>,
                 <<1,1,14>>, <<0,1,10>>, <<-1,1,14>>, <<-1,0,10>> >>

(* The directions that stay on the map; they go round twice.               *)
Edge(k) ==
  LET last == astarSize - 1
      inner == 1..last - 1
  IN CASE X(k) = 0 /\ Y(k) = 0            -> 4..6
       [] X(k) = last /\ Y(k) = 0         -> 6..8
       [] X(k) = last /\ Y(k) = last      -> 8..10
       [] X(k) = 0 /\ Y(k) = last         -> 2..4
       [] X(k) = 0 /\ Y(k) \in inner      -> 2..6
       [] X(k) \in inner /\ Y(k) = 0      -> 4..8
       [] X(k) = last /\ Y(k) \in inner   -> 6..10
       [] X(k) \in inner /\ Y(k) = last   -> 8..12
       [] X(k) \in inner /\ Y(k) \in inner -> 1..8

(* The cells next to k, each with the cost of the step.                    *)
Near(k) ==
  {<<k + d[1] + astarSize * d[2], d[3]>> : d \in {Directions[((i - 1) % 8) + 1] : i \in Edge(k)}}

Hval(k) == 10 * (Apart(X(task'.to), X(k)) + Apart(Y(task'.to), Y(k)))

(* checkAstarNeibor and resetCell, over cells c and a list open; id is the *)
(* number of the search.                                                   *)
Closed(c, k, id) == c.closed[k] >= id

(* Mutant: a cell an earlier search has seen counts as seen. *)
CheaperStale(c, k, id) ==
  {s \in Near(k) : /\ ~Closed(c, s[1], id)
                   /\ \/ c.seen[s[1]] = 0
                      \/ c.g[k] + s[2] + cellW[s[1]] < c.g[s[1]]}

Cheaper(c, k, id) ==
  {s \in Near(k) : /\ ~Closed(c, s[1], id)
                   /\ \/ c.seen[s[1]] < id
                      \/ c.g[k] + s[2] + cellW[s[1]] < c.g[s[1]]}

CheckNeighbours(c, open, k, id) ==
  LET better == Cheaper(c, k, id)
      touched == {s[1] : s \in better}
      ng == [n \in touched |-> c.g[k] + (CHOOSE s \in better : s[1] = n)[2] + cellW[n]]
  IN /\ cells' = [g |-> [n \in Area |-> IF n \in touched THEN ng[n] ELSE c.g[n]],
                  parent |-> [n \in Area |-> IF n \in touched THEN k ELSE c.parent[n]],
                  seen |-> [n \in Area |-> IF n \in touched THEN id ELSE c.seen[n]],
                  closed |-> [c.closed EXCEPT ![k] = id]]
     /\ openList' = open \cup {<<ng[n] + Hval(n), n>> : n \in touched}

SearchInit ==
  /\ plan \in Plans
  /\ cellW = [k \in Area |-> IF k \in plan.walls THEN 200
                             ELSE IF k \in plan.others THEN 80 ELSE 0]
  /\ cells = [g |-> [k \in Area |-> 0], parent |-> [k \in Area |-> 0],
              seen |-> [k \in Area |-> 0], closed |-> [k \in Area |-> 0]]
  /\ openList = {} /\ searchId = 0
  /\ task = {} /\ startKey = 0 /\ answer = {}

Running == startKey # 0

(* A soldier who stands in a wall starts from a free cell at one of its    *)
(* four sides, by his place within the cell; exactly on the upper left     *)
(* corner only the left and the upper one are looked at.                   *)
Beside(k) == {k - 1, k - astarSize, k + 1, k + astarSize}
FreeStarts(k) == IF cellW[k] = 0 THEN {k} ELSE {n \in Beside(k) : cellW[n] = 0}

StartSearch(t, k) ==
  /\ ~Running /\ searchId < MaxRuns
  /\ k \in FreeStarts(t.from)
  /\ searchId' = searchId + 1
  /\ task' = t /\ startKey' = k /\ answer' = {}
  /\ CheckNeighbours([cells EXCEPT !.g[k] = 0], {}, k, searchId + 1)
  /\ UNCHANGED <<plan, cellW>>

(* The wall he stands in is what he attacks, without a path.               *)
StartWalled(t) ==
  /\ ~Running /\ searchId < MaxRuns
  /\ cellW[t.from] > 0
  /\ \A n \in {t.from - 1, t.from - astarSize} : cellW[n] > 0
  /\ searchId' = searchId + 1
  /\ answer' = {[real |-> t.to, attack |-> IF t.from \in plan.walls THEN t.from ELSE 0,
                  path |-> <<>>, start |-> t.from]}
  /\ task' = t
  /\ UNCHANGED <<plan, cellW, cells, openList, startKey>>

(* checkIsResultGrid: a free cell with a building to one's liking, or one  *)
(* the target is in range of.  Distances are in halves of a cell, the      *)
(* target reaches half a cell to each side.                                *)
Beyond(a, b) == IF a = b THEN 0 ELSE 2 * Apart(a, b) - 1
InRange(t, k) == Beyond(X(k), X(t.to)) ^ 2 + Beyond(Y(k), Y(t.to)) ^ 2 <= t.range ^ 2
ResultGrid(t, k) == cellW[k] = 0 /\ (k \in plan.likes \/ InRange(t, k))

(* The way back to the start by the parents, the result first.             *)
Back(k) ==
  LET back[i \in 0..astarSize * astarSize] == IF i = 0 THEN k ELSE cells.parent[back[i - 1]]
      n == CHOOSE i \in Area : back[i] = startKey /\ \A j \in 1..i - 1 : back[j] # startKey
  IN [i \in 1..n + 1 |-> back[i - 1]]

IsWall(k) == cellW[k] > 0 /\ k \in plan.walls /\ k # startKey

(* Where the direction changes, from the end of the route backwards; the   *)
(* start is not among them.                                                *)
Turns(w) ==
  LET turns[i \in 1..Len(w)] ==
        IF i = 1 THEN <<w[1]>>
        ELSE IF i < Len(w) /\ w[i] - w[i - 1] # w[i + 1] - w[i] THEN Append(turns[i - 1], w[i])
        ELSE turns[i - 1]
  IN turns[Len(w)]

(* The route ends at the wall nearest to the start; every wall on the way  *)
(* gets cheap for the searches to come.                                    *)
Report(k) ==
  LET w == Back(k)
      crossed == {i \in 2..Len(w) : IsWall(w[i])}
      stop == IF crossed = {} THEN 1 ELSE CHOOSE i \in crossed : \A j \in crossed : j <= i
      real == IF k \in plan.likes THEN k ELSE task.to
  IN /\ answer' = {[real |-> real, attack |-> IF crossed = {} THEN real ELSE w[stop],
                    path |-> Turns(SubSeq(w, stop, Len(w))), start |-> startKey]}
     /\ cellW' = [n \in Area |-> IF \E i \in crossed : w[i] = n THEN 60 ELSE cellW[n]]

(* heappopArray takes any of the least (HeapQ shows that it is a least).   *)
LeastOpen == {o \in openList : \A p \in openList : o[1] <= p[1]}

SkipClosed(o) ==
  /\ Running /\ o \in LeastOpen /\ Closed(cells, o[2], searchId)
  /\ openList' = openList \ {o}
  /\ UNCHANGED <<plan, cellW, cells, searchId, task, startKey, answer>>

GoOn(o) ==
  /\ Running /\ o \in LeastOpen /\ ~Closed(cells, o[2], searchId)
  /\ ~ResultGrid(task, o[2])
  /\ task' = task
  /\ CheckNeighbours(cells, openList \ {o}, o[2], searchId)
  /\ UNCHANGED <<plan, cellW, searchId, startKey, answer>>

Arrive(o) ==
  /\ Running /\ o \in LeastOpen /\ ~Closed(cells, o[2], searchId)
  /\ ResultGrid(task, o[2])
  /\ Report(o[2])
  /\ openList' = {} /\ startKey' = 0
  /\ UNCHANGED <<plan, cells, searchId, task>>

(* "impossible situation": target and no path. *)
GiveUp ==
  /\ Running /\ openList = {}
  /\ answer' = {[real |-> task.to, attack |-> 0, path |-> <<>>, start |-> startKey]}
  /\ startKey' = 0
  /\ UNCHANGED <<plan, cellW, cells, openList, searchId, task>>

SearchNext ==
  \/ \E t \in Tasks : StartWalled(t) \/ \E k \in Area : StartSearch(t, k)
  \/ \E o \in openList : SkipClosed(o) \/ GoOn(o) \/ Arrive(o)
  \/ GiveUp

SearchSpec == SearchInit /\ [][SearchNext]_searchVars

-----------------------------------------------------------------------------
(* The cells on the straight way from a to b, b included, {} if there is   *)
(* none in the eight directions.                                           *)
Straight(a, b) ==
  LET dx == X(b) - X(a)
      dy == Y(b) - Y(a)
      n == IF dx # 0 THEN Apart(X(a), X(b)) ELSE Apart(Y(a), Y(b))
  IN IF dx = 0 \/ dy = 0 \/ Apart(X(a), X(b)) = Apart(Y(a), Y(b))
     THEN {a + i * ((dx + dy * astarSize) \div n) : i \in 1..n} ELSE {}

(* A soldier who follows the points of the route straight from one to the  *)
(* next crosses no wall that could be attacked (walls that only the grid   *)
(* knows, with a weight but not in allWalls, he walks through).  He ends   *)
(* beside nothing else: in a wall, which is then what he attacks, or on a  *)
(* free cell from which he reaches the target or a building he likes       *)
(* better.  The links of earlier searches, with other walls and other      *)
(* starts, are still in the cells (:604-635).                              *)
RouteLeads ==
  \A r \in answer : r.path # <<>> =>
    LET n == Len(r.path)
        points == [i \in 1..n + 1 |-> IF i = 1 THEN r.start ELSE r.path[n + 2 - i]]
        end == r.path[1]
        onWay == UNION {Straight(points[i], points[i + 1]) : i \in 1..n}
    IN /\ \A i \in 1..n : Straight(points[i], points[i + 1]) # {}
       /\ \A k \in onWay \ {end} : k \notin plan.walls
       /\ IF end \in plan.walls THEN r.attack = end
          ELSE r.attack = r.real /\ ResultGrid(task, end)
       /\ r.real = task.to \/ r.real \in plan.likes

(* The search returns no path only when no other cell than the one it      *)
(* started at, about which it never asks, would do: every cell can be      *)
(* reached, through walls if need be, and the first search as well as      *)
(* later ones visit them all (:535-564).                                   *)
NoneMeansNowhere ==
  ~Running => \A r \in answer :
    r.path = <<>> => \/ cellW[r.start] > 0
                     \/ \A k \in Area \ {r.start} : ~ResultGrid(task, k)

(* Whatever the searches before left in the cells, an answer leads to what *)
(* it names or says truly that nothing does (:482-645).                    *)
AnswerLeads == RouteLeads /\ NoneMeansNowhere

(* The search never runs out of cells: "impossible situation because all   *)
(* can move in this map!" (:640-643).  It does when each cell in range of  *)
(* the target is a wall's and no building he likes stands on a free cell,  *)
(* or when only the cell he starts at would do.                            *)
AllCanMove == Running => openList # {}
=============================================================================
