------------------------------- MODULE AStar --------------------------------
(***************************************************************************)
(* The path finder of NavLib (AStarNavigation.h over Navigation.h, Map.h,  *)
(* Ground.h, Distance.h): Search, MultiSearch and FlagSearch are one loop  *)
(* over an open heap, a closed set of EDGES and the least walk per cell;   *)
(* a search that its deadline stops is kept in _cache and its number is    *)
(* answered, to be passed to ResumeSearch.  Searches share the map, whose  *)
(* walls a found path makes attractive, and callers change it in between.  *)
(*                                                                         *)
(* GetPath calls AddWallAttraction, the name INavigation.h still declares; *)
(* the only body in the source is AddAttraction of Navigation.h.           *)
(***************************************************************************)
EXTENDS Grid, Sequences, FiniteSets

CONSTANTS Maps,         \* the height maps Init starts from
          Flags,        \* the sets of flagged cells Init starts from
          Queries,      \* what callers ask: [kind, start, goals]
          Durations,    \* may a call have a deadline?  subset of BOOLEAN
          Heights,      \* the heights UpdateHeight may set
          Dps, Speed,   \* of every search
          MaxSearches, MaxUpdates,   \* bounds on the calls
          Nil

ASSUME AStarAssumption ==
    /\ Dps \in Nat \ {0} /\ Speed \in Nat
    /\ \A q \in Queries : /\ q.kind \in {"Normal", "Multi", "Flag"}
                          /\ q.start \in Cells
                          /\ q.goals \subseteq Cells
                          /\ q.goals # {} <=> q.kind # "Flag"

VARIABLES height, attr,  \* Ground::_h, _a of every cell
          flagged,       \* the cells whose _f has the searched flag
          cache,         \* AStarNavigation::_cache
          run,           \* the call in progress and its search, or Nil
          late,          \* GetTickCount() > etime
          ans,           \* what the last call returned, or Nil
          held,          \* history: the resume ids given out, with what was asked
          ended,         \* history: the ids whose search has answered a path or none
          touched,       \* history: the cells UpdateHeight has changed
          searches, updates  \* calls so far

ground == <<height, attr, flagged>>
vars == <<height, attr, flagged, cache, run, late, ans, held, ended, touched,
          searches, updates>>

-----------------------------------------------------------------------------
(* The map as a graph. *)

\* Division of C++, which truncates.
Quot(a, b) == IF a >= 0 THEN a \div b ELSE -((-a) \div b)

CalcuDistance(i, j) ==
    IF height[j] = 0 THEN ExpectDistance(i, j)
    ELSE ExpectDistance(i, j)
         + Least((Quot(height[j] - attr[j], Dps) + 1) * Speed, 80)

\* The eight neighbours in the order of the code; x + 1 and x - 1 are not
\* confined to the row.
Around(i) == LET x == GetX(i)  y == GetY(i)
             IN  << GetIndex(x+1, y+1), GetIndex(x+1, y), GetIndex(x+1, y-1),
                    GetIndex(x, y+1), GetIndex(x, y-1),
                    GetIndex(x-1, y+1), GetIndex(x-1, y), GetIndex(x-1, y-1) >>

\* Mutant: every cell is a ground to walk on.
ThroughBlocked(i, close) ==
    {k \in 1 .. 8 : Around(i)[k] \in Cells /\ EdgeKey(i, Around(i)[k]) \notin close}

\* The neighbours a search goes on to, as places in Around.
GetOpensWithNear(i, close) ==
    {k \in 1 .. 8 : LET j == Around(i)[k]
                    IN  j \in Cells /\ EdgeKey(i, j) \notin close /\ height[j] >= 0}

\* Where a search may end, and what it expects still to walk from a cell.
Goals(q) == IF q.kind = "Flag" THEN flagged ELSE q.goals
Expect(i, q) == IF q.kind = "Flag" THEN 0
                ELSE CHOOSE d \in {ExpectDistance(i, g) : g \in q.goals} :
                         \A g \in q.goals : d >= ExpectDistance(i, g)

-----------------------------------------------------------------------------
(* Init and the calls. *)

NewMin == [c \in Cells |-> 0]
NoWalls == [c \in Cells |-> 0]

Init == /\ height \in Maps /\ attr = NoWalls /\ flagged \in Flags
        /\ cache = <<>> /\ run = Nil /\ late = FALSE /\ ans = Nil
        /\ held = {} /\ ended = {} /\ touched = {}
        /\ searches = 0 /\ updates = 0

Node(i, walk, q, path) == [at |-> i, walk |-> walk, left |-> Expect(i, q), path |-> path]

\* After undefined behaviour nothing is said any more.
Undefined == ans # Nil /\ ans.kind = "undefined"
Ready == run = Nil /\ ~Undefined

\* Search, MultiSearch and FlagSearch up to the loop.
Search(q, timed) ==
    /\ Ready /\ searches < MaxSearches
    /\ LET d == Node(q.start, 0, q, <<q.start>>)
       IN  run' = [s |-> [q |-> q, open |-> {d}, top |-> d, close |-> {},
                          min |-> NewMin],
                   timed |-> timed, id |-> 0, asked |-> q]
    /\ late' = FALSE /\ ans' = Nil /\ searches' = searches + 1
    /\ UNCHANGED <<ground, cache, held, ended, touched, updates>>

\* Distance::operator>, the order of the heap; equal nodes come in any order.
After(a, b) == \/ a.left + a.walk > b.left + b.walk
               \/ a.left + a.walk = b.left + b.walk /\ a.left > b.left

Tops(open) == {n \in open : \A m \in open : ~After(n, m)}

\* Mutant: the id taken for an index.
SaveIdRaw(id) == -id

SaveId(id) == -(id + 1)

\* ResumeSearch, up to the loop.  An id out of bounds finds nothing.  Nothing
\* leaves _cache, so an id is good also when its search has ended: it goes on
\* with what its heap still holds, and takes top() of a heap that may be empty.
Resume(h, timed) ==
    /\ Ready /\ searches < MaxSearches /\ h \in held
    /\ searches' = searches + 1
    /\ LET k == SaveId(h.id)
       IN  IF 0 <= k /\ k < Len(cache)
           THEN \/ /\ cache[k + 1].open = {}
                   /\ ans' = [kind |-> "undefined", path |-> <<>>, id |-> h.id]
                   /\ UNCHANGED <<run, late>>
                \/ /\ \E t \in Tops(cache[k + 1].open) :
                         run' = [s |-> [cache[k + 1] EXCEPT !.top = t],
                                 timed |-> timed, id |-> h.id, asked |-> h.q]
                   /\ late' = FALSE /\ ans' = Nil
           ELSE /\ ans' = [kind |-> "none", path |-> <<>>, id |-> 0]
                /\ UNCHANGED <<run, late>>
    /\ UNCHANGED <<ground, cache, held, ended, touched, updates>>

-----------------------------------------------------------------------------
(* How a call returns.  ResumeSearch works on the cached search itself.    *)

Keep(s) == IF run.id = 0 THEN cache ELSE [cache EXCEPT ![-run.id] = s]

\* The search of the call in progress has an id, and has answered.
Ends == ended' = IF run.id = 0 THEN ended ELSE ended \cup {run.id}

AddAttraction(path) ==
    [c \in Cells |-> IF height[c] > 0 /\ \E k \in DOMAIN path : path[k] = c
                     THEN height[c] ELSE attr[c]]

\* GetPath.
Found(path, s) ==
    /\ ans' = [kind |-> "path", path |-> path, id |-> 0]
    /\ attr' = AddAttraction(path)
    /\ cache' = Keep(s) /\ run' = Nil /\ Ends
    /\ UNCHANGED <<height, flagged, late, held, touched, searches, updates>>

NotFound(s) ==
    /\ ans' = [kind |-> "none", path |-> <<>>, id |-> 0]
    /\ cache' = Keep(s) /\ run' = Nil /\ Ends
    /\ UNCHANGED <<ground, late, held, touched, searches, updates>>

SaveCache(s) ==
    /\ cache' = Append(cache, s)
    /\ ans' = [kind |-> "id", path |-> <<>>, id |-> -(Len(cache) + 1)]

-----------------------------------------------------------------------------
(* The loop. *)

AtGoal == run.s.top.at \in Goals(run.s.q)

\* The condition of the loop: etime <= 0 || GetTickCount() > etime.
Continue == ~run.timed \/ late

Return == /\ run # Nil /\ AtGoal
          /\ Found(run.s.top.path, run.s)

Stop == /\ run # Nil /\ ~AtGoal /\ ~Continue
        /\ IF run.id = 0 THEN SaveCache(run.s)
           ELSE /\ cache' = Keep(run.s)
                /\ ans' = [kind |-> "id", path |-> <<>>, id |-> run.id]
        /\ held' = held \cup {[id |-> ans'.id, q |-> run.asked]}
        /\ run' = Nil
        /\ UNCHANGED <<ground, late, ended, touched, searches, updates>>

\* Mutant: a better walk to a cell already seen is not noted.
Unseen(s, n) == s.min[n.at] = 0

\* Navigation::AddOpen happens only on a strictly shorter walk.
Better(s, n) == s.min[n.at] = 0 \/ n.walk < s.min[n.at]

\* What the body of BFS leaves when no neighbour is a goal.
Relaxed(s, near) ==
    LET o     == s.top
        nodes == {Node(j, o.walk + CalcuDistance(o.at, j), s.q, Append(o.path, j)) :
                     j \in {Around(o.at)[k] : k \in near}}
        new   == {n \in nodes : Better(s, n)}
    IN  [s EXCEPT !.open  = (@ \ {o}) \cup new,
                  !.close = @ \cup {EdgeKey(o.at, Around(o.at)[k]) : k \in near},
                  !.min   = [c \in Cells |->
                                IF \E n \in new : n.at = c
                                THEN (CHOOSE n \in new : n.at = c).walk ELSE @[c]]]

\* The neighbours of i among near that are goals; the loop stops at the first.
GoalsNear(i, near, q) == {k \in near : Around(i)[k] \in Goals(q)}
First(S) == CHOOSE k \in S : \A j \in S : k <= j

\* Mutant: BFS does not ask whether the heap is empty.
ExpandBlindly ==
    /\ run # Nil /\ ~AtGoal /\ Continue
    /\ LET s    == run.s
           near == GetOpensWithNear(s.top.at, s.close)
           hits == GoalsNear(s.top.at, near, s.q)
           next == Relaxed(s, near)
       IN  IF hits # {}
           THEN Found(Append(s.top.path, Around(s.top.at)[First(hits)]), next)
           ELSE /\ run' = [run EXCEPT !.s = next]
                /\ UNCHANGED <<ground, cache, late, ans, held, ended, touched, searches, updates>>

\* BFS: the neighbours before the first goal are opened also when there is one.
Expand ==
    /\ run # Nil /\ ~AtGoal /\ Continue
    /\ \E near \in {GetOpensWithNear(run.s.top.at, run.s.close)} :
          LET at   == run.s.top.at
              hits == GoalsNear(at, near, run.s.q)
              f    == First(hits)
          IN  \/ /\ hits # {}
                 /\ Found(Append(run.s.top.path, Around(at)[f]),
                          Relaxed(run.s, {k \in near : k < f}))
              \/ /\ hits = {}
                 /\ \E next \in {Relaxed(run.s, near)} :
                       \/ next.open = {} /\ NotFound(next)
                       \/ /\ \E t \in Tops(next.open) :
                                run' = [run EXCEPT !.s = [next EXCEPT !.top = t]]
                          /\ UNCHANGED <<ground, cache, late, ans, held, ended, touched, searches, updates>>

\* The clock passes the deadline of the call in progress.
Deadline == /\ run # Nil /\ run.timed /\ ~late
            /\ late' = TRUE
            /\ UNCHANGED <<ground, cache, run, ans, held, ended, touched, searches, updates>>

-----------------------------------------------------------------------------
(* The map is changed between calls. *)

UpdateHeight(c, h) ==
    /\ Ready /\ updates < MaxUpdates /\ height[c] # h
    /\ height' = [height EXCEPT ![c] = h] /\ touched' = touched \cup {c}
    /\ updates' = updates + 1
    /\ UNCHANGED <<attr, flagged, cache, run, late, ans, held, ended, searches>>

UpdateFlag(c) ==
    /\ Ready /\ updates < MaxUpdates
    /\ flagged' = IF c \in flagged THEN flagged \ {c} ELSE flagged \cup {c}
    /\ updates' = updates + 1
    /\ UNCHANGED <<height, attr, cache, run, late, ans, held, ended, touched, searches>>

Finished == ((run = Nil /\ searches = MaxSearches) \/ Undefined) /\ UNCHANGED vars

Next == \/ \E q \in Queries, timed \in Durations : Search(q, timed)
        \/ \E h \in held, timed \in Durations : Resume(h, timed)
        \/ Return \/ Stop \/ Expand \/ Deadline
        \/ \E c \in Cells, h \in Heights : UpdateHeight(c, h)
        \/ \E c \in Cells : UpdateFlag(c)
        \/ Finished

Spec == Init /\ [][Next]_vars

-----------------------------------------------------------------------------
(* Properties; those that speak of costs and reachability are in AStarPaths. *)

\* Types of what the calls leave behind: no node is open for a cell off the
\* map or a blocked one, and a resume id held is one that was given out.
TypeOK ==
    /\ height \in [Cells -> Int] /\ attr \in [Cells -> Int] /\ flagged \subseteq Cells
    /\ late \in BOOLEAN /\ searches \in 0 .. MaxSearches
    /\ \A h \in held : 1 <= -h.id /\ -h.id <= Len(cache)
    /\ run # Nil => \A n \in run.s.open \cup {run.s.top} : n.at \in Cells

\* The call in progress goes on with a search that has answered before.
Again == run.id \in ended

\* The loop takes open.top() without asking whether there is one (:145, :213,
\* :298): the node it looks at is in the heap of its search, also when the
\* search was put away and resumed in between.  Only a caller that resumes a
\* search which has answered may find its heap empty.
SafeTop == /\ run # Nil => run.s.top \in run.s.open
           /\ Undefined => ans.id \in ended

NextTo(i) == {Around(i)[k] : k \in 1 .. 8} \cap Cells

FoundNow == ans' # ans /\ ans' # Nil /\ ans'.kind = "path"

\* A path, also one that comes from a resumed search, answers what the caller
\* asked: it begins at the start, ends at a goal and goes from neighbour to
\* neighbour.  It meets no cell twice and enters no cell that is blocked,
\* although the map may have changed since the search was put away; but one
\* that is resumed again after it has answered may come back to a cell, and
\* may enter a blocked one whose height has been changed.
WalkablePath == [][FoundNow =>
    LET p == ans'.path  q == run.asked
    IN  /\ p[1] = q.start /\ p[Len(p)] \in Goals(q)
        /\ \A k \in 1 .. Len(p) - 1 : p[k+1] \in NextTo(p[k])
        /\ ~Again => \A j, k \in DOMAIN p : p[j] = p[k] => j = k
        /\ \A k \in 2 .. Len(p) : height[p[k]] >= 0 \/ (Again /\ p[k] \in touched)]_vars
=============================================================================
