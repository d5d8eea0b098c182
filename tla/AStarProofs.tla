---------------------------- MODULE AStarProofs -----------------------------
(***************************************************************************)
(* The path finder, for a map of any size.  First its arithmetic: which    *)
(* integer stands for which edge, and why the heuristic is safe.  Then its *)
(* searches: none, however often it is put away and resumed, asks an empty *)
(* heap for its top before it has answered, as a search that is put away   *)
(* has something left to expand until then.                                *)
(***************************************************************************)
EXTENDS AStar, TLAPS

LEMMA SizeIsPositive == Len0 \in Nat \ {0}
  BY GridAssumption DEF Len0

\* A number has one quotient and one remainder.
LEMMA DigitsUnique ==
    ASSUME NEW n \in Nat \ {0}, NEW a \in Nat, NEW b \in 0 .. n-1,
           NEW c \in Nat, NEW d \in 0 .. n-1, a * n + b = c * n + d
    PROVE  a = c /\ b = d
<1>1. a * n \in Nat /\ c * n \in Nat
  OBVIOUS
<1>2. ASSUME NEW x \in Nat, NEW y \in Nat, x < y
      PROVE  x * n + n <= y * n
  <2>1. PICK z \in Nat : y = x + 1 + z
    <3>1. y - x - 1 \in Nat /\ y = x + 1 + (y - x - 1)
      BY <1>2
    <3> QED
      BY <3>1
  <2>2. y * n = x * n + n + z * n
    BY <2>1
  <2>3. z * n \in Nat /\ x * n \in Nat
    OBVIOUS
  <2> QED
    BY <2>2, <2>3
<1>3. ~(a < c)
  <2> SUFFICES ASSUME a < c PROVE FALSE
    OBVIOUS
  <2>1. a * n + n <= c * n
    BY <1>2
  <2> QED
    BY <1>1, <2>1
<1>4. ~(c < a)
  <2> SUFFICES ASSUME c < a PROVE FALSE
    OBVIOUS
  <2>1. c * n + n <= a * n
    BY <1>2
  <2> QED
    BY <1>1, <2>1
<1>5. a = c
  BY <1>3, <1>4
<1> QED
  BY <1>1, <1>5

\* AddClose and IsInClose (Navigation.h:65-94) speak of the same edge exactly
\* when their integers are equal, whichever end comes first.
THEOREM EdgeKeyInjective ==
    ASSUME NEW i \in Cells, NEW j \in Cells, NEW k \in Cells, NEW l \in Cells
    PROVE  EdgeKey(i, j) = EdgeKey(k, l) <=> {i, j} = {k, l}
<1> DEFINE hi(x, y) == IF x > y THEN x ELSE y
           lo(x, y) == IF x > y THEN y ELSE x
<1>1. Len0 \in Nat \ {0}
  BY SizeIsPositive
<1>2. Cells = 0 .. Len0 - 1
  BY DEF Cells
<1>3. ASSUME NEW x \in Cells, NEW y \in Cells
      PROVE  /\ EdgeKey(x, y) = hi(x, y) * Len0 + lo(x, y)
             /\ hi(x, y) \in Cells /\ lo(x, y) \in Cells
             /\ {hi(x, y), lo(x, y)} = {x, y}
             /\ hi(x, y) >= lo(x, y)
  <2>1. x \in Int /\ y \in Int
    BY <1>1, <1>2
  <2>2. CASE x > y
    BY <2>1, <2>2 DEF EdgeKey
  <2>3. CASE ~(x > y)
    BY <2>1, <2>3 DEF EdgeKey
  <2> QED
    BY <2>2, <2>3
<1>4. ASSUME EdgeKey(i, j) = EdgeKey(k, l)
      PROVE  {i, j} = {k, l}
  <2>1. hi(i, j) * Len0 + lo(i, j) = hi(k, l) * Len0 + lo(k, l)
    BY <1>3, <1>4
  <2>2. /\ hi(i, j) \in Nat /\ hi(k, l) \in Nat
        /\ lo(i, j) \in 0 .. Len0 - 1 /\ lo(k, l) \in 0 .. Len0 - 1
    <3>1. hi(i, j) \in Cells /\ hi(k, l) \in Cells /\ lo(i, j) \in Cells /\ lo(k, l) \in Cells
      <4> HIDE DEF hi, lo
      <4> QED
        BY <1>3
    <3> HIDE DEF hi, lo
    <3> QED
      BY <1>1, <1>2, <3>1
  <2>3. hi(i, j) = hi(k, l) /\ lo(i, j) = lo(k, l)
    <3> HIDE DEF hi, lo
    <3> QED
      BY <1>1, <2>1, <2>2, DigitsUnique
  <2> HIDE DEF hi, lo
  <2> QED
    BY <1>3, <2>3
<1>5. ASSUME {i, j} = {k, l}
      PROVE  EdgeKey(i, j) = EdgeKey(k, l)
  <2>1. (i = k /\ j = l) \/ (i = l /\ j = k)
    BY <1>5
  <2>2. i \in Int /\ j \in Int
    BY <1>1, <1>2
  <2>3. EdgeKey(i, j) = EdgeKey(j, i)
    <3>1. CASE i > j
      BY <2>2, <3>1 DEF EdgeKey
    <3>2. CASE j > i
      BY <2>2, <3>2 DEF EdgeKey
    <3>3. CASE i = j
      BY <3>3
    <3> QED
      BY <2>2, <3>1, <3>2, <3>3
  <2> QED
    BY <2>1, <2>3
<1> QED
  BY <1>4, <1>5

\* The integer of an edge is below the square of the number of cells: with the
\* int of the code this is what bounds the size of a map.
THEOREM EdgeKeyFits ==
    ASSUME NEW i \in Cells, NEW j \in Cells
    PROVE  EdgeKey(i, j) \in 0 .. Len0 * Len0 - 1
<1>1. Len0 \in Nat \ {0} /\ i \in 0 .. Len0 - 1 /\ j \in 0 .. Len0 - 1
  BY SizeIsPositive DEF Cells
<1>2. ASSUME NEW x \in 0 .. Len0 - 1, NEW y \in 0 .. Len0 - 1
      PROVE  x * Len0 + y \in 0 .. Len0 * Len0 - 1
  <2>1. PICK z \in Nat : Len0 = x + 1 + z
    <3>1. Len0 - x - 1 \in Nat /\ Len0 = x + 1 + (Len0 - x - 1)
      BY <1>1, <1>2
    <3> QED
      BY <3>1
  <2>2. Len0 * Len0 = x * Len0 + Len0 + z * Len0
    <3> DEFINE n == Len0
    <3>1. n * n = (x + 1 + z) * n
      BY <2>1
    <3>2. n \in Nat /\ x \in Nat /\ z \in Nat
      BY <1>1, <1>2
    <3> HIDE DEF n
    <3>3. (x + 1 + z) * n = x * n + n + z * n
      BY <3>2
    <3>4. n * n = x * n + n + z * n
      BY <3>1, <3>3
    <3> QED
      BY <3>4 DEF n
  <2>3. z * Len0 \in Nat /\ x * Len0 \in Nat /\ Len0 * Len0 \in Nat
    BY <1>1, <1>2, <2>1
  <2> HIDE DEF Len0
  <2> QED
    BY <1>1, <1>2, <2>2, <2>3
<1> QED
  BY <1>1, <1>2 DEF EdgeKey

\* The octile distance of two offsets never exceeds that by way of a third
\* point (all that ExpectDistance, Navigation.h:96-102, needs to be consistent).
LEMMA OctileTriangle ==
    ASSUME NEW x1 \in Int, NEW y1 \in Int, NEW x2 \in Int, NEW y2 \in Int
    PROVE  LET oct(x, y) == Least(Abs(x), Abs(y)) * 14 + Abs(Abs(x) - Abs(y)) * 10
           IN  oct(x1 + x2, y1 + y2) <= oct(x1, y1) + oct(x2, y2)
  BY Z3T(60) DEF Least, Abs

\* The heuristic is consistent: what is expected from i is at most the step to
\* j plus what is expected from j, for any two cells, the neighbours across
\* the border of a row included.
THEOREM HeuristicConsistent ==
    ASSUME NEW i \in Cells, NEW j \in Cells, NEW e \in Cells
    PROVE  ExpectDistance(i, e) <= ExpectDistance(i, j) + ExpectDistance(j, e)
<1> DEFINE oct(x, y) == Least(Abs(x), Abs(y)) * 14 + Abs(Abs(x) - Abs(y)) * 10
<1>1. ASSUME NEW a \in Cells
      PROVE  GetX(a) \in Int /\ GetY(a) \in Int
  BY GridAssumption, SizeIsPositive DEF Cells, GetX, GetY
<1>2. ASSUME NEW a \in Cells, NEW b \in Cells
      PROVE  ExpectDistance(a, b) = oct(GetX(a) - GetX(b), GetY(a) - GetY(b))
  BY DEF ExpectDistance
<1> DEFINE x1 == GetX(i) - GetX(j)
           y1 == GetY(i) - GetY(j)
           x2 == GetX(j) - GetX(e)
           y2 == GetY(j) - GetY(e)
<1>3. /\ x1 \in Int /\ y1 \in Int /\ x2 \in Int /\ y2 \in Int
      /\ x1 + x2 = GetX(i) - GetX(e) /\ y1 + y2 = GetY(i) - GetY(e)
  <2>1. /\ GetX(i) \in Int /\ GetX(j) \in Int /\ GetX(e) \in Int
        /\ GetY(i) \in Int /\ GetY(j) \in Int /\ GetY(e) \in Int
    BY <1>1
  <2> QED
    BY <2>1
<1>4. oct(x1 + x2, y1 + y2) <= oct(x1, y1) + oct(x2, y2)
  <2> HIDE DEF x1, y1, x2, y2
  <2> QED
    BY <1>3, OctileTriangle
<1> QED
  <2>1. oct(GetX(i) - GetX(e), GetY(i) - GetY(e)) <= oct(x1, y1) + oct(x2, y2)
    <3> HIDE DEF oct
    <3> QED
      BY <1>3, <1>4
  <2> HIDE DEF oct
  <2> QED
    BY <1>2, <2>1

-----------------------------------------------------------------------------
\* The fields of a search, and a search that has a node to go on with.
Structured(s) == s = [q |-> s.q, open |-> s.open, top |-> s.top, close |-> s.close,
                      min |-> s.min]
Resumable(s) == Structured(s) /\ s.top \in s.open

CallOK == run # Nil =>
    /\ run = [s |-> run.s, timed |-> run.timed, id |-> run.id, asked |-> run.asked]
    /\ run.id \in Int /\ -run.id \in 0 .. Len(cache)
    /\ Resumable(run.s)

\* What is known of the search kept under an id, in the cache c.
KeptOK(id, c, E) == /\ id \in Int /\ -id \in 1 .. Len(c)
                    /\ Structured(c[-id])
                    /\ id \notin E => Resumable(c[-id])
HeldOK == \A h \in held : KeptOK(h.id, cache, ended)

CacheOK == \E S : cache \in Seq(S)

UndefinedOK == Undefined => ans.id \in ended

\* Only a search with an id can have ended.
EndedOK == 0 \notin ended

IInv == CacheOK /\ CallOK /\ HeldOK /\ UndefinedOK /\ EndedOK

\* Putting the search in progress back leaves the other cached ones alone.
LEMMA KeepOthers ==
    ASSUME IInv, run # Nil, NEW s
    PROVE  /\ \E S : Keep(s) \in Seq(S)
           /\ Len(Keep(s)) = Len(cache)
           /\ \A h \in held : h.id # run.id => Keep(s)[-h.id] = cache[-h.id]
           /\ run.id # 0 => /\ -run.id \in 1 .. Len(Keep(s))
                            /\ Keep(s)[-run.id] = s
           /\ run.id = 0 => \A h \in held : h.id # run.id
<1>1. PICK S : cache \in Seq(S)
  BY DEF IInv, CacheOK
<1>2. run.id \in Int /\ -run.id \in 0 .. Len(cache)
  BY DEF IInv, CallOK
<1>3. \A h \in held : h.id \in Int /\ -h.id \in 1 .. Len(cache)
  BY DEF IInv, HeldOK, KeptOK
<1>4. CASE run.id = 0
  <2>1. Keep(s) = cache
    BY <1>4 DEF Keep
  <2> QED
    BY <1>1, <1>3, <1>4, <2>1
<1>5. CASE run.id # 0
  <2> DEFINE k == -run.id
  <2>1. k \in 1 .. Len(cache)
    BY <1>1, <1>2, <1>5
  <2>2. Keep(s) = [cache EXCEPT ![k] = s]
    BY <1>5 DEF Keep
  <2>3. cache \in Seq(S \cup {s})
    BY <1>1
  <2>4. Keep(s) \in Seq(S \cup {s}) /\ Len(Keep(s)) = Len(cache)
    BY <2>1, <2>2, <2>3
  <2>5. Keep(s)[k] = s
    BY <1>1, <2>1, <2>2
  <2>6. ASSUME NEW h \in held, h.id # run.id PROVE Keep(s)[-h.id] = cache[-h.id]
    <3>1. -h.id # k
      BY <1>2, <1>3, <2>6
    <3> QED
      BY <1>1, <1>3, <2>2, <3>1
  <2> QED
    BY <1>5, <2>1, <2>4, <2>5, <2>6
<1> QED
  BY <1>4, <1>5

\* So all that callers hold is kept, whatever becomes of the search in progress.
LEMMA HeldStaysOK ==
    ASSUME IInv, run # Nil, NEW s, Structured(s), NEW E,
           \A h \in held : h.id \notin E => h.id \notin ended,
           run.id \notin E => Resumable(s)
    PROVE  \A h \in held : KeptOK(h.id, Keep(s), E)
<1> SUFFICES ASSUME NEW h \in held PROVE KeptOK(h.id, Keep(s), E)
  OBVIOUS
<1>1. KeptOK(h.id, cache, ended)
  BY DEF IInv, HeldOK
<1>2. CASE h.id # run.id
  BY <1>1, <1>2, KeepOthers DEF KeptOK
<1>3. CASE h.id = run.id
  BY <1>1, <1>3, KeepOthers DEF KeptOK
<1> QED
  BY <1>2, <1>3

LEMMA InitInvariant == Init => IInv
<1> SUFFICES ASSUME Init PROVE IInv
  OBVIOUS
<1>1. cache \in Seq({})
  BY DEF Init
<1> QED
  BY <1>1 DEF Init, IInv, CacheOK, CallOK, HeldOK, UndefinedOK, Undefined, EndedOK

\* A call that ends with a path or with none.
LEMMA EndInvariant ==
    ASSUME IInv, run # Nil, NEW s, Structured(s),
           cache' = Keep(s), held' = held, run' = Nil, Ends,
           ans'.kind # "undefined"
    PROVE  IInv'
<1>1. CacheOK'
  BY KeepOthers DEF CacheOK
<1>2. CallOK'
  BY DEF CallOK
<1>3. HeldOK'
  <2>1. \A h \in held : h.id \notin ended' => h.id \notin ended
    BY DEF Ends
  <2>2. \A h \in held : KeptOK(h.id, Keep(s), ended')
    <3>1. CASE run.id # 0
      <4>1. run.id \in ended'
        BY <3>1 DEF Ends
      <4> QED
        BY <2>1, <4>1, HeldStaysOK
    <3>2. CASE run.id = 0
      <4>1. ended' = ended /\ Keep(s) = cache
        BY <3>2 DEF Ends, Keep
      <4> QED
        BY <4>1 DEF IInv, HeldOK
    <3> QED
      BY <3>1, <3>2
  <2> QED
    BY <2>2 DEF HeldOK
<1>4. UndefinedOK'
  BY DEF UndefinedOK, Undefined, EndedOK
<1>5. EndedOK'
  BY DEF IInv, EndedOK, Ends
<1> QED
  BY <1>1, <1>2, <1>3, <1>4, <1>5 DEF IInv

LEMMA StopInvariant == IInv /\ Stop => IInv'
<1> SUFFICES ASSUME IInv, Stop PROVE IInv'
  OBVIOUS
<1> DEFINE s == run.s
           id == ans'.id
<1>1. /\ run # Nil /\ run' = Nil /\ held' = held \cup {[id |-> id, q |-> run.asked]}
      /\ ended' = ended
  BY DEF Stop
<1>2. run.id \in Int /\ -run.id \in 0 .. Len(cache) /\ Resumable(s) /\ Structured(s)
  BY <1>1 DEF IInv, CallOK, Resumable
<1>3. /\ CacheOK' /\ ans'.kind = "id"
      /\ KeptOK(id, cache', ended)
      /\ \A h \in held : KeptOK(h.id, cache', ended)
  <2>1. CASE run.id = 0
    <3>1. PICK S : cache \in Seq(S)
      BY DEF IInv, CacheOK
    <3>2. cache' = Append(cache, s) /\ id = -(Len(cache) + 1) /\ ans'.kind = "id"
      BY <2>1 DEF Stop, SaveCache
    <3>3. cache \in Seq(S \cup {s})
      BY <3>1
    <3>4. cache' \in Seq(S \cup {s}) /\ Len(cache') = Len(cache) + 1
          /\ cache'[Len(cache) + 1] = s
          /\ \A k \in 1 .. Len(cache) : cache'[k] = cache[k]
      BY <3>2, <3>3
    <3>5. id \in Int /\ -id = Len(cache) + 1 /\ Len(cache) \in Nat
      BY <3>1, <3>2
    <3>6. ASSUME NEW h \in held
          PROVE  KeptOK(h.id, cache', ended)
      <4>1. KeptOK(h.id, cache, ended)
        BY DEF IInv, HeldOK
      <4> QED
        BY <3>4, <3>5, <4>1 DEF KeptOK
    <3>7. KeptOK(id, cache', ended)
      <4>1. cache'[-id] = s /\ -id \in 1 .. Len(cache') /\ id \in Int
        BY <3>4, <3>5
      <4> HIDE DEF s, id
      <4> QED
        BY <1>2, <4>1 DEF KeptOK
    <3> QED
      BY <3>2, <3>4, <3>6, <3>7 DEF CacheOK
  <2>2. CASE run.id # 0
    <3>1. cache' = Keep(s) /\ id = run.id /\ ans'.kind = "id"
      BY <2>2 DEF Stop
    <3>2. \A h \in held : KeptOK(h.id, cache', ended)
      BY <1>1, <1>2, <3>1, HeldStaysOK
    <3>3. KeptOK(id, cache', ended)
      <4>1. cache'[-id] = s /\ -id \in 1 .. Len(cache') /\ id \in Int
        BY <1>1, <1>2, <2>2, <3>1, KeepOthers
      <4> HIDE DEF s, id
      <4> QED
        BY <1>2, <4>1 DEF KeptOK
    <3> QED
      BY <1>1, <3>1, <3>2, <3>3, KeepOthers DEF CacheOK
  <2> QED
    BY <2>1, <2>2
<1>4. HeldOK'
  <2> SUFFICES ASSUME NEW h \in held' PROVE KeptOK(h.id, cache', ended)
    BY <1>1 DEF HeldOK
  <2>1. CASE h \in held
    BY <1>3, <2>1
  <2>2. CASE h = [id |-> id, q |-> run.asked]
    BY <1>3, <2>2
  <2> QED
    BY <1>1, <2>1, <2>2
<1>5. UndefinedOK'
  BY <1>3 DEF UndefinedOK, Undefined, EndedOK
<1> QED
  BY <1>1, <1>3, <1>4, <1>5 DEF IInv, CallOK, EndedOK

\* What BFS has closed and left alone, in terms of the fields of the search.
LEMMA RelaxedFields ==
    ASSUME NEW s, Resumable(s), NEW near
    PROVE  \E open, min :
             /\ Relaxed(s, near) =
                  [q |-> s.q, open |-> open, top |-> s.top, min |-> min,
                   close |-> s.close \cup {EdgeKey(s.top.at, Around(s.top.at)[k]) : k \in near}]
             /\ \A n \in open :
                  \/ n \in s.open
                  \/ \E k \in near : /\ n.at = Around(s.top.at)[k]
                                     /\ n.path = Append(s.top.path, Around(s.top.at)[k])
<1> DEFINE o == s.top
           nodes == {Node(j, o.walk + CalcuDistance(o.at, j), s.q, Append(o.path, j)) :
                        j \in {Around(o.at)[k] : k \in near}}
           new == {n \in nodes : Better(s, n)}
           open == (s.open \ {o}) \cup new
           close == s.close \cup {EdgeKey(o.at, Around(o.at)[k]) : k \in near}
           min == [c \in Cells |-> IF \E n \in new : n.at = c
                                   THEN (CHOOSE n \in new : n.at = c).walk ELSE s.min[c]]
<1>1. Relaxed(s, near) = [s EXCEPT !.open = open, !.close = close, !.min = min]
  BY DEF Relaxed
<1>2. ASSUME NEW n \in open
      PROVE  \/ n \in s.open
             \/ \E k \in near : n.at = Around(o.at)[k] /\ n.path = Append(o.path, Around(o.at)[k])
  <2>1. CASE n \in nodes
    <3>1. PICK k \in near : n = Node(Around(o.at)[k], o.walk + CalcuDistance(o.at, Around(o.at)[k]),
                                     s.q, Append(o.path, Around(o.at)[k]))
      BY <2>1
    <3> QED
      BY <3>1 DEF Node
  <2> QED
    BY <2>1
<1> HIDE DEF open, min, nodes, new
<1>3. s = [q |-> s.q, open |-> s.open, top |-> s.top, close |-> s.close, min |-> s.min]
  BY DEF Resumable, Structured
<1>4. Relaxed(s, near) = [q |-> s.q, open |-> open, top |-> s.top, min |-> min, close |-> close]
  BY <1>1, <1>3
<1> QED
  BY <1>2, <1>4

\* BFS leaves a search that asks what it asked, and looks at the same node.
LEMMA RelaxedStructured ==
    ASSUME NEW s, Resumable(s), NEW near, NEW r, r = Relaxed(s, near)
    PROVE  /\ r = [q |-> s.q, open |-> r.open, top |-> s.top, close |-> r.close, min |-> r.min]
           /\ Structured(r)
<1> DEFINE close == s.close \cup {EdgeKey(s.top.at, Around(s.top.at)[k]) : k \in near}
<1>1. PICK open, min : r = [q |-> s.q, open |-> open, top |-> s.top, min |-> min, close |-> close]
  <2>1. \E open, min : Relaxed(s, near) = [q |-> s.q, open |-> open, top |-> s.top, min |-> min,
                                           close |-> close]
    BY RelaxedFields
  <2> HIDE DEF close
  <2> QED
    BY <2>1
<1> HIDE DEF close
<1> QED
  BY <1>1 DEF Structured

LEMMA ExpandInvariant == IInv /\ Expand => IInv'
<1> SUFFICES ASSUME IInv, Expand PROVE IInv'
  OBVIOUS
<1>1. run # Nil /\ Resumable(run.s)
  BY DEF Expand, IInv, CallOK
<1> DEFINE near == GetOpensWithNear(run.s.top.at, run.s.close)
           next == Relaxed(run.s, near)
           goon == /\ \E t \in Tops(next.open) :
                         run' = [run EXCEPT !.s = [next EXCEPT !.top = t]]
                   /\ UNCHANGED <<ground, cache, late, ans, held, ended, touched, searches, updates>>
<1>2. \/ \E p, few : Found(p, Relaxed(run.s, few))
      \/ NotFound(next)
      \/ goon
  BY DEF Expand
<1>3. ASSUME NEW p, NEW few, Found(p, Relaxed(run.s, few)) PROVE IInv'
  <2> DEFINE r == Relaxed(run.s, few)
  <2>1. Structured(r)
    BY <1>1, RelaxedStructured
  <2>2. cache' = Keep(r) /\ held' = held /\ run' = Nil /\ Ends /\ ans'.kind = "path"
    BY <1>3 DEF Found
  <2> HIDE DEF r
  <2> QED
    BY <1>1, <2>1, <2>2, EndInvariant
<1>4. CASE NotFound(next)
  <2>1. Structured(next)
    <3> HIDE DEF near
    <3> QED
      BY <1>1, RelaxedStructured
  <2>2. cache' = Keep(next) /\ held' = held /\ run' = Nil /\ Ends /\ ans'.kind = "none"
    BY <1>4 DEF NotFound
  <2> HIDE DEF next
  <2> QED
    BY <1>1, <2>1, <2>2, EndInvariant
<1>5. CASE goon
  <2>1. PICK t \in Tops(next.open) : run' = [run EXCEPT !.s = [next EXCEPT !.top = t]]
    BY <1>5
  <2>2. /\ run = [s |-> run.s, timed |-> run.timed, id |-> run.id, asked |-> run.asked]
        /\ run.id \in Int /\ -run.id \in 0 .. Len(cache)
    BY <1>1 DEF IInv, CallOK
  <2>3. t \in next.open
    BY <2>1 DEF Tops
  <2> DEFINE open == next.open
             min == next.min
             close == next.close
  <2>4. next = [q |-> run.s.q, open |-> open, top |-> run.s.top, close |-> close, min |-> min]
    <3> HIDE DEF near
    <3> QED
      BY <1>1, RelaxedStructured
  <2> HIDE DEF next
  <2>5. run' = [s |-> [q |-> run.s.q, open |-> open, top |-> t,
                       close |-> close, min |-> min],
                timed |-> run.timed, id |-> run.id, asked |-> run.asked]
    <3>1. [next EXCEPT !.top = t] = [q |-> run.s.q, open |-> open, top |-> t,
                       close |-> close, min |-> min]
      BY <2>4
    <3> QED
      BY <2>1, <2>2, <3>1
  <2>6. t \in open
    BY <2>3, <2>4
  <2>7. cache' = cache /\ held' = held /\ ended' = ended /\ ans' = ans
    BY <1>5
  <2>8. CallOK'
    BY <2>2, <2>5, <2>6, <2>7 DEF CallOK, Resumable, Structured
  <2> QED
    BY <2>7, <2>8 DEF IInv, CacheOK, HeldOK, KeptOK, Structured, Resumable, UndefinedOK, Undefined, EndedOK
<1> QED
  <2> HIDE DEF goon, next
  <2> QED
    BY <1>2, <1>3, <1>4, <1>5

\* What ResumeSearch goes on with: the search kept under the id, or nothing.
LEMMA ResumedIs ==
    ASSUME IInv, NEW h \in held, NEW timed, Resume(h, timed)
    PROVE  /\ UNCHANGED <<ground, cache, held, ended, touched>>
           /\ \/ /\ run' = run /\ run = Nil /\ cache[-h.id].open = {} /\ h.id \in ended
                 /\ ans' = [kind |-> "undefined", path |-> <<>>, id |-> h.id]
              \/ \E t \in cache[-h.id].open :
                    /\ run' = [s |-> [cache[-h.id] EXCEPT !.top = t],
                               timed |-> timed, id |-> h.id, asked |-> h.q]
                    /\ ans' = Nil
<1>1. KeptOK(h.id, cache, ended)
  BY DEF IInv, HeldOK
<1>2. h.id \in Int /\ -h.id \in 1 .. Len(cache) /\ Len(cache) \in Nat
  BY <1>1 DEF KeptOK, IInv, CacheOK
<1>3. SaveId(h.id) \in 0 .. Len(cache) - 1 /\ SaveId(h.id) + 1 = -h.id
  BY <1>2 DEF SaveId
<1>4. cache[-h.id].open = {} => h.id \in ended
  BY <1>1 DEF KeptOK, Resumable
<1> QED
  BY <1>2, <1>3, <1>4 DEF Resume, Ready, Tops

LEMMA CallInvariant ==
    ASSUME IInv,
           \/ \E q \in Queries, timed \in Durations : Search(q, timed)
           \/ \E h \in held, timed \in Durations : Resume(h, timed)
    PROVE  IInv'
<1>1. ASSUME NEW q \in Queries, NEW timed \in Durations, Search(q, timed)
      PROVE  IInv'
  <2>1. cache' = cache /\ held' = held /\ ended' = ended /\ ans' = Nil
    BY <1>1 DEF Search
  <2> DEFINE d == Node(q.start, 0, q, <<q.start>>)
  <2>2. run' = [s |-> [q |-> q, open |-> {d}, top |-> d, close |-> {},
                       min |-> NewMin],
                timed |-> timed, id |-> 0, asked |-> q]
    BY <1>1 DEF Search
  <2> HIDE DEF d
  <2>3. Len(cache) \in Nat
    BY DEF IInv, CacheOK
  <2> DEFINE s == [q |-> q, open |-> {d}, top |-> d, close |-> {},
                   min |-> NewMin]
  <2>4. s.top = d /\ s.open = {d}
    OBVIOUS
  <2>5. Structured(s)
    BY DEF Structured
  <2>6. Resumable(s)
    <3>1. s.top \in s.open
      BY <2>4
    <3> QED
      BY <2>5, <3>1 DEF Resumable
  <2>7. run' = [s |-> s, timed |-> timed, id |-> 0, asked |-> q]
    BY <2>2
  <2> HIDE DEF s
  <2>8. /\ run'.s = s /\ run'.id = 0
        /\ run' = [s |-> run'.s, timed |-> run'.timed, id |-> run'.id, asked |-> run'.asked]
    BY <2>7
  <2>9. Resumable(run'.s)
    BY <2>6, <2>8
  <2>10. CallOK'
    <3>1. run'.id \in Int /\ -run'.id \in 0 .. Len(cache)
      BY <2>3, <2>8
    <3> QED
      BY <2>1, <2>8, <2>9, <3>1 DEF CallOK, Resumable, Structured
  <2> QED
    BY <2>1, <2>10 DEF IInv, CacheOK, HeldOK, KeptOK, Resumable, Structured, UndefinedOK, Undefined, EndedOK
<1>2. ASSUME NEW h \in held, NEW timed \in Durations, Resume(h, timed)
      PROVE  IInv'
  <2>1. KeptOK(h.id, cache, ended)
    BY DEF IInv, HeldOK
  <2>2. cache' = cache /\ held' = held /\ ended' = ended
    BY <1>2, ResumedIs
  <2>3. CASE ans' = [kind |-> "undefined", path |-> <<>>, id |-> h.id] /\ h.id \in ended /\ run' = run /\ run = Nil
    BY <2>2, <2>3 DEF IInv, CacheOK, CallOK, HeldOK, KeptOK, Resumable, Structured, UndefinedOK, Undefined, EndedOK
  <2>4. ASSUME NEW t \in cache[-h.id].open, ans' = Nil,
               run' = [s |-> [cache[-h.id] EXCEPT !.top = t],
                       timed |-> timed, id |-> h.id, asked |-> h.q]
        PROVE  IInv'
    <3> DEFINE c == cache[-h.id]
               s == [c EXCEPT !.top = t]
    <3>1. c = [q |-> c.q, open |-> c.open, top |-> c.top, close |-> c.close, min |-> c.min]
      BY <2>1 DEF KeptOK, Structured
    <3>2. t \in c.open
      BY <2>4
    <3> HIDE DEF c
    <3>3. s = [q |-> c.q, open |-> c.open, top |-> t, close |-> c.close, min |-> c.min]
      BY <3>1
    <3> HIDE DEF s
    <3>4. Resumable(s)
      BY <3>2, <3>3 DEF Resumable, Structured
    <3>5. run' = [s |-> s, timed |-> timed, id |-> h.id, asked |-> h.q]
      BY <2>4 DEF s, c
    <3>6. CallOK'
      <4>1. /\ run'.s = s /\ run'.id = h.id
            /\ run' = [s |-> run'.s, timed |-> run'.timed, id |-> run'.id, asked |-> run'.asked]
        BY <3>5
      <4>2. run'.id \in Int /\ -run'.id \in 0 .. Len(cache')
        BY <2>1, <2>2, <4>1 DEF KeptOK
      <4>3. Resumable(run'.s)
        BY <3>4, <4>1
      <4> QED
        BY <4>1, <4>2, <4>3 DEF CallOK, Resumable, Structured
    <3> QED
      BY <2>2, <2>4, <3>6 DEF IInv, CacheOK, HeldOK, KeptOK, Resumable, Structured, UndefinedOK, Undefined, EndedOK
  <2> QED
    BY <1>2, <2>3, <2>4, ResumedIs
<1> QED
  BY <1>1, <1>2

LEMMA NextInvariant == IInv /\ [Next]_vars => IInv'
<1> SUFFICES ASSUME IInv, [Next]_vars PROVE IInv'
  OBVIOUS
<1>1. CASE \/ \E q \in Queries, timed \in Durations : Search(q, timed)
           \/ \E h \in held, timed \in Durations : Resume(h, timed)
  BY <1>1, CallInvariant
<1>2. CASE Return
  <2>1. run # Nil /\ Structured(run.s)
    BY <1>2 DEF Return, IInv, CallOK, Resumable
  <2> DEFINE s == run.s
  <2>2. cache' = Keep(s) /\ held' = held /\ run' = Nil /\ Ends /\ ans'.kind = "path"
    BY <1>2 DEF Return, Found
  <2>3. Structured(s)
    BY <2>1
  <2> HIDE DEF s
  <2> QED
    BY <2>1, <2>2, <2>3, EndInvariant
<1>3. CASE Stop
  BY <1>3, StopInvariant
<1>4. CASE Expand
  BY <1>4, ExpandInvariant
<1>5. ASSUME UNCHANGED <<run, cache, held, ans, ended>> PROVE IInv'
  BY <1>5 DEF IInv, CacheOK, CallOK, HeldOK, KeptOK, Resumable, Structured, UndefinedOK, Undefined, EndedOK
<1>6. CASE \/ Deadline \/ Finished
           \/ \E c \in Cells, h \in Heights : UpdateHeight(c, h)
           \/ \E c \in Cells : UpdateFlag(c)
  BY <1>5, <1>6 DEF Deadline, UpdateHeight, UpdateFlag, Finished, vars
<1>7. CASE UNCHANGED vars
  BY <1>5, <1>7 DEF vars
<1> QED
  BY <1>1, <1>2, <1>3, <1>4, <1>6, <1>7 DEF Next

\* The node BFS takes is in its heap (AStarNavigation.h:145, :213, :298), and
\* only an id whose search has answered may be resumed with an empty heap (:546):
\* for any map, any queries and any order of searches, resumptions, also of
\* searches that have answered, and updates.
THEOREM HeapNeverEmpty == Spec => []SafeTop
<1>1. IInv => SafeTop
  BY DEF IInv, CallOK, Resumable, UndefinedOK, SafeTop
<1> QED
  BY <1>1, InitInvariant, NextInvariant, PTL DEF Spec

-----------------------------------------------------------------------------
(* The deadline is compared the wrong way round (AStarNavigation.h:215), so *)
(* that of the searches that have not answered only those are put away that *)
(* have expanded nothing: what a caller resumes knows nothing yet of a map  *)
(* that may have changed.  Of those that have answered less is known: their *)
(* heaps hold trails, which were free to walk when they were laid.          *)

\* Every edge from c to a cell one can walk on is closed; h are the heights.
Expanded(c, close, h) == \A j \in NextTo(c) : h[j] >= 0 => EdgeKey(c, j) \in close

GoalsIn(q, F) == IF q.kind = "Flag" THEN F ELSE q.goals

\* p is a way from the start of s that meets no goal and no cell twice before
\* its end, over cells that have been expanded.
IsWay(p, s, h, F) ==
    LET n == Len(p)
    IN  /\ p \in Seq(Cells) /\ n > 0 /\ p[1] = s.q.start
        /\ \A k \in 1 .. n - 1 : p[k + 1] \in NextTo(p[k])
        /\ \A k \in 2 .. n : h[p[k]] >= 0
        /\ \A k \in 1 .. n - 1 : p[k] \notin GoalsIn(s.q, F) /\ Expanded(p[k], s.close, h)
        /\ \A j, k \in 1 .. n - 1 : p[j] = p[k] => j = k

Sound(s, h, F) == /\ s.q \in Queries
                  /\ \A n \in s.open : IsWay(n.path, s, h, F) /\ n.at = n.path[Len(n.path)]

\* p leads from the start of q from neighbour to neighbour; a cell of it that is
\* blocked has been changed since, T being the cells that ever were.
IsTrail(p, q, h, T) ==
    /\ p \in Seq(Cells) /\ Len(p) > 0 /\ p[1] = q.start
    /\ \A k \in 1 .. Len(p) - 1 : p[k + 1] \in NextTo(p[k])
    /\ \A k \in 2 .. Len(p) : h[p[k]] >= 0 \/ p[k] \in T

Trails(s, h, T) == /\ s.q \in Queries
                   /\ \A n \in s.open : IsTrail(n.path, s.q, h, T) /\ n.at = n.path[Len(n.path)]

\* What Search leaves for the loop.
Unstarted(s) == /\ s.q \in Queries
                /\ \A n \in s.open : n.path = <<s.q.start>> /\ n.at = s.q.start

RunSound == run # Nil =>
    /\ run.asked = run.s.q /\ Trails(run.s, height, touched)
    /\ ~Again => /\ Sound(run.s, height, flagged)
                 /\ run.timed /\ ~late => Unstarted(run.s)

KeptSound(h, c, E, g, T) == /\ h.q = c[-h.id].q /\ Trails(c[-h.id], g, T)
                            /\ h.id \notin E => Unstarted(c[-h.id])
HeldSound == \A h \in held : KeptSound(h, cache, ended, height, touched)

\* The caller that resumes an id asked for what is kept under it.
AskedIsKept == run # Nil => \A h \in held : h.id = run.id => h.q = run.s.q

WayInv == IInv /\ RunSound /\ HeldSound /\ AskedIsKept

LEMMA UnstartedIsTrails ==
    ASSUME NEW s, NEW h, NEW T, Unstarted(s) PROVE Trails(s, h, T)
<1>1. s.q \in Queries /\ s.q.start \in Cells
  BY AStarAssumption DEF Unstarted
<1>2. ASSUME NEW n \in s.open
      PROVE  IsTrail(n.path, s.q, h, T) /\ n.at = n.path[Len(n.path)]
  <2>1. n.path = <<s.q.start>> /\ n.at = s.q.start
    BY DEF Unstarted
  <2>2. /\ n.path \in Seq(Cells) /\ Len(n.path) = 1 /\ n.path[1] = s.q.start
    BY <1>1, <2>1
  <2>3. 1 .. 1 - 1 = {} /\ 2 .. 1 = {}
    OBVIOUS
  <2> QED
    BY <2>1, <2>2, <2>3 DEF IsTrail
<1> QED
  BY <1>1, <1>2 DEF Trails

LEMMA UnstartedIsSound ==
    ASSUME NEW s, NEW h, NEW F, Unstarted(s) PROVE Sound(s, h, F)
<1>1. s.q \in Queries /\ s.q.start \in Cells
  BY AStarAssumption DEF Unstarted
<1>2. ASSUME NEW n \in s.open
      PROVE  IsWay(n.path, s, h, F) /\ n.at = n.path[Len(n.path)]
  <2>1. n.path = <<s.q.start>> /\ n.at = s.q.start
    BY DEF Unstarted
  <2>2. /\ n.path \in Seq(Cells) /\ Len(n.path) = 1 /\ n.path[1] = s.q.start
    BY <1>1, <2>1
  <2>3. 1 .. 1 - 1 = {} /\ 2 .. 1 = {}
    OBVIOUS
  <2> QED
    BY <2>1, <2>2, <2>3 DEF IsWay
<1> QED
  BY <1>1, <1>2 DEF Sound

\* A step onto a neighbour that is open to walk on, from a cell that is no goal
\* and whose edges are all closed afterwards, prolongs a way.
LEMMA WayGoesOn ==
    ASSUME NEW s, NEW p, IsWay(p, s, height, flagged), NEW i \in Cells, i = p[Len(p)], i \notin GoalsIn(s.q, flagged),
           NEW k \in GetOpensWithNear(i, s.close),
           NEW t, t.q = s.q, s.close \subseteq t.close, Expanded(i, t.close, height)
    PROVE  IsWay(Append(p, Around(i)[k]), t, height, flagged)
<1> DEFINE n == Len(p)
           j == Around(i)[k]
           w == Append(p, j)
<1>1. j \in Cells /\ EdgeKey(i, j) \notin s.close /\ height[j] >= 0 /\ j \in NextTo(i)
  BY DEF GetOpensWithNear, NextTo
<1>2. p \in Seq(Cells) /\ n \in Nat \ {0}
  BY DEF IsWay
<1> HIDE DEF j
<1>3. /\ w \in Seq(Cells) /\ Len(w) = n + 1 /\ w[n + 1] = j
      /\ \A m \in 1 .. n : w[m] = p[m]
  BY <1>1, <1>2
<1> HIDE DEF w
<1>4. ~Expanded(i, s.close, height)
  BY <1>1 DEF Expanded
<1>5. \A m \in 1 .. n - 1 : p[m] # i
  BY <1>4 DEF IsWay
<1>6. \A m \in 1 .. n - 1 : w[m + 1] \in NextTo(w[m])
  BY <1>2, <1>3 DEF IsWay
<1>7. w[n + 1] \in NextTo(w[n])
  BY <1>1, <1>2, <1>3
<1>8. \A m \in 2 .. n + 1 : height[w[m]] >= 0
  BY <1>1, <1>2, <1>3 DEF IsWay
<1>9. \A m \in 1 .. n : w[m] \notin GoalsIn(t.q, flagged) /\ Expanded(w[m], t.close, height)
  <2> SUFFICES ASSUME NEW m \in 1 .. n
               PROVE  p[m] \notin GoalsIn(t.q, flagged) /\ Expanded(p[m], t.close, height)
    BY <1>3
  <2>1. CASE m = n
    BY <2>1
  <2>2. CASE m \in 1 .. n - 1
    BY <2>2 DEF IsWay, Expanded
  <2> QED
    BY <1>2, <2>1, <2>2
<1>10. \A m, o \in 1 .. n : w[m] = w[o] => m = o
  BY <1>2, <1>3, <1>5 DEF IsWay
<1>11. w[1] = t.q.start
  BY <1>2, <1>3 DEF IsWay
<1>12. n + 1 - 1 = n /\ n + 1 > 0
  BY <1>2
<1>13. \A m \in 1 .. n : w[m + 1] \in NextTo(w[m])
  BY <1>2, <1>6, <1>7
<1> HIDE DEF n
<1>14. IsWay(w, t, height, flagged)
  <2>1. Len(w) = n + 1 /\ Len(w) - 1 = n /\ Len(w) > 0
    BY <1>2, <1>3
  <2>2. /\ \A m \in 1 .. Len(w) - 1 : w[m + 1] \in NextTo(w[m])
        /\ \A m \in 1 .. Len(w) - 1 : w[m] \notin GoalsIn(t.q, flagged) /\ Expanded(w[m], t.close, height)
        /\ \A m, o \in 1 .. Len(w) - 1 : w[m] = w[o] => m = o
    BY <2>1, <1>9, <1>10, <1>13
  <2>3. \A m \in 2 .. Len(w) : height[w[m]] >= 0
    BY <2>1, <1>8
  <2> QED
    BY <1>3, <1>11, <2>1, <2>2, <2>3 DEF IsWay
<1> QED
  BY <1>14 DEF w, j

\* A step onto a neighbour that can be walked on prolongs a trail.
LEMMA TrailGoesOn ==
    ASSUME NEW q, NEW T, NEW p, IsTrail(p, q, height, T), NEW i, i = p[Len(p)],
           NEW close, NEW k \in GetOpensWithNear(i, close)
    PROVE  IsTrail(Append(p, Around(i)[k]), q, height, T)
<1> DEFINE n == Len(p)
           j == Around(i)[k]
           w == Append(p, j)
<1>1. j \in Cells /\ height[j] >= 0 /\ j \in NextTo(p[n])
  BY DEF GetOpensWithNear, NextTo
<1>2. p \in Seq(Cells) /\ n \in Nat \ {0}
  BY DEF IsTrail
<1> HIDE DEF j
<1>3. /\ w \in Seq(Cells) /\ Len(w) = n + 1 /\ w[n + 1] = j
      /\ \A m \in 1 .. n : w[m] = p[m]
  BY <1>1, <1>2
<1> HIDE DEF w
<1>4. \A m \in 1 .. n : w[m + 1] \in NextTo(w[m])
  <2> SUFFICES ASSUME NEW m \in 1 .. n PROVE w[m + 1] \in NextTo(w[m])
    OBVIOUS
  <2>1. CASE m = n
    BY <1>1, <1>3, <2>1
  <2>2. CASE m \in 1 .. n - 1
    <3>1. p[m + 1] \in NextTo(p[m])
      BY <2>2 DEF IsTrail
    <3>2. w[m + 1] = p[m + 1] /\ w[m] = p[m]
      BY <1>2, <1>3, <2>2
    <3> QED
      BY <3>1, <3>2
  <2> QED
    BY <1>2, <2>1, <2>2
<1>5. \A m \in 2 .. n + 1 : height[w[m]] >= 0 \/ w[m] \in T
  BY <1>1, <1>2, <1>3 DEF IsTrail
<1>6. w[1] = q.start
  BY <1>2, <1>3 DEF IsTrail
<1>7. Len(w) = n + 1 /\ Len(w) - 1 = n /\ Len(w) > 0
  BY <1>2, <1>3
<1> HIDE DEF n
<1>8. IsTrail(w, q, height, T)
  BY <1>3, <1>4, <1>5, <1>6, <1>7 DEF IsTrail
<1> QED
  BY <1>8 DEF w, j

\* BFS leaves trails, whether it went round all neighbours or stopped at a goal.
LEMMA RelaxedIsTrails ==
    ASSUME NEW s, Resumable(s), NEW T, Trails(s, height, T),
           NEW near \in SUBSET GetOpensWithNear(s.top.at, s.close)
    PROVE  Trails(Relaxed(s, near), height, T) /\ Relaxed(s, near).q = s.q
<1> DEFINE i == s.top.at
           t == Relaxed(s, near)
           p == s.top.path
<1>1. PICK open, min :
         /\ t = [q |-> s.q, open |-> open, top |-> s.top, min |-> min,
                 close |-> s.close \cup {EdgeKey(i, Around(i)[k]) : k \in near}]
         /\ \A n \in open :
              \/ n \in s.open
              \/ \E k \in near : n.at = Around(i)[k] /\ n.path = Append(p, Around(i)[k])
  BY RelaxedFields
<1> HIDE DEF t
<1>2. t.q = s.q /\ t.open = open
  BY <1>1
<1>3. IsTrail(p, s.q, height, T) /\ i = p[Len(p)]
  BY DEF Resumable, Trails
<1>4. ASSUME NEW n \in open
      PROVE  IsTrail(n.path, s.q, height, T) /\ n.at = n.path[Len(n.path)]
  <2>1. CASE n \in s.open
    BY <2>1 DEF Trails
  <2>2. CASE \E k \in near : n.at = Around(i)[k] /\ n.path = Append(p, Around(i)[k])
    <3>1. PICK k \in near : n.at = Around(i)[k] /\ n.path = Append(p, Around(i)[k])
      BY <2>2
    <3>2. k \in GetOpensWithNear(p[Len(p)], s.close)
      BY <1>3
    <3> DEFINE j == Around(p[Len(p)])[k]
    <3>3. n.at = j /\ n.path = Append(p, j)
      BY <1>3, <3>1
    <3>4. IsTrail(p, s.q, height, T)
      BY <1>3
    <3>5. IsTrail(Append(p, j), s.q, height, T)
      <4> HIDE DEF p, i
      <4> QED
        BY <3>2, <3>4, TrailGoesOn
    <3>6. Append(p, j)[Len(Append(p, j))] = j
      <4> HIDE DEF j
      <4> QED
        BY <3>4 DEF IsTrail
    <3> QED
      BY <3>3, <3>5, <3>6
  <2> QED
    BY <1>1, <2>1, <2>2
<1>5. Trails(t, height, T) /\ t.q = s.q
  BY <1>2, <1>4 DEF Trails
<1> QED
  BY <1>5 DEF t

\* A turn of BFS expands the cell it takes, and leads from ways to ways.
LEMMA RelaxedIsSound ==
    ASSUME NEW s, Resumable(s), Sound(s, height, flagged),
           s.top.at \notin Goals(s.q)
    PROVE  LET near == GetOpensWithNear(s.top.at, s.close)
           IN  \E open, min :
                 /\ Relaxed(s, near) =
                      [q |-> s.q, open |-> open, top |-> s.top, min |-> min,
                       close |-> s.close \cup {EdgeKey(s.top.at, Around(s.top.at)[k]) : k \in near}]
                 /\ \A n \in open : /\ IsWay(n.path, Relaxed(s, near), height, flagged)
                                    /\ n.at = n.path[Len(n.path)]
<1> DEFINE i == s.top.at
           near == GetOpensWithNear(i, s.close)
           t == Relaxed(s, near)
           close == s.close \cup {EdgeKey(i, Around(i)[k]) : k \in near}
<1>1. PICK open, min :
         /\ t = [q |-> s.q, open |-> open, top |-> s.top, min |-> min, close |-> close]
         /\ \A n \in open :
              \/ n \in s.open
              \/ \E k \in near : n.at = Around(i)[k] /\ n.path = Append(s.top.path, Around(i)[k])
  <2> HIDE DEF near
  <2> QED
    BY RelaxedFields
<1> HIDE DEF t
<1>2. t.q = s.q /\ t.close = close
  <2> HIDE DEF close
  <2> QED
    BY <1>1
<1>3. s.top \in s.open /\ IsWay(s.top.path, s, height, flagged) /\ i = s.top.path[Len(s.top.path)]
  BY DEF Resumable, Sound
<1>4. i \in Cells
  BY <1>3 DEF IsWay
<1>5. Expanded(i, close, height)
  <2> SUFFICES ASSUME NEW j \in NextTo(i), height[j] >= 0
               PROVE  EdgeKey(i, j) \in close
    BY DEF Expanded
  <2>1. PICK k \in 1 .. 8 : j = Around(i)[k] /\ j \in Cells
    BY DEF NextTo
  <2>2. CASE EdgeKey(i, j) \in s.close
    BY <2>2
  <2>3. CASE EdgeKey(i, j) \notin s.close
    <3>1. k \in near
      BY <2>1, <2>3 DEF GetOpensWithNear
    <3> HIDE DEF near
    <3> QED
      BY <2>1, <3>1
  <2> QED
    BY <2>2, <2>3
<1>6. s.close \subseteq close
  OBVIOUS
<1> HIDE DEF close
<1>7. ASSUME NEW n \in open
      PROVE  IsWay(n.path, t, height, flagged) /\ n.at = n.path[Len(n.path)]
  <2>1. CASE n \in s.open
    <3>1. IsWay(n.path, s, height, flagged) /\ n.at = n.path[Len(n.path)]
      BY <2>1 DEF Sound
    <3> QED
      BY <1>2, <1>6, <3>1 DEF IsWay, Expanded
  <2>2. CASE \E k \in near : n.at = Around(i)[k] /\ n.path = Append(s.top.path, Around(i)[k])
    <3>1. PICK k \in near : n.at = Around(i)[k] /\ n.path = Append(s.top.path, Around(i)[k])
      BY <2>2
    <3>2. IsWay(n.path, t, height, flagged)
      <4> DEFINE p == s.top.path
      <4>1. n.path = Append(p, Around(i)[k]) /\ IsWay(p, s, height, flagged) /\ i = p[Len(p)]
        BY <1>3, <3>1
      <4> HIDE DEF p, i
      <4>2. i \notin GoalsIn(s.q, flagged)
        BY DEF i, Goals, GoalsIn
      <4> QED
        BY <1>2, <1>4, <1>5, <1>6, <4>1, <4>2, WayGoesOn
    <3>3. n.path = Append(s.top.path, n.at) /\ s.top.path \in Seq(Cells)
      BY <1>3, <3>1 DEF IsWay
    <3>4. n.at = n.path[Len(n.path)]
      BY <3>3
    <3> QED
      BY <3>2, <3>4
  <2> QED
    BY <1>1, <2>1, <2>2
<1> QED
  <2>1. \E o, m : /\ t = [q |-> s.q, open |-> o, top |-> s.top, min |-> m, close |-> close]
                  /\ \A n \in o : IsWay(n.path, t, height, flagged) /\ n.at = n.path[Len(n.path)]
    BY <1>1, <1>7
  <2> QED
    BY <2>1 DEF t, close

\* What callers hold stays as good as it was, whatever becomes of the search in
\* progress.
LEMMA HeldStaysSound ==
    ASSUME WayInv, run # Nil, NEW s, s.q = run.s.q, Trails(s, height, touched), NEW E,
           \A h \in held : h.id \notin E => h.id \notin ended,
           run.id \notin E => Unstarted(s)
    PROVE  \A h \in held : KeptSound(h, Keep(s), E, height, touched)
<1> SUFFICES ASSUME NEW h \in held
             PROVE  KeptSound(h, Keep(s), E, height, touched)
  OBVIOUS
<1>1. KeptSound(h, cache, ended, height, touched)
  BY DEF WayInv, HeldSound
<1>2. IInv
  BY DEF WayInv
<1>3. CASE h.id # run.id
  BY <1>1, <1>2, <1>3, KeepOthers DEF KeptSound
<1>4. CASE h.id = run.id
  <2>1. run.id # 0 /\ Keep(s)[-h.id] = s
    BY <1>2, <1>4, KeepOthers
  <2>2. h.q = run.s.q
    BY <1>4 DEF WayInv, AskedIsKept
  <2> QED
    BY <1>4, <2>1, <2>2 DEF KeptSound
<1> QED
  BY <1>3, <1>4

LEMMA WayInit == Init => WayInv
<1> SUFFICES ASSUME Init PROVE WayInv
  OBVIOUS
<1>1. run = Nil /\ held = {}
  BY DEF Init
<1> QED
  BY <1>1, InitInvariant DEF WayInv, RunSound, HeldSound, AskedIsKept

LEMMA WaySearch ==
    ASSUME WayInv, NEW q \in Queries, NEW timed, Search(q, timed)
    PROVE  RunSound' /\ HeldSound' /\ AskedIsKept'
<1> DEFINE d == Node(q.start, 0, q, <<q.start>>)
           s == [q |-> q, open |-> {d}, top |-> d, close |-> {}, min |-> NewMin]
<1>1. /\ run' = [s |-> s, timed |-> timed, id |-> 0, asked |-> q]
      /\ UNCHANGED <<ground, cache, held, ended, touched>>
  BY DEF Search
<1>2. d.path = <<q.start>> /\ d.at = q.start
  BY DEF Node
<1> HIDE DEF d
<1>3. Unstarted(s)
  BY <1>2 DEF Unstarted
<1>4. s.q = q
  OBVIOUS
<1> HIDE DEF s
<1>5. run'.s = s /\ run'.asked = q /\ run'.id = 0
  BY <1>1
<1>6. Sound(s, height', flagged') /\ Trails(s, height', touched')
  BY <1>3, UnstartedIsSound, UnstartedIsTrails
<1>7. RunSound'
  BY <1>3, <1>4, <1>5, <1>6 DEF RunSound, Unstarted
<1>8. HeldSound'
  BY <1>1 DEF HeldSound, KeptSound, Unstarted, Trails, WayInv, ground
<1>9. AskedIsKept'
  <2>1. \A h \in held : h.id # 0
    BY DEF WayInv, IInv, HeldOK, KeptOK
  <2> QED
    BY <1>1, <1>5, <2>1 DEF AskedIsKept
<1> QED
  BY <1>7, <1>8, <1>9

LEMMA WayResume ==
    ASSUME WayInv, NEW h \in held, NEW timed, Resume(h, timed)
    PROVE  RunSound' /\ HeldSound' /\ AskedIsKept'
<1>1. IInv /\ KeptSound(h, cache, ended, height, touched) /\ KeptOK(h.id, cache, ended)
  BY DEF WayInv, HeldSound, IInv, HeldOK
<1>2. UNCHANGED <<ground, cache, held, ended, touched>>
  BY <1>1, ResumedIs
<1>3. HeldSound'
  BY <1>2 DEF HeldSound, KeptSound, Unstarted, Trails, WayInv, ground
<1>4. CASE run' = run /\ run = Nil
  BY <1>3, <1>4 DEF RunSound, AskedIsKept
<1>5. ASSUME NEW t \in cache[-h.id].open,
             run' = [s |-> [cache[-h.id] EXCEPT !.top = t],
                     timed |-> timed, id |-> h.id, asked |-> h.q]
      PROVE  RunSound' /\ AskedIsKept'
  <2> DEFINE c == cache[-h.id]
             s == [c EXCEPT !.top = t]
  <2>1. c = [q |-> c.q, open |-> c.open, top |-> c.top, close |-> c.close, min |-> c.min]
    BY <1>1 DEF KeptOK, Structured
  <2>2. h.q = c.q /\ Trails(c, height, touched) /\ (h.id \notin ended => Unstarted(c))
    BY <1>1 DEF KeptSound
  <2> HIDE DEF c
  <2>3. s.q = c.q /\ s.open = c.open
    BY <2>1
  <2> HIDE DEF s
  <2>4. Trails(s, height', touched') /\ (h.id \notin ended => Unstarted(s))
    BY <1>2, <2>2, <2>3 DEF Trails, Unstarted, ground
  <2>5. h.id \notin ended => Sound(s, height', flagged')
    BY <2>4, UnstartedIsSound
  <2>6. run'.s = s /\ run'.asked = h.q /\ run'.id = h.id
    BY <1>5 DEF s, c
  <2>7. RunSound'
    BY <1>2, <2>2, <2>3, <2>4, <2>5, <2>6 DEF RunSound, Again, Unstarted
  <2>8. \A g \in held : g.id = h.id => g.q = h.q
    BY DEF WayInv, HeldSound, KeptSound
  <2>9. AskedIsKept'
    BY <1>2, <2>2, <2>3, <2>6, <2>8 DEF AskedIsKept
  <2> QED
    BY <2>7, <2>9
<1> QED
  BY <1>1, <1>3, <1>4, <1>5, ResumedIs

LEMMA WayEnd ==
    ASSUME WayInv, run # Nil, NEW s, s.q = run.s.q, Trails(s, height, touched),
           cache' = Keep(s), held' = held, run' = Nil, Ends,
           UNCHANGED <<height, touched>>
    PROVE  RunSound' /\ HeldSound' /\ AskedIsKept'
<1>1. \A h \in held : KeptSound(h, Keep(s), ended', height, touched)
  <2>1. CASE run.id # 0
    <3>1. run.id \in ended' /\ \A h \in held : h.id \notin ended' => h.id \notin ended
      BY <2>1 DEF Ends
    <3> QED
      BY <3>1, HeldStaysSound
  <2>2. CASE run.id = 0
    <3>1. ended' = ended /\ Keep(s) = cache
      BY <2>2 DEF Ends, Keep
    <3> QED
      BY <3>1 DEF WayInv, HeldSound
  <2> QED
    BY <2>1, <2>2
<1>2. HeldSound'
  BY <1>1 DEF HeldSound, KeptSound, Unstarted, Trails
<1> QED
  BY <1>2 DEF RunSound, AskedIsKept

LEMMA WayStop ==
    ASSUME WayInv, Stop
    PROVE  RunSound' /\ HeldSound' /\ AskedIsKept'
<1> DEFINE s == run.s
           id == ans'.id
           new == [id |-> id, q |-> run.asked]
<1>1. /\ run # Nil /\ run' = Nil /\ held' = held \cup {new}
      /\ UNCHANGED <<height, ended, touched>>
  BY DEF Stop, ground
<1>2. /\ run.asked = s.q /\ Trails(s, height, touched)
      /\ run.id \notin ended => Unstarted(s)
  BY <1>1 DEF Stop, Continue, WayInv, RunSound, Again
<1>3. run.id \in Int /\ -run.id \in 0 .. Len(cache) /\ IInv
  BY <1>1 DEF WayInv, IInv, CallOK
<1>4. /\ KeptSound(new, cache', ended, height, touched)
      /\ \A h \in held : KeptSound(h, cache', ended, height, touched)
  <2>1. CASE run.id = 0
    <3>1. PICK S : cache \in Seq(S)
      BY DEF WayInv, IInv, CacheOK
    <3>2. cache' = Append(cache, s) /\ id = -(Len(cache) + 1)
      BY <2>1 DEF Stop, SaveCache
    <3>3. cache \in Seq(S \cup {s})
      BY <3>1
    <3>4. /\ cache'[Len(cache) + 1] = s /\ Len(cache) \in Nat
          /\ \A k \in 1 .. Len(cache) : cache'[k] = cache[k]
      BY <3>2, <3>3
    <3>5. -id = Len(cache) + 1
      BY <3>2, <3>4
    <3>6. ASSUME NEW h \in held
          PROVE  KeptSound(h, cache', ended, height, touched)
      <4>1. KeptOK(h.id, cache, ended) /\ KeptSound(h, cache, ended, height, touched)
        BY DEF WayInv, IInv, HeldOK, HeldSound
      <4> QED
        BY <3>4, <4>1 DEF KeptOK, KeptSound
    <3>7. KeptSound(new, cache', ended, height, touched)
      <4>1. new.id \notin ended => Unstarted(s)
        <5>1. ~Again => Unstarted(s)
          BY <1>1 DEF Stop, Continue, WayInv, RunSound
        <5>2. ~Again
          BY <1>3, <2>1 DEF WayInv, IInv, EndedOK, Again
        <5> QED
          BY <5>1, <5>2
      <4>2. new.q = s.q /\ cache'[-new.id] = s
        BY <1>2, <3>4, <3>5
      <4> HIDE DEF new, s
      <4> QED
        BY <1>2, <4>1, <4>2 DEF KeptSound, s
    <3> QED
      BY <3>6, <3>7
  <2>2. CASE run.id # 0
    <3>1. cache' = Keep(s) /\ id = run.id
      BY <2>2 DEF Stop
    <3>2. Keep(s)[-run.id] = s
      BY <1>1, <1>3, <2>2, KeepOthers
    <3>3. \A h \in held : KeptSound(h, Keep(s), ended, height, touched)
      BY <1>1, <1>2, HeldStaysSound
    <3>4. new.q = s.q /\ cache'[-new.id] = s /\ new.id = run.id
      BY <1>2, <3>1, <3>2
    <3>5. KeptSound(new, cache', ended, height, touched)
      <4> HIDE DEF new, s
      <4> QED
        BY <1>2, <3>4 DEF KeptSound
    <3> QED
      BY <3>1, <3>3, <3>5
  <2> QED
    BY <2>1, <2>2
<1>5. HeldSound'
  <2> SUFFICES ASSUME NEW h \in held'
               PROVE  KeptSound(h, cache', ended, height, touched)
    BY <1>1 DEF HeldSound, KeptSound, Trails, Unstarted
  <2> HIDE DEF new
  <2> QED
    BY <1>1, <1>4
<1> QED
  BY <1>1, <1>5 DEF RunSound, AskedIsKept

LEMMA WayExpand ==
    ASSUME WayInv, Expand
    PROVE  RunSound' /\ HeldSound' /\ AskedIsKept'
<1> DEFINE s == run.s
           near == GetOpensWithNear(s.top.at, s.close)
           next == Relaxed(s, near)
           goon == /\ \E t \in Tops(next.open) :
                         run' = [run EXCEPT !.s = [next EXCEPT !.top = t]]
                   /\ UNCHANGED <<ground, cache, late, ans, held, ended, touched, searches, updates>>
<1>1. run # Nil /\ ~AtGoal /\ Continue
  BY DEF Expand
<1>2. \/ \E p : \E few \in SUBSET near : Found(p, Relaxed(s, few))
      \/ NotFound(next)
      \/ goon
  BY DEF Expand
<1>3. /\ run = [s |-> run.s, timed |-> run.timed, id |-> run.id, asked |-> run.asked]
      /\ Resumable(s) /\ run.asked = s.q /\ Trails(s, height, touched)
      /\ ~Again => Sound(s, height, flagged)
  BY <1>1 DEF WayInv, IInv, CallOK, RunSound
<1>4. \A few \in SUBSET near : Trails(Relaxed(s, few), height, touched) /\ Relaxed(s, few).q = s.q
  BY <1>3, RelaxedIsTrails
<1>5. ASSUME NEW p, NEW few \in SUBSET near, Found(p, Relaxed(s, few))
      PROVE  RunSound' /\ HeldSound' /\ AskedIsKept'
  <2> DEFINE r == Relaxed(s, few)
  <2>1. /\ cache' = Keep(r) /\ held' = held /\ run' = Nil /\ Ends
        /\ UNCHANGED <<height, touched>>
    BY <1>5 DEF Found
  <2>2. r.q = run.s.q /\ Trails(r, height, touched)
    BY <1>4
  <2> HIDE DEF r
  <2> QED
    BY <1>1, <2>1, <2>2, WayEnd
<1>6. CASE NotFound(next)
  <2>1. /\ cache' = Keep(next) /\ held' = held /\ run' = Nil /\ Ends
        /\ UNCHANGED <<height, touched>>
    BY <1>6 DEF NotFound, ground
  <2>2. next.q = run.s.q /\ Trails(next, height, touched)
    BY <1>4
  <2> HIDE DEF next
  <2> QED
    BY <1>1, <2>1, <2>2, WayEnd
<1>7. CASE goon
  <2> DEFINE open == next.open
             min == next.min
             close == next.close
  <2>1. next = [q |-> s.q, open |-> open, top |-> s.top, close |-> close, min |-> min]
    <3> HIDE DEF near, s
    <3> QED
      BY <1>3, RelaxedStructured
  <2>2. PICK t \in Tops(next.open) : run' = [run EXCEPT !.s = [next EXCEPT !.top = t]]
    BY <1>7
  <2>3. Trails(next, height, touched)
    BY <1>4
  <2>4. ~Again => Sound(next, height, flagged)
    <3> SUFFICES ASSUME ~Again PROVE Sound(next, height, flagged)
      OBVIOUS
    <3>1. PICK o, m :
            /\ next = [q |-> s.q, open |-> o, top |-> s.top, min |-> m,
                       close |-> s.close \cup {EdgeKey(s.top.at, Around(s.top.at)[k]) : k \in near}]
            /\ \A n \in o : IsWay(n.path, next, height, flagged) /\ n.at = n.path[Len(n.path)]
      BY <1>1, <1>3, RelaxedIsSound DEF AtGoal
    <3> HIDE DEF near, next
    <3>2. next.open = o /\ next.q = s.q
      BY <3>1
    <3> QED
      BY <1>3, <3>1, <3>2 DEF Sound
  <2> DEFINE u == [next EXCEPT !.top = t]
  <2> HIDE DEF near, next
  <2>5. u.q = s.q /\ u.open = next.open /\ u.close = next.close /\ next.q = s.q
    BY <2>1
  <2>6. Trails(u, height, touched) /\ (~Again => Sound(u, height, flagged))
    BY <2>3, <2>4, <2>5 DEF Sound, IsWay, Trails
  <2> HIDE DEF u
  <2>7. run' = [run EXCEPT !.s = u]
    BY <2>2 DEF u
  <2>8. run'.s = u /\ run'.timed = run.timed /\ run'.asked = run.asked /\ run'.id = run.id
    <3> HIDE DEF s
    <3> QED
      BY <1>3, <2>7
  <2>9. UNCHANGED <<height, flagged, cache, late, held, ended, touched>>
    BY <1>7 DEF ground
  <2>10. RunSound'
    BY <1>1, <1>3, <2>5, <2>6, <2>8, <2>9 DEF RunSound, Continue, Again
  <2>11. HeldSound'
    BY <2>9 DEF WayInv, HeldSound, KeptSound, Unstarted, Trails
  <2>12. AskedIsKept'
    BY <1>1, <2>5, <2>8, <2>9 DEF WayInv, AskedIsKept
  <2> QED
    BY <2>10, <2>11, <2>12
<1> QED
  <2> HIDE DEF goon, next
  <2> QED
    BY <1>2, <1>5, <1>6, <1>7

LEMMA WayNext == WayInv /\ [Next]_vars => WayInv'
<1> SUFFICES ASSUME WayInv, [Next]_vars PROVE RunSound' /\ HeldSound' /\ AskedIsKept'
  BY NextInvariant DEF WayInv
<1>1. ASSUME NEW q \in Queries, NEW timed \in Durations, Search(q, timed)
      PROVE  RunSound' /\ HeldSound' /\ AskedIsKept'
  BY <1>1, WaySearch
<1>2. ASSUME NEW h \in held, NEW timed \in Durations, Resume(h, timed)
      PROVE  RunSound' /\ HeldSound' /\ AskedIsKept'
  BY <1>2, WayResume
<1>3. CASE Return
  <2> DEFINE s == run.s
  <2>1. /\ run # Nil /\ s.q = run.s.q /\ Trails(s, height, touched)
        /\ cache' = Keep(s) /\ held' = held /\ run' = Nil /\ Ends
        /\ UNCHANGED <<height, touched>>
    BY <1>3 DEF Return, Found, WayInv, RunSound
  <2> HIDE DEF s
  <2> QED
    BY <2>1, WayEnd
<1>4. CASE Stop
  BY <1>4, WayStop
<1>5. CASE Expand
  BY <1>5, WayExpand
<1>6. ASSUME NEW c \in Cells, NEW g \in Heights, UpdateHeight(c, g)
      PROVE  RunSound' /\ HeldSound' /\ AskedIsKept'
  <2>1. /\ run = Nil /\ run' = Nil /\ UNCHANGED <<cache, held, ended>>
        /\ height' = [height EXCEPT ![c] = g] /\ touched' = touched \cup {c}
    BY <1>6 DEF UpdateHeight, Ready
  <2>2. ASSUME NEW s, Trails(s, height, touched) PROVE Trails(s, height', touched')
    <3>1. ASSUME NEW n \in s.open PROVE IsTrail(n.path, s.q, height', touched')
      <4> DEFINE p == n.path
      <4>1. IsTrail(p, s.q, height, touched)
        BY <2>2 DEF Trails
      <4> HIDE DEF p
      <4>2. \A k \in 2 .. Len(p) : height'[p[k]] >= 0 \/ p[k] \in touched'
        BY <2>1, <4>1 DEF IsTrail
      <4>3. IsTrail(p, s.q, height', touched')
        BY <4>1, <4>2 DEF IsTrail
      <4> QED
        BY <4>3 DEF p
    <3> QED
      BY <2>2, <3>1 DEF Trails
  <2>3. \A h \in held : KeptSound(h, cache, ended, height', touched')
    BY <2>2 DEF WayInv, HeldSound, KeptSound
  <2> QED
    BY <2>1, <2>3 DEF RunSound, HeldSound, KeptSound, Unstarted, Trails, AskedIsKept
<1>7. ASSUME UNCHANGED <<cache, held, ended, height, touched>>, run = Nil, run' = Nil
      PROVE  RunSound' /\ HeldSound' /\ AskedIsKept'
  BY <1>7 DEF WayInv, RunSound, HeldSound, KeptSound, Unstarted, Trails, AskedIsKept
<1>8. ASSUME UNCHANGED <<height, flagged, cache, held, ended, touched, run>>, late' = late \/ late'
      PROVE  RunSound' /\ HeldSound' /\ AskedIsKept'
  BY <1>8 DEF WayInv, RunSound, HeldSound, KeptSound, Unstarted, Trails, AskedIsKept, Again
<1>9. CASE Deadline
  BY <1>8, <1>9 DEF Deadline, ground
<1>10. CASE \E c \in Cells : UpdateFlag(c)
  BY <1>7, <1>10 DEF UpdateFlag, Ready
<1>11. CASE Finished \/ UNCHANGED vars
  BY <1>8, <1>11 DEF Finished, vars, ground
<1> QED
  BY <1>1, <1>2, <1>3, <1>4, <1>5, <1>6, <1>9, <1>10, <1>11 DEF Next

\* What a caller may make of a path, and of one from a search that has not
\* answered before: a trail to a goal, a way to a goal.
IsAnswer(p, q, F) ==
    /\ p[1] = q.start /\ p[Len(p)] \in GoalsIn(q, F)
    /\ \A k \in 1 .. Len(p) - 1 : p[k+1] \in NextTo(p[k])
IsClean(p, h) == /\ \A j, k \in DOMAIN p : p[j] = p[k] => j = k
                 /\ \A k \in 2 .. Len(p) : h[p[k]] >= 0

LEMMA TrailToGoal ==
    ASSUME NEW q, NEW h, NEW T, NEW F, NEW p, IsTrail(p, q, h, T), p[Len(p)] \in GoalsIn(q, F)
    PROVE  IsAnswer(p, q, F) /\ \A k \in 2 .. Len(p) : h[p[k]] >= 0 \/ p[k] \in T
  BY DEF IsAnswer, IsTrail

LEMMA WayToGoal ==
    ASSUME NEW s, NEW h, NEW F, NEW p, IsWay(p, s, h, F), p[Len(p)] \in GoalsIn(s.q, F)
    PROVE  IsClean(p, h)
<1> DEFINE n == Len(p)
<1>1. DOMAIN p = 1 .. n /\ n \in Nat \ {0}
  BY DEF IsWay
<1>2. /\ \A m \in 1 .. n - 1 : p[m] # p[n]
      /\ \A j, k \in 1 .. n - 1 : p[j] = p[k] => j = k
  BY DEF IsWay
<1>3. \A j, k \in 1 .. n : p[j] = p[k] => j = k
  <2> HIDE DEF n
  <2>1. \A j \in 1 .. n : j = n \/ j \in 1 .. n - 1
    BY <1>1
  <2> QED
    BY <1>2, <2>1
<1> QED
  BY <1>1, <1>3 DEF IsClean, IsWay

\* The first of a set of places among eight.
LEMMA FirstIsThere ==
    ASSUME NEW S \in SUBSET (1 .. 8), S # {}
    PROVE  First(S) \in S
<1> DEFINE IsFirst(k) == k \in S /\ \A j \in S : k <= j
<1>1. \E k \in 1 .. 8 : IsFirst(k)
  <2> SUFFICES ASSUME \A k \in 1 .. 8 : ~IsFirst(k) PROVE FALSE
    OBVIOUS
  <2>1. 1 \notin S
    OBVIOUS
  <2>2. 2 \notin S
    BY <2>1
  <2>3. 3 \notin S
    BY <2>1, <2>2
  <2>4. 4 \notin S
    BY <2>1, <2>2, <2>3
  <2>5. 5 \notin S
    BY <2>1, <2>2, <2>3, <2>4
  <2>6. 6 \notin S
    BY <2>1, <2>2, <2>3, <2>4, <2>5
  <2>7. 7 \notin S
    BY <2>1, <2>2, <2>3, <2>4, <2>5, <2>6
  <2>8. 8 \notin S
    BY <2>1, <2>2, <2>3, <2>4, <2>5, <2>6, <2>7
  <2>9. PICK x \in S : x \in 1 .. 8
    OBVIOUS
  <2>10. x = 1 \/ x = 2 \/ x = 3 \/ x = 4 \/ x = 5 \/ x = 6 \/ x = 7 \/ x = 8
    BY <2>9
  <2> QED
    BY <2>1, <2>2, <2>3, <2>4, <2>5, <2>6, <2>7, <2>8, <2>9, <2>10
<1>2. \E k : k \in S /\ \A j \in S : k <= j
  BY <1>1
<1> QED
  BY <1>2 DEF First

LEMMA WalkStep ==
    ASSUME WayInv, [Next]_vars, FoundNow
    PROVE  /\ IsAnswer(ans'.path, run.asked, flagged)
           /\ \A k \in 2 .. Len(ans'.path) : height[ans'.path[k]] >= 0 \/ ans'.path[k] \in touched
           /\ ~Again => IsClean(ans'.path, height)
<1> DEFINE s == run.s
           near == GetOpensWithNear(s.top.at, s.close)
           hits == GoalsNear(s.top.at, near, s.q)
           j == Around(s.top.at)[First(hits)]
           next == Relaxed(s, near)
<1>1. \/ Return /\ ans'.path = s.top.path
      \/ Expand /\ hits # {} /\ ans'.path = Append(s.top.path, j)
  <2> USE DEF FoundNow
  <2>1. CASE Return
    BY <2>1 DEF Return, Found
  <2>2. CASE Expand
    <3>1. ~NotFound(next)
      BY DEF NotFound
    <3> HIDE DEF next
    <3>2. \/ hits # {} /\ \E r : Found(Append(s.top.path, j), r)
          \/ NotFound(next)
          \/ UNCHANGED ans
      BY <2>2 DEF Expand, next
    <3> HIDE DEF hits, j
    <3> QED
      BY <2>2, <3>1, <3>2 DEF Found
  <2>3. CASE Stop
    BY <2>3 DEF Stop, SaveCache
  <2>4. CASE \E q \in Queries, timed \in Durations : Search(q, timed)
    BY <2>4 DEF Search
  <2>5. CASE \E h \in held, timed \in Durations : Resume(h, timed)
    BY <2>5, ResumedIs DEF WayInv
  <2>6. CASE \/ Deadline \/ Finished \/ UNCHANGED vars
             \/ \E c \in Cells, h \in Heights : UpdateHeight(c, h)
             \/ \E c \in Cells : UpdateFlag(c)
    BY <2>6 DEF Deadline, Finished, UpdateHeight, UpdateFlag, vars
  <2> QED
    BY <2>1, <2>2, <2>3, <2>4, <2>5, <2>6 DEF Next
<1>2. run # Nil
  BY <1>1 DEF Return, Expand
<1>3. /\ Resumable(s) /\ run.asked = s.q /\ Trails(s, height, touched)
      /\ ~Again => Sound(s, height, flagged)
  BY <1>2 DEF WayInv, IInv, CallOK, RunSound
<1>4. /\ s.top \in s.open /\ IsTrail(s.top.path, s.q, height, touched)
      /\ s.top.at = s.top.path[Len(s.top.path)]
      /\ ~Again => IsWay(s.top.path, s, height, flagged)
  BY <1>3 DEF Resumable, Sound, Trails
<1>5. CASE Return /\ ans'.path = s.top.path
  <2>1. s.top.at \in GoalsIn(s.q, flagged)
    BY <1>5 DEF Return, AtGoal, Goals, GoalsIn
  <2> QED
    BY <1>3, <1>4, <1>5, <2>1, WayToGoal, TrailToGoal
<1>6. CASE Expand /\ hits # {} /\ ans'.path = Append(s.top.path, j)
  <2> DEFINE i == s.top.at
             p == s.top.path
             t == [q |-> s.q, close |-> s.close \cup {EdgeKey(i, c) : c \in NextTo(i)}]
  <2>1. i \in Cells /\ i \notin GoalsIn(s.q, flagged) /\ i = p[Len(p)]
    <3>1. i = p[Len(p)] /\ p \in Seq(Cells) /\ Len(p) > 0
      BY <1>4 DEF IsTrail
    <3>2. i \in Cells
      <4> HIDE DEF p, i
      <4> QED
        BY <3>1
    <3>3. ~AtGoal
      BY <1>6 DEF Expand
    <3> QED
      BY <3>1, <3>2, <3>3 DEF AtGoal, Goals, GoalsIn
  <2>2. First(hits) \in near /\ j \in GoalsIn(s.q, flagged)
    <3>1. hits \in SUBSET (1 .. 8)
      BY DEF GoalsNear, GetOpensWithNear
    <3>2. First(hits) \in hits
      <4> HIDE DEF hits
      <4> QED
        BY <1>6, <3>1, FirstIsThere
    <3> QED
      BY <3>2 DEF GoalsNear, Goals, GoalsIn
  <2>3. t.q = s.q /\ s.close \subseteq t.close /\ Expanded(i, t.close, height)
    BY DEF Expanded
  <2> DEFINE w == Append(p, j)
  <2>4. IsTrail(w, s.q, height, touched) /\ w[Len(w)] = j
    <3>1. IsTrail(p, s.q, height, touched) /\ i = p[Len(p)]
      BY <1>4
    <3>2. First(hits) \in GetOpensWithNear(i, s.close)
      BY <2>2
    <3>3. IsTrail(Append(p, Around(i)[First(hits)]), s.q, height, touched)
      <4> HIDE DEF p, i, hits, s
      <4> QED
        BY <3>1, <3>2, TrailGoesOn
    <3>4. Append(p, j)[Len(Append(p, j))] = j
      <4> HIDE DEF j, p
      <4> QED
        BY <3>1 DEF IsTrail
    <3> QED
      BY <3>3, <3>4
  <2>5. ~Again => IsWay(w, t, height, flagged)
    <3> SUFFICES ASSUME ~Again PROVE IsWay(w, t, height, flagged)
      OBVIOUS
    <3>1. IsWay(p, s, height, flagged) /\ i = p[Len(p)]
      BY <1>4
    <3>2. First(hits) \in GetOpensWithNear(i, s.close)
      BY <2>2
    <3> HIDE DEF t, p, i, hits, s
    <3> QED
      BY <2>1, <2>3, <3>1, <3>2, WayGoesOn DEF i, s
  <2>6. w[Len(w)] \in GoalsIn(s.q, flagged)
    BY <2>2, <2>4
  <2>7. ~Again => IsClean(w, height)
    <3> HIDE DEF w, t
    <3> QED
      BY <2>3, <2>5, <2>6, WayToGoal
  <2>8. /\ IsAnswer(w, s.q, flagged)
        /\ \A k \in 2 .. Len(w) : height[w[k]] >= 0 \/ w[k] \in touched
    <3> HIDE DEF w, s
    <3> QED
      BY <2>4, <2>6, TrailToGoal
  <2> QED
    BY <1>3, <1>6, <2>7, <2>8
<1> QED
  BY <1>1, <1>5, <1>6

\* What a search answers leads where it was asked (AStarNavigation.h:141-239),
\* and can be walked, also after it was resumed; what it answers when it is
\* resumed once more (:546) leads there by cells that were free when they were
\* seen: for maps of any size, any heights and flags, any number of searches, and
\* any changes of the map in between.
THEOREM PathsAreWalkable == Spec => WalkablePath
<1>1. WayInv /\ [Next]_vars =>
       [FoundNow =>
          LET p == ans'.path  q == run.asked
          IN  /\ p[1] = q.start /\ p[Len(p)] \in Goals(q)
              /\ \A k \in 1 .. Len(p) - 1 : p[k+1] \in NextTo(p[k])
              /\ ~Again => \A j, k \in DOMAIN p : p[j] = p[k] => j = k
              /\ \A k \in 2 .. Len(p) : height[p[k]] >= 0 \/ (Again /\ p[k] \in touched)]_vars
  <2> SUFFICES ASSUME WayInv, [Next]_vars, FoundNow
               PROVE  LET p == ans'.path  q == run.asked
                      IN  /\ p[1] = q.start /\ p[Len(p)] \in Goals(q)
                          /\ \A k \in 1 .. Len(p) - 1 : p[k+1] \in NextTo(p[k])
                          /\ ~Again => \A j, k \in DOMAIN p : p[j] = p[k] => j = k
                          /\ \A k \in 2 .. Len(p) :
                                height[p[k]] >= 0 \/ (Again /\ p[k] \in touched)
    OBVIOUS
  <2> DEFINE p == ans'.path
  <2>1. /\ IsAnswer(p, run.asked, flagged)
        /\ \A k \in 2 .. Len(p) : height[p[k]] >= 0 \/ p[k] \in touched
        /\ ~Again => IsClean(p, height)
    BY WalkStep
  <2> HIDE DEF p
  <2>2. /\ p[1] = run.asked.start /\ p[Len(p)] \in Goals(run.asked)
        /\ \A k \in 1 .. Len(p) - 1 : p[k+1] \in NextTo(p[k])
        /\ ~Again => \A j, k \in DOMAIN p : p[j] = p[k] => j = k
        /\ \A k \in 2 .. Len(p) : height[p[k]] >= 0 \/ (Again /\ p[k] \in touched)
    BY <2>1 DEF IsAnswer, IsClean, Goals, GoalsIn
  <2> QED
    BY <2>2 DEF p
<1> QED
  BY <1>1, WayInit, WayNext, PTL DEF Spec, WalkablePath
=============================================================================
