------------------------------- MODULE RBTree -------------------------------
(***************************************************************************)
(* The red-black tree of Base/DataType/RBTree.lua.  Insert and Delete are  *)
(* one action up to their loop, one action for each turn of the loop, and  *)
(* one for what follows it.  What the code writes once for each side is    *)
(* written here once, for a side s and Other(s).                           *)
(*                                                                         *)
(* Nodes are named by their keys.  nil, false and NilNode are all Nil: its *)
(* fields read as Nil and black, and a write to it is lost.  The fields of *)
(* a node nothing refers to any more are those of a new one.               *)
(***************************************************************************)
EXTENDS Integers, FiniteSets

CONSTANTS Keys, Nil

ASSUME RBTreeAssumption == Keys \subseteq Int /\ IsFiniteSet(Keys) /\ Nil \notin Keys

\* What a link may name.
Node == Keys \cup {Nil}

VARIABLES tree,     \* [entry, kid, parent, color]: kid["l"] is _left, kid["r"] _right
          pc, c,    \* which loop is running, and its node
          members,  \* history: keys inserted and not deleted since
          kept,     \* history: keys deleted when they were the only one
          shrunk    \* history: has Delete taken a node out since Clear

vars == <<tree, pc, c, members, kept, shrunk>>

Sides == {"l", "r"}
Other(s) == IF s = "l" THEN "r" ELSE "l"
Colors == {"R", "B"}

Blank == [entry  |-> Nil,
          kid    |-> [s \in Sides |-> [n \in Node |-> Nil]],
          parent |-> [n \in Node |-> Nil],
          color  |-> [n \in Node |-> IF n = Nil THEN "B" ELSE "R"]]

Init == /\ tree = Blank /\ pc = "idle" /\ c = Nil
        /\ members = {} /\ kept = {} /\ shrunk = FALSE

-----------------------------------------------------------------------------
(* Links.  Each is what a series of Unlink and Link comes to. *)

\* Mutant: a color of its own.
PaintedGrey(t, n, color) == [t EXCEPT !.color[n] = IF n = Nil THEN "B" ELSE "grey"]

Painted(t, n, color) == [t EXCEPT !.color[n] = IF n = Nil THEN "B" ELSE color]

SideOf(t, p, n) == IF t.kid["l"][p] = n THEN "l" ELSE "r"

\* x becomes the child of p on side s; x may be Nil, p may not.
Linked(t, p, x, s) == [t EXCEPT !.kid[s][p] = x,
                                !.parent[x] = IF x = Nil THEN Nil ELSE p]

\* x takes a place below p, or that of the root.  Link of NilNode changes nothing,
\* so that a root without children stays where it is.
Seated(t, p, x, s) ==
    IF p # Nil THEN Linked(t, p, x, s)
    ELSE IF x = Nil THEN t
    ELSE [t EXCEPT !.entry = x, !.color[x] = "B", !.parent[x] = Nil]

\* Mutant: the inner subtree is not linked in again.
RotateDropsInner(t, n, s) ==
    LET x == t.kid[s][n]
        p == t.parent[n]
    IN  IF x = Nil THEN t
        ELSE Linked(Linked(Seated(t, p, x, SideOf(t, p, n)), n, Nil, s), x, n, Other(s))

\* LRotate brings up the child on the right, RRotate the one on the left.
Rotate(t, n, s) ==
    LET x == t.kid[s][n]
        p == t.parent[n]
        y == t.kid[Other(s)][x]
    IN  IF x = Nil THEN t
        ELSE Linked(Linked(Seated(t, p, x, SideOf(t, p, n)), n, y, s), x, n, Other(s))

\* n without its links.
Bare(t, n) == [t EXCEPT !.kid = [s \in Sides |-> [@[s] EXCEPT ![n] = Nil]],
                        !.parent[n] = Nil]

Inherited(t, m, x, s) == IF x \in {Nil, m} THEN t ELSE Seated(t, m, x, s)

\* Mutant: the children of n are handed on, but its parent keeps n.
ReplaceBelow(t, n, m) ==
    LET u == [t EXCEPT !.kid = Bare(t, n).kid]
    IN  Inherited(Inherited(u, m, t.kid["r"][n], "r"), m, t.kid["l"][n], "l")

\* m takes the place of n, and its children but for itself.
Replace(t, n, m) ==
    LET l == t.kid["l"][n]
        r == t.kid["r"][n]
        p == t.parent[n]
    IN  Seated(Inherited(Inherited(Bare(t, n), m, r, "r"), m, l, "l"), p, m, SideOf(t, p, n))

-----------------------------------------------------------------------------
(* Walks. *)

\* No walk goes farther than there are nodes.
Far == Cardinality(Keys)

\* n, f(n), f(f(n)), ...: as many as a walk through all nodes can take.
Walk(n, f(_)) ==
    LET at[i \in 0 .. Far] == IF i = 0 THEN n ELSE LET m == at[i - 1] IN f(m)
    IN  at

\* GetNode's way down to key k, which Insert takes as well.
Down(t, k, n) == IF n \in {Nil, k} THEN n ELSE t.kid[IF k < n THEN "l" ELSE "r"][n]
Find(t, k) == Walk(t.entry, LAMBDA n : Down(t, k, n))[Far]
LastOn(t, k) == Walk(t.entry, LAMBDA n : IF Down(t, k, n) = Nil THEN n ELSE Down(t, k, n))[Far]

LTop(t, n) == Walk(n, LAMBDA m : IF t.kid["l"][m] = Nil THEN m ELSE t.kid["l"][m])[Far]

-----------------------------------------------------------------------------
(* Insert. *)

\* The first node is the root; a key that is there already is merged into its
\* node by _efunc, and the tree stays as it is.
Insert(k) ==
    /\ pc = "idle"
    /\ members' = members \cup {k} /\ kept' = kept \ {k}
    /\ \/ /\ tree.entry = Nil
          /\ tree' = [Blank EXCEPT !.entry = k, !.color[k] = "B"]
          /\ UNCHANGED <<pc, c>>
       \/ /\ Find(tree, k) = k
          /\ UNCHANGED <<tree, pc, c>>
       \/ /\ tree.entry # Nil /\ Find(tree, k) = Nil
          /\ \E p \in Keys : /\ p = LastOn(tree, k)
                             /\ tree' = Linked(tree, p, k, IF k < p THEN "l" ELSE "r")
          /\ pc' = "insert" /\ c' = k
    /\ UNCHANGED shrunk

TwoReds == c # Nil /\ tree.color[tree.parent[c]] = "R"

\* Mutant: the grandparent stays black when p rises above it.
FixInsertBlackGrandparent ==
    /\ pc = "insert" /\ TwoReds
    /\ LET p == tree.parent[c]
           g == tree.parent[p]
           s == SideOf(tree, g, p)
           u == tree.kid[Other(s)][g]
           d == IF c = tree.kid[Other(s)][p] THEN p ELSE c
           t == IF d = p THEN Rotate(tree, p, Other(s)) ELSE tree
       IN  \/ /\ tree.color[u] = "R"
              /\ tree' = Painted(Painted(Painted(tree, p, "B"), u, "B"), g, "R")
              /\ c' = g
           \/ /\ tree.color[u] = "B"
              /\ tree' = Rotate(Painted(t, t.parent[d], "B"), g, s)
              /\ c' = d
    /\ UNCHANGED <<pc, members, kept, shrunk>>

\* A turn of AdjustTreeOnInsert.  A red p is never the root: the last else of the
\* loop is not reached.
FixInsert ==
    /\ pc = "insert" /\ TwoReds
    /\ LET p == tree.parent[c]
           g == tree.parent[p]
           s == SideOf(tree, g, p)
           u == tree.kid[Other(s)][g]
           d == IF c = tree.kid[Other(s)][p] THEN p ELSE c
           t == IF d = p THEN Rotate(tree, p, Other(s)) ELSE tree
       IN  \/ /\ tree.color[u] = "R"
              /\ tree' = Painted(Painted(Painted(tree, p, "B"), u, "B"), g, "R")
              /\ c' = g
           \/ /\ tree.color[u] = "B"
              /\ tree' = Rotate(Painted(Painted(t, t.parent[d], "B"), g, "R"), g, s)
              /\ c' = d
    /\ UNCHANGED <<pc, members, kept, shrunk>>

InsertEnd == /\ pc = "insert" /\ ~TwoReds
             /\ tree' = Painted(tree, tree.entry, "B")
             /\ pc' = "idle" /\ c' = Nil
             /\ UNCHANGED <<members, kept, shrunk>>

-----------------------------------------------------------------------------
(* Delete. *)

\* nc takes the place of k; gone is the color that leaves the tree.
Delete(k) == \E nc \in Node :
    LET l    == tree.kid["l"][k]
        r    == tree.kid["r"][k]
        both == l # Nil /\ r # Nil
        gone == tree.color[IF both THEN nc ELSE k]
        t    == IF both THEN Painted(Replace(tree, nc, tree.kid["r"][nc]), nc, tree.color[k])
                ELSE tree
        done == Replace(t, k, nc)
        fix  == nc # Nil /\ gone = "B"
    IN  /\ pc = "idle" /\ Find(tree, k) = k
        /\ nc = IF both THEN LTop(tree, r) ELSE IF l = Nil THEN r ELSE l
        /\ tree' = IF done.entry = k THEN done ELSE Painted(done, k, "R")
        /\ pc' = IF fix THEN "delete" ELSE "idle"
        /\ c' = IF fix THEN nc ELSE Nil
        /\ members' = members \ {k}
        /\ kept' = IF done.entry = k THEN {k} ELSE kept \ {k}
        /\ shrunk' = TRUE

TooBlack == c # Nil /\ c # tree.entry /\ tree.color[c] = "B"

\* Mutant: c stays where it is.
FixDeleteStays ==
    /\ pc = "delete" /\ TooBlack
    /\ LET p == tree.parent[c]
           s == SideOf(tree, p, c)
           b == tree.kid[Other(s)][p]
       IN  tree' = Painted(tree, b, "R")
    /\ UNCHANGED <<pc, c, members, kept, shrunk>>

\* A turn of AdjustTreeOnDelete.
FixDelete ==
    /\ pc = "delete" /\ TooBlack
    /\ LET p == tree.parent[c]
           s == SideOf(tree, p, c)
           o == Other(s)
           b == tree.kid[o][p]
           near == tree.kid[s][b]
           far  == tree.kid[o][b]
       IN  \/ /\ tree.color[b] = "R"
              /\ tree' = Rotate(Painted(Painted(tree, b, "B"), p, "R"), p, o)
              /\ UNCHANGED c
           \/ /\ tree.color[b] = "B" /\ tree.color[near] = "B" /\ tree.color[far] = "B"
              /\ tree' = Painted(tree, b, "R")
              /\ c' = p
           \/ /\ tree.color[b] = "B" /\ {tree.color[near], tree.color[far]} # {"B"}
              /\ LET t  == IF tree.color[far] = "R" THEN tree
                           ELSE Rotate(Painted(Painted(tree, near, "B"), b, "R"), b, s)
                     q  == t.parent[c]
                     bb == t.kid[o][q]
                     u  == Painted(Painted(t, bb, t.color[q]), q, "B")
                 IN  /\ tree' = Rotate(Painted(u, t.kid[o][bb], "B"), q, o)
                     /\ c' = tree'.entry
    /\ UNCHANGED <<pc, members, kept, shrunk>>

DeleteEnd == /\ pc = "delete" /\ ~TooBlack
             /\ tree' = Painted(tree, c, "B")
             /\ pc' = "idle" /\ c' = Nil
             /\ UNCHANGED <<members, kept, shrunk>>

Clear == /\ pc = "idle"
         /\ tree' = Blank /\ members' = {} /\ kept' = {} /\ shrunk' = FALSE
         /\ UNCHANGED <<pc, c>>

Loops == FixInsert \/ InsertEnd \/ FixDelete \/ DeleteEnd

Next == (\E k \in Keys : Insert(k) \/ Delete(k)) \/ Loops \/ Clear

Spec == Init /\ [][Next]_vars

\* Lua runs a call to its end.
FairSpec == Spec /\ WF_vars(Loops)

-----------------------------------------------------------------------------
(* Properties. *)

\* Types; and the fields of NilNode, which no write changes.
IsTree(t) == /\ t \in [entry  : Node,
                       kid    : [Sides -> [Node -> Node]],
                       parent : [Node -> Node],
                       color  : [Node -> Colors]]
             /\ t.parent[Nil] = Nil /\ t.color[Nil] = "B"
             /\ \A s \in Sides : t.kid[s][Nil] = Nil
TypeOK == /\ IsTree(tree)
          /\ pc \in {"idle", "insert", "delete"} /\ c \in Node
          /\ members \subseteq Keys /\ kept \subseteq Keys /\ shrunk \in BOOLEAN

Agree(t) ==
    /\ \A n \in Keys, s \in Sides : t.kid[s][n] # Nil => t.parent[t.kid[s][n]] = n
    /\ \A n \in Keys : t.parent[n] # Nil => \E s \in Sides : t.kid[s][t.parent[n]] = n
    /\ \A n \in Keys : t.kid["l"][n] = t.kid["r"][n] => t.kid["l"][n] = Nil
    /\ t.parent[t.entry] = Nil

\* Left, right and parent agree, on which LRotate, RRotate and Replace rely, and no
\* loop meets a red root: neither the loops of an unbalanced tree nor a deletion
\* that takes the successor from under its own parent leave a link behind.
LinksAgree == Agree(tree) /\ (pc = "insert" /\ TwoReds => tree.parent[c] # tree.entry)

\* The nodes below n, itself included, and those above it.
Below(n) == Walk({n} \ {Nil}, LAMBDA S :
                S \cup ({tree.kid[s][m] : s \in Sides, m \in S} \ {Nil}))[Far]
Above(n) == LET way == Walk(n, LAMBDA m : tree.parent[m])
            IN  {way[i] : i \in 0 .. Far} \ {Nil}

\* What ToVector lists between two calls is sorted and is what callers inserted and
\* did not delete: rotations and replacements lose no subtree and exchange none,
\* whatever the colors have become.  One exception is in the code: the only node of
\* a tree is not taken out of it.
Contents == pc = "idle" =>
    /\ Below(tree.entry) = members \cup kept
    /\ \A n \in Below(tree.entry) :
          /\ \A m \in Below(tree.kid["l"][n]) : m < n
          /\ \A m \in Below(tree.kid["r"][n]) : m > n

\* What the tree's own Assert says of it, and TickTest.lua:136 after each deletion.
RedsApart == pc = "idle" =>
    \A n \in Below(tree.entry) : tree.color[n] = "R" => tree.color[tree.parent[n]] = "B"

\* As long as nothing was deleted the tree is a red-black tree: no red node has a
\* red parent (what Assert checks), and each way down passes equally many blacks.
BalancedByInsert == pc = "idle" /\ ~shrunk =>
    LET blacks(n) == Cardinality({m \in Above(n) : tree.color[m] = "B"})
        ends == {n \in Below(tree.entry) : \E s \in Sides : tree.kid[s][n] = Nil}
    IN  RedsApart /\ \A n, m \in ends : blacks(n) = blacks(m)

\* Every call returns: the loops end also on the trees that Delete leaves, where
\* equally many blacks are not to be counted on.
CallsReturn == pc # "idle" ~> pc = "idle"
=============================================================================
