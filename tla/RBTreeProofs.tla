---------------------------- MODULE RBTreeProofs ----------------------------
(***************************************************************************)
(* No operation writes to NilNode or leaves the types; the loops that      *)
(* follow an insertion or a deletion keep the nodes a forest whose links   *)
(* agree, whatever the colors are; every operation keeps a search tree of  *)
(* the keys inserted and not deleted; and while nothing is deleted, it is  *)
(* a red-black tree after each call.                                       *)
(***************************************************************************)
EXTENDS RBTree, Least, TLAPS

LEMMA PaintedType ==
    ASSUME NEW t, IsTree(t), NEW n \in Node, NEW color \in Colors
    PROVE  IsTree(Painted(t, n, color))
  BY DEF IsTree, Painted, Colors

LEMMA LinkedType ==
    ASSUME NEW t, IsTree(t), NEW p \in Keys, NEW x \in Node, NEW s \in Sides
    PROVE  IsTree(Linked(t, p, x, s))
<1>1. p \in Node /\ Nil \in Node /\ p # Nil
  BY RBTreeAssumption DEF Node
<1> QED
  BY <1>1 DEF IsTree, Linked

LEMMA SeatedType ==
    ASSUME NEW t, IsTree(t), NEW p \in Node, NEW x \in Node, NEW s \in Sides
    PROVE  IsTree(Seated(t, p, x, s))
<1>1. Nil \in Node /\ (p # Nil => p \in Keys)
  BY DEF Node
<1>2. CASE p # Nil
  BY <1>1, <1>2, LinkedType DEF Seated
<1>3. CASE p = Nil /\ x = Nil
  BY <1>3 DEF Seated
<1>4. CASE p = Nil /\ x # Nil
  BY <1>1, <1>4 DEF Seated, IsTree, Colors
<1> QED
  BY <1>2, <1>3, <1>4

LEMMA SideType == \A t, p, n : SideOf(t, p, n) \in Sides
  BY DEF SideOf, Sides

LEMMA OtherType == \A s \in Sides : Other(s) \in Sides /\ Other(s) # s /\ Other(Other(s)) = s
  BY DEF Other, Sides

LEMMA FieldType ==
    ASSUME NEW t, IsTree(t), NEW n \in Node
    PROVE  /\ t.parent[n] \in Node /\ t.color[n] \in Colors /\ t.entry \in Node
           /\ \A s \in Sides : t.kid[s][n] \in Node
  BY DEF IsTree

LEMMA RotateType ==
    ASSUME NEW t, IsTree(t), NEW n \in Node, NEW s \in Sides
    PROVE  IsTree(Rotate(t, n, s))
<1> DEFINE x == t.kid[s][n]
           p == t.parent[n]
           y == t.kid[Other(s)][x]
<1>1. CASE x = Nil
  BY <1>1 DEF Rotate
<1>2. CASE x # Nil
  <2>1. x \in Keys /\ n \in Keys
    BY <1>2, FieldType DEF Node, IsTree
  <2>2. p \in Node /\ x \in Node /\ y \in Node /\ Other(s) \in Sides
    BY FieldType, OtherType
  <2> HIDE DEF x, p, y
  <2>3. IsTree(Seated(t, p, x, SideOf(t, p, n)))
    BY <2>2, SeatedType, SideType
  <2>4. IsTree(Linked(Seated(t, p, x, SideOf(t, p, n)), n, y, s))
    BY <2>1, <2>2, <2>3, LinkedType
  <2>5. IsTree(Linked(Linked(Seated(t, p, x, SideOf(t, p, n)), n, y, s), x, n, Other(s)))
    BY <2>1, <2>2, <2>4, LinkedType
  <2> QED
    BY <1>2, <2>5 DEF Rotate, x, p, y
<1> QED
  BY <1>1, <1>2

LEMMA InheritedType ==
    ASSUME NEW t, IsTree(t), NEW m \in Node, NEW x \in Node, NEW s \in Sides
    PROVE  IsTree(Inherited(t, m, x, s))
  BY SeatedType DEF Inherited

LEMMA BareType ==
    ASSUME NEW t, IsTree(t), NEW n \in Node
    PROVE  IsTree(Bare(t, n))
<1> DEFINE u == Bare(t, n)
<1>1. u = [t EXCEPT !.kid = [s \in Sides |-> [t.kid[s] EXCEPT ![n] = Nil]],
                    !.parent = [t.parent EXCEPT ![n] = Nil]]
  BY DEF IsTree, Bare
<1>2. /\ u.kid = [s \in Sides |-> [t.kid[s] EXCEPT ![n] = Nil]]
      /\ u.parent = [t.parent EXCEPT ![n] = Nil]
      /\ u.entry = t.entry /\ u.color = t.color
      /\ u = [entry |-> u.entry, kid |-> u.kid, parent |-> u.parent, color |-> u.color]
  BY <1>1 DEF IsTree
<1>3. Nil \in Node
  BY DEF Node
<1>4. u.kid \in [Sides -> [Node -> Node]] /\ \A s \in Sides : u.kid[s][Nil] = Nil
  BY <1>2, <1>3 DEF IsTree
<1>5. u.parent \in [Node -> Node] /\ u.parent[Nil] = Nil
  BY <1>2, <1>3 DEF IsTree
<1> QED
  BY <1>2, <1>4, <1>5 DEF IsTree

LEMMA ReplaceType ==
    ASSUME NEW t, IsTree(t), NEW n \in Node, NEW m \in Node
    PROVE  IsTree(Replace(t, n, m))
<1> DEFINE l == t.kid["l"][n]
           r == t.kid["r"][n]
           p == t.parent[n]
           v == Inherited(Bare(t, n), m, r, "r")
           w == Inherited(v, m, l, "l")
<1>1. "l" \in Sides /\ "r" \in Sides
  BY DEF Sides
<1>2. l \in Node /\ r \in Node /\ p \in Node
  BY <1>1, FieldType
<1> HIDE DEF l, r, p
<1>3. IsTree(v)
  BY <1>1, <1>2, BareType, InheritedType
<1>4. IsTree(w)
  BY <1>1, <1>2, <1>3, InheritedType
<1>5. IsTree(Seated(w, p, m, SideOf(t, p, n)))
  BY <1>2, <1>4, SeatedType, SideType
<1> QED
  BY <1>5 DEF Replace, l, r, p, v, w

-----------------------------------------------------------------------------
(* Types. *)

LEMMA BlankType == IsTree(Blank)
  BY DEF Blank, IsTree, Node, Colors

LEMMA InsertType == ASSUME TypeOK, NEW k \in Keys, Insert(k) PROVE TypeOK'
<1>1. k \in Node /\ k # Nil /\ "l" \in Sides /\ "r" \in Sides
  BY RBTreeAssumption DEF Node, Sides
<1>2. CASE tree' = [Blank EXCEPT !.entry = k, !.color[k] = "B"] /\ UNCHANGED <<pc, c>>
  <2>1. IsTree(tree')
    <3>1. tree' = Painted([Blank EXCEPT !.entry = k], k, "B")
      BY <1>1, <1>2 DEF Painted
    <3>2. IsTree([Blank EXCEPT !.entry = k])
      BY <1>1, BlankType DEF IsTree
    <3> QED
      BY <1>1, <3>1, <3>2, PaintedType DEF Colors
  <2> QED
    BY <1>1, <1>2, <2>1 DEF TypeOK, Insert
<1>3. CASE UNCHANGED <<tree, pc, c>>
  BY <1>3 DEF TypeOK, Insert
<1>4. CASE /\ \E p \in Keys : tree' = Linked(tree, p, k, IF k < p THEN "l" ELSE "r")
           /\ pc' = "insert" /\ c' = k
  <2>1. PICK p \in Keys : tree' = Linked(tree, p, k, IF k < p THEN "l" ELSE "r")
    BY <1>4
  <2>2. (IF k < p THEN "l" ELSE "r") \in Sides
    BY <1>1
  <2>3. IsTree(tree')
    BY <1>1, <2>1, <2>2, LinkedType DEF TypeOK
  <2> QED
    BY <1>1, <1>4, <2>3 DEF TypeOK, Insert
<1> QED
  BY <1>2, <1>3, <1>4 DEF Insert

LEMMA DeleteType == ASSUME TypeOK, NEW k \in Keys, Delete(k) PROVE TypeOK'
<1>1. k \in Node /\ Nil \in Node /\ "r" \in Sides /\ IsTree(tree)
      /\ "R" \in Colors /\ "B" \in Colors
  BY DEF Node, Sides, Colors, TypeOK
<1>2. PICK nc \in Node :
        LET l    == tree.kid["l"][k]
            r    == tree.kid["r"][k]
            both == l # Nil /\ r # Nil
            gone == tree.color[IF both THEN nc ELSE k]
            t    == IF both
                    THEN Painted(Replace(tree, nc, tree.kid["r"][nc]), nc, tree.color[k])
                    ELSE tree
            done == Replace(t, k, nc)
            fix  == nc # Nil /\ gone = "B"
        IN  /\ tree' = IF done.entry = k THEN done ELSE Painted(done, k, "R")
            /\ pc' = IF fix THEN "delete" ELSE "idle"
            /\ c' = IF fix THEN nc ELSE Nil
            /\ members' = members \ {k}
            /\ kept' = IF done.entry = k THEN {k} ELSE kept \ {k}
            /\ shrunk' = TRUE
  BY DEF Delete
<1> DEFINE both == tree.kid["l"][k] # Nil /\ tree.kid["r"][k] # Nil
           t == IF both THEN Painted(Replace(tree, nc, tree.kid["r"][nc]), nc, tree.color[k])
                ELSE tree
           done == Replace(t, k, nc)
<1>3. IsTree(t)
  <2>1. tree.kid["r"][nc] \in Node /\ tree.color[k] \in Colors
    BY <1>1, FieldType
  <2>2. IsTree(Replace(tree, nc, tree.kid["r"][nc]))
    BY <1>1, <2>1, ReplaceType
  <2>3. IsTree(Painted(Replace(tree, nc, tree.kid["r"][nc]), nc, tree.color[k]))
    BY <2>1, <2>2, PaintedType
  <2> QED
    BY <1>1, <2>3
<1>4. IsTree(done)
  BY <1>1, <1>3, ReplaceType
<1>5. tree' = (IF done.entry = k THEN done ELSE Painted(done, k, "R"))
  BY <1>2
<1>6. IsTree(tree')
  BY <1>1, <1>4, <1>5, PaintedType
<1>7. pc' \in {"delete", "idle"} /\ c' \in Node /\ shrunk' \in BOOLEAN
      /\ members' \subseteq Keys /\ kept' \subseteq Keys
  BY <1>1, <1>2 DEF TypeOK
<1> QED
  BY <1>6, <1>7 DEF TypeOK

LEMMA FixInsertType == ASSUME TypeOK, FixInsert PROVE TypeOK'
<1> DEFINE p == tree.parent[c]
           g == tree.parent[p]
           s == SideOf(tree, g, p)
           u == tree.kid[Other(s)][g]
           d == IF c = tree.kid[Other(s)][p] THEN p ELSE c
           t == IF d = p THEN Rotate(tree, p, Other(s)) ELSE tree
<1>1. IsTree(tree) /\ c \in Node /\ "R" \in Colors /\ "B" \in Colors
  BY DEF TypeOK, Colors
<1>2. s \in Sides /\ Other(s) \in Sides
  BY SideType, OtherType
<1> HIDE DEF s
<1>3. p \in Node /\ g \in Node /\ u \in Node /\ d \in Node
  BY <1>1, <1>2, FieldType
<1>4. /\ \/ tree' = Painted(Painted(Painted(tree, p, "B"), u, "B"), g, "R") /\ c' = g
         \/ tree' = Rotate(Painted(Painted(t, t.parent[d], "B"), g, "R"), g, s) /\ c' = d
      /\ UNCHANGED <<pc, members, kept, shrunk>>
  BY DEF FixInsert, s
<1>5. IsTree(t)
  BY <1>1, <1>2, <1>3, RotateType
<1>6. t.parent[d] \in Node
  BY <1>3, <1>5, FieldType
<1> HIDE DEF p, g, u, d, t
<1>7. IsTree(Painted(Painted(Painted(tree, p, "B"), u, "B"), g, "R"))
  BY <1>1, <1>3, PaintedType
<1>8. IsTree(Rotate(Painted(Painted(t, t.parent[d], "B"), g, "R"), g, s))
  <2>1. IsTree(Painted(Painted(t, t.parent[d], "B"), g, "R"))
    BY <1>1, <1>3, <1>5, <1>6, PaintedType
  <2> QED
    BY <1>2, <1>3, <2>1, RotateType
<1> QED
  BY <1>3, <1>4, <1>7, <1>8 DEF TypeOK

\* The last turn of AdjustTreeOnDelete's loop, from the tree t its brother is turned in.
LEMMA LastTurnType ==
    ASSUME NEW t, IsTree(t), NEW n \in Node, NEW o \in Sides
    PROVE  LET q == t.parent[n]
               b == t.kid[o][q]
               u == Painted(Painted(t, b, t.color[q]), q, "B")
           IN  IsTree(Rotate(Painted(u, t.kid[o][b], "B"), q, o))
<1> DEFINE q == t.parent[n]
           b == t.kid[o][q]
           u == Painted(Painted(t, b, t.color[q]), q, "B")
<1>1. q \in Node /\ b \in Node /\ t.kid[o][b] \in Node /\ t.color[q] \in Colors
      /\ "B" \in Colors
  BY FieldType DEF Colors
<1> HIDE DEF q, b
<1>2. IsTree(Painted(u, t.kid[o][b], "B"))
  BY <1>1, PaintedType
<1>3. IsTree(Rotate(Painted(u, t.kid[o][b], "B"), q, o))
  BY <1>1, <1>2, RotateType
<1> QED
  BY <1>3 DEF q, b

LEMMA FixDeleteType == ASSUME TypeOK, FixDelete PROVE TypeOK'
<1> DEFINE p == tree.parent[c]
           s == SideOf(tree, p, c)
           o == Other(s)
           b == tree.kid[o][p]
           near == tree.kid[s][b]
           far == tree.kid[o][b]
           t == IF tree.color[far] = "R" THEN tree
                ELSE Rotate(Painted(Painted(tree, near, "B"), b, "R"), b, s)
           q == t.parent[c]
           bb == t.kid[o][q]
           u == Painted(Painted(t, bb, t.color[q]), q, "B")
<1>1. IsTree(tree) /\ c \in Node /\ "R" \in Colors /\ "B" \in Colors
  BY DEF TypeOK, Colors
<1>2. s \in Sides /\ o \in Sides
  BY SideType, OtherType
<1>3. p \in Node
  BY <1>1, FieldType
<1> HIDE DEF s, o, p
<1>4. b \in Node
  BY <1>1, <1>2, <1>3, FieldType
<1> HIDE DEF b
<1>5. near \in Node /\ far \in Node
  BY <1>1, <1>2, <1>4, FieldType
<1> HIDE DEF near, far
<1>6. IsTree(t)
  <2>1. IsTree(Painted(Painted(tree, near, "B"), b, "R"))
    BY <1>1, <1>4, <1>5, PaintedType
  <2>2. IsTree(Rotate(Painted(Painted(tree, near, "B"), b, "R"), b, s))
    BY <1>2, <1>4, <2>1, RotateType
  <2> QED
    BY <1>1, <2>2
<1> HIDE DEF t
<1>7. /\ \/ tree' = Rotate(Painted(Painted(tree, b, "B"), p, "R"), p, o) /\ c' = c
         \/ tree' = Painted(tree, b, "R") /\ c' = p
         \/ tree' = Rotate(Painted(u, t.kid[o][bb], "B"), q, o) /\ c' = tree'.entry
      /\ UNCHANGED <<pc, members, kept, shrunk>>
  BY DEF FixDelete, t, near, far, b, p, o, s
<1>8. IsTree(Rotate(Painted(u, t.kid[o][bb], "B"), q, o))
  BY <1>1, <1>2, <1>6, LastTurnType
<1>9. IsTree(Rotate(Painted(Painted(tree, b, "B"), p, "R"), p, o))
  <2>1. IsTree(Painted(Painted(tree, b, "B"), p, "R"))
    BY <1>1, <1>3, <1>4, PaintedType
  <2> QED
    BY <1>2, <1>3, <2>1, RotateType
<1>10. IsTree(Painted(tree, b, "R"))
  BY <1>1, <1>4, PaintedType
<1>11. IsTree(tree')
  BY <1>1, <1>7, <1>8, <1>9, <1>10
<1>12. tree'.entry \in Node
  BY <1>11 DEF IsTree
<1> QED
  BY <1>1, <1>3, <1>7, <1>11, <1>12 DEF TypeOK

LEMMA TypeStep == ASSUME TypeOK, [Next]_vars PROVE TypeOK'
<1>1. CASE \E k \in Keys : Insert(k)
  BY <1>1, InsertType
<1>2. CASE \E k \in Keys : Delete(k)
  BY <1>2, DeleteType
<1>3. CASE FixInsert
  BY <1>3, FixInsertType
<1>4. CASE FixDelete
  BY <1>4, FixDeleteType
<1>5. CASE InsertEnd
  <2>1. tree.entry \in Node /\ "B" \in Colors /\ Nil \in Node
    BY DEF TypeOK, IsTree, Colors, Node
  <2> QED
    BY <1>5, <2>1, PaintedType DEF InsertEnd, TypeOK
<1>6. CASE DeleteEnd
  <2>1. "B" \in Colors /\ Nil \in Node
    BY DEF Colors, Node
  <2> QED
    BY <1>6, <2>1, PaintedType DEF DeleteEnd, TypeOK
<1>7. CASE Clear
  BY <1>7, BlankType DEF Clear, TypeOK
<1>8. CASE UNCHANGED vars
  BY <1>8 DEF vars, TypeOK
<1> QED
  BY <1>1, <1>2, <1>3, <1>4, <1>5, <1>6, <1>7, <1>8 DEF Next, Loops

\* No operation leaves the types or writes to NilNode (RBTree.lua:6-12), for any
\* finite set of keys.
THEOREM TypeCorrect == Spec => []TypeOK
<1>1. Init => TypeOK
  BY BlankType DEF Init, TypeOK, Node
<1>2. TypeOK /\ [Next]_vars => TypeOK'
  BY TypeStep
<1> QED
  BY <1>1, <1>2, PTL DEF Spec
-----------------------------------------------------------------------------
(* Links. *)

\* No node is above itself: each can be given a depth.
Rising(t) == \E d \in [Node -> Nat] :
                 \A n \in Keys : t.parent[n] # Nil => d[t.parent[n]] < d[n]

Forest(t) == IsTree(t) /\ Agree(t) /\ Rising(t)

LEMMA PaintedForest ==
    ASSUME NEW t, Forest(t), NEW n \in Node, NEW color \in Colors
    PROVE  Forest(Painted(t, n, color))
<1>1. IsTree(Painted(t, n, color))
  BY PaintedType DEF Forest
<1>2. /\ Painted(t, n, color).kid = t.kid
      /\ Painted(t, n, color).parent = t.parent
      /\ Painted(t, n, color).entry = t.entry
  BY DEF Forest, IsTree, Painted
<1>3. Agree(Painted(t, n, color))
  BY <1>2 DEF Forest, Agree
<1>4. Rising(Painted(t, n, color))
  BY <1>2 DEF Forest, Rising
<1> QED
  BY <1>1, <1>3, <1>4 DEF Forest

LEMMA ParentIsOther == ASSUME NEW t, Forest(t), NEW n \in Keys PROVE t.parent[n] # n
<1>1. PICK d \in [Node -> Nat] : \A m \in Keys : t.parent[m] # Nil => d[t.parent[m]] < d[m]
  BY DEF Forest, Rising
<1>2. n \in Node /\ n # Nil /\ d[n] \in Nat
  BY RBTreeAssumption DEF Node
<1> QED
  BY <1>1, <1>2

\* What Linked and Seated write.
LEMMA LinkedFields ==
    ASSUME NEW t, IsTree(t), NEW p \in Keys, NEW x \in Node, NEW s \in Sides
    PROVE  LET u == Linked(t, p, x, s)
           IN  /\ u.entry = t.entry
               /\ \A m \in Node : u.parent[m] = IF m = x THEN IF x = Nil THEN Nil ELSE p
                                                ELSE t.parent[m]
               /\ \A m \in Node, z \in Sides :
                     u.kid[z][m] = IF m = p /\ z = s THEN x ELSE t.kid[z][m]
  BY DEF IsTree, Linked, Node

LEMMA SeatedFields ==
    ASSUME NEW t, IsTree(t), NEW p \in Node, NEW x \in Keys, NEW s \in Sides
    PROVE  LET u == Seated(t, p, x, s)
           IN  /\ u.entry = IF p = Nil THEN x ELSE t.entry
               /\ \A m \in Node : u.parent[m] = IF m = x THEN p ELSE t.parent[m]
               /\ \A m \in Node, z \in Sides :
                     u.kid[z][m] = IF p # Nil /\ m = p /\ z = s THEN x ELSE t.kid[z][m]
<1> DEFINE u == Seated(t, p, x, s)
<1>1. x \in Node /\ x # Nil
  BY RBTreeAssumption DEF Node
<1>2. CASE p # Nil
  <2>1. p \in Keys /\ u = Linked(t, p, x, s)
    BY <1>2 DEF Node, Seated
  <2> QED
    BY <1>1, <1>2, <2>1, LinkedFields
<1>3. CASE p = Nil
  <2>1. u = [t EXCEPT !.entry = x, !.color = [t.color EXCEPT ![x] = "B"],
                      !.parent = [t.parent EXCEPT ![x] = Nil]]
    BY <1>1, <1>3 DEF Seated, IsTree
  <2> QED
    BY <1>1, <1>3, <2>1 DEF IsTree
<1> QED
  BY <1>2, <1>3

\* What a rotation writes, when there is a child to bring up.
LEMMA RotateFields ==
    ASSUME NEW t, Forest(t), NEW n \in Keys, NEW s \in Sides, t.kid[s][n] # Nil
    PROVE  LET x == t.kid[s][n]
               p == t.parent[n]
               o == Other(s)
               y == t.kid[o][x]
               f == SideOf(t, p, n)
               u == Rotate(t, n, s)
           IN  /\ x \in Keys /\ p \in Node /\ y \in Node /\ o \in Sides /\ f \in Sides
               /\ t.parent[x] = n /\ (y # Nil => t.parent[y] = x)
               /\ (p # Nil => t.kid[f][p] = n)
               /\ x # n /\ p # n /\ p # x /\ y # x /\ y # n /\ (p # Nil => y # p)
               /\ u.entry = IF p = Nil THEN x ELSE t.entry
               /\ \A m \in Keys : u.parent[m] = IF m = x THEN p ELSE IF m = n THEN x
                                                ELSE IF m = y THEN n ELSE t.parent[m]
               /\ \A m \in Keys, z \in Sides :
                     u.kid[z][m] = IF m = n /\ z = s THEN y ELSE IF m = x /\ z = o THEN n
                                   ELSE IF m = p /\ z = f THEN x ELSE t.kid[z][m]
<1> DEFINE x == t.kid[s][n]
           p == t.parent[n]
           o == Other(s)
           y == t.kid[o][x]
           f == SideOf(t, p, n)
           u1 == Seated(t, p, x, f)
           u2 == Linked(u1, n, y, s)
           u == Linked(u2, x, n, o)
<1>1. IsTree(t) /\ Agree(t) /\ Nil \in Node /\ n \in Node /\ n # Nil
  BY RBTreeAssumption DEF Forest, Node
<1>2. x \in Keys /\ x \in Node /\ p \in Node /\ y \in Node /\ o \in Sides /\ f \in Sides
  BY <1>1, FieldType, SideType, OtherType DEF Node
<1>3. t.parent[x] = n
  BY <1>1 DEF Agree
<1>4. y # Nil => t.parent[y] = x
  BY <1>1, <1>2 DEF Agree
<1>5. p # Nil => t.kid[f][p] = n
  BY <1>1 DEF Agree, SideOf, Sides
<1>6. x # n /\ p # n /\ p # x /\ y # x /\ y # n /\ (p # Nil => y # p)
  <2>1. PICK d \in [Node -> Nat] : \A m \in Keys : t.parent[m] # Nil => d[t.parent[m]] < d[m]
    BY DEF Forest, Rising
  <2>2. d[n] < d[x] /\ d[n] \in Nat /\ d[x] \in Nat
    BY <1>1, <1>2, <1>3, <2>1
  <2>3. p # Nil => d[p] < d[n] /\ d[p] \in Nat
    BY <1>1, <1>2, <2>1
  <2>4. y # Nil => d[x] < d[y] /\ d[y] \in Nat
    BY <1>1, <1>2, <1>4, <2>1 DEF Node
  <2>5. n # Nil /\ x # Nil
    BY <1>1
  <2> HIDE DEF x, p, y
  <2> QED
    BY <2>2, <2>3, <2>4, <2>5
<1>7. Rotate(t, n, s) = u
  BY DEF Rotate
<1> HIDE DEF x, p, o, y, f
<1>8. IsTree(u1) /\ IsTree(u2)
  BY <1>1, <1>2, SeatedType, LinkedType
<1>9. /\ u1.entry = IF p = Nil THEN x ELSE t.entry
      /\ \A m \in Node : u1.parent[m] = IF m = x THEN p ELSE t.parent[m]
      /\ \A m \in Node, z \in Sides :
            u1.kid[z][m] = IF p # Nil /\ m = p /\ z = f THEN x ELSE t.kid[z][m]
  BY <1>1, <1>2, SeatedFields
<1> HIDE DEF u1
<1>10. /\ u2.entry = u1.entry
       /\ \A m \in Node : u2.parent[m] = IF m = y THEN IF y = Nil THEN Nil ELSE n
                                         ELSE u1.parent[m]
       /\ \A m \in Node, z \in Sides :
             u2.kid[z][m] = IF m = n /\ z = s THEN y ELSE u1.kid[z][m]
  BY <1>2, <1>8, LinkedFields
<1> HIDE DEF u2
<1>11. /\ u.entry = u2.entry
       /\ \A m \in Node : u.parent[m] = IF m = n THEN IF n = Nil THEN Nil ELSE x
                                        ELSE u2.parent[m]
       /\ \A m \in Node, z \in Sides :
             u.kid[z][m] = IF m = x /\ z = o THEN n ELSE u2.kid[z][m]
  BY <1>1, <1>2, <1>8, LinkedFields
<1> HIDE DEF u
<1>12. \A m \in Keys : m \in Node /\ m # Nil
  BY RBTreeAssumption DEF Node
<1>13. \A m \in Keys : u.parent[m] = IF m = x THEN p ELSE IF m = n THEN x
                                     ELSE IF m = y THEN n ELSE t.parent[m]
  BY <1>1, <1>6, <1>9, <1>10, <1>11, <1>12
<1>14. \A m \in Keys, z \in Sides :
          u.kid[z][m] = IF m = n /\ z = s THEN y ELSE IF m = x /\ z = o THEN n
                        ELSE IF m = p /\ z = f THEN x ELSE t.kid[z][m]
  BY <1>6, <1>9, <1>10, <1>11, <1>12
<1>15. u.entry = IF p = Nil THEN x ELSE t.entry
  BY <1>9, <1>10, <1>11
<1> QED
  BY <1>2, <1>3, <1>4, <1>5, <1>6, <1>7, <1>13, <1>14, <1>15 DEF x, p, o, y, f

\* A rotation brings a child up whatever the colors are: nothing is linked twice or
\* left behind, and no node comes to stand above itself.
THEOREM RotateKeepsForest ==
    ASSUME NEW t, Forest(t), NEW n \in Keys, NEW s \in Sides
    PROVE  Forest(Rotate(t, n, s))
<1> DEFINE x == t.kid[s][n]
           p == t.parent[n]
           o == Other(s)
           y == t.kid[o][x]
           f == SideOf(t, p, n)
           u == Rotate(t, n, s)
<1>1. CASE x = Nil
  BY <1>1 DEF Rotate
<1>2. CASE x # Nil
  <2>1. /\ x \in Keys /\ p \in Node /\ y \in Node /\ o \in Sides /\ f \in Sides
        /\ t.parent[x] = n /\ (y # Nil => t.parent[y] = x)
        /\ (p # Nil => t.kid[f][p] = n)
        /\ x # n /\ p # n /\ p # x /\ y # x /\ y # n /\ (p # Nil => y # p)
        /\ u.entry = IF p = Nil THEN x ELSE t.entry
    BY <1>2, RotateFields
  <2>2. \A m \in Keys : u.parent[m] = IF m = x THEN p ELSE IF m = n THEN x
                                      ELSE IF m = y THEN n ELSE t.parent[m]
    BY <1>2, RotateFields
  <2>3. \A m \in Keys, z \in Sides :
           u.kid[z][m] = IF m = n /\ z = s THEN y ELSE IF m = x /\ z = o THEN n
                         ELSE IF m = p /\ z = f THEN x ELSE t.kid[z][m]
    BY <1>2, RotateFields
  <2>4. /\ IsTree(t) /\ IsTree(u) /\ o # s /\ Sides = {s, o}
        /\ n \in Node /\ \A m \in Keys : m \in Node /\ m # Nil
    BY RotateType, RBTreeAssumption DEF Forest, Node, Other, Sides
  <2>5. /\ \A m \in Keys, z \in Sides : t.kid[z][m] # Nil => t.parent[t.kid[z][m]] = m
        /\ \A m \in Keys : t.parent[m] # Nil => \E z \in Sides : t.kid[z][t.parent[m]] = m
        /\ \A m \in Keys : t.kid[s][m] = t.kid[o][m] => t.kid[s][m] = Nil
        /\ t.parent[t.entry] = Nil
    BY <2>4 DEF Forest, Agree, Sides
  <2>6. \A m \in Keys, z \in Sides : t.kid[z][m] \in Node /\ t.parent[m] \in Node
    BY <2>4, FieldType
  <2>7. x = t.kid[s][n] /\ p = t.parent[n] /\ y = t.kid[o][x]
    OBVIOUS
  <2>8. u.parent[Nil] = Nil /\ t.entry \in Node
    BY <2>4 DEF IsTree
  <2> HIDE DEF x, p, o, y, f, u
  <2>9. ASSUME NEW m \in Keys, NEW z \in Sides, u.kid[z][m] # Nil
        PROVE  u.parent[u.kid[z][m]] = m
    <3>1. \/ u.kid[z][m] = y /\ m = n
          \/ u.kid[z][m] = n /\ m = x
          \/ u.kid[z][m] = x /\ m = p
          \/ /\ u.kid[z][m] = t.kid[z][m] /\ ~(m = n /\ z = s) /\ ~(m = x /\ z = o)
             /\ ~(m = p /\ z = f)
      BY <2>3
    <3>2. CASE u.kid[z][m] = y /\ m = n
      <4>1. y \in Keys
        BY <2>1, <2>9, <3>2 DEF Node
      <4> QED
        BY <2>1, <2>2, <3>2, <4>1
    <3>3. CASE u.kid[z][m] = n /\ m = x
      BY <2>1, <2>2, <3>3
    <3>4. CASE u.kid[z][m] = x /\ m = p
      BY <2>1, <2>2, <3>4
    <3>5. CASE /\ u.kid[z][m] = t.kid[z][m] /\ ~(m = n /\ z = s) /\ ~(m = x /\ z = o)
               /\ ~(m = p /\ z = f)
      <4> DEFINE k == t.kid[z][m]
      <4>1. k \in Keys /\ t.parent[k] = m
        BY <2>5, <2>6, <2>9, <3>5 DEF Node
      <4>2. k # x
        BY <2>1, <2>4, <2>5, <2>7, <3>5, <4>1
      <4>3. k # n
        <5>1. SUFFICES ASSUME k = n PROVE FALSE
          OBVIOUS
        <5>2. m = p /\ p # Nil /\ t.kid[f][m] = n /\ t.kid[z][m] = n /\ z # f
          BY <2>1, <2>4, <2>7, <3>5, <4>1, <5>1
        <5>3. t.kid[s][m] = n /\ t.kid[o][m] = n
          BY <2>1, <2>4, <5>2
        <5> QED
          BY <2>4, <2>5, <5>3
      <4>4. k # y
        BY <2>1, <2>4, <2>5, <2>7, <3>5, <4>1
      <4>5. u.parent[k] = m
        BY <2>2, <4>1, <4>2, <4>3, <4>4
      <4> QED
        BY <3>5, <4>5
    <3> QED
      BY <3>1, <3>2, <3>3, <3>4, <3>5
  <2>10. ASSUME NEW m \in Keys, u.parent[m] # Nil
         PROVE  \E z \in Sides : u.kid[z][u.parent[m]] = m
    <3>1. CASE m = x
      <4>1. u.parent[m] = p /\ p \in Keys
        BY <2>1, <2>2, <2>10, <3>1 DEF Node
      <4>2. u.kid[f][p] = x
        BY <2>1, <2>3, <4>1
      <4> QED
        BY <2>1, <3>1, <4>1, <4>2
    <3>2. CASE m = n
      <4>1. u.parent[m] = x /\ u.kid[o][x] = n
        BY <2>1, <2>2, <2>3, <3>2
      <4> QED
        BY <2>1, <3>2, <4>1
    <3>3. CASE m = y
      <4>1. u.parent[m] = n /\ u.kid[s][n] = y
        BY <2>1, <2>2, <2>3, <3>3
      <4> QED
        BY <3>3, <4>1
    <3>4. CASE m \notin {x, n, y}
      <4> DEFINE q == t.parent[m]
      <4>1. u.parent[m] = q /\ q \in Keys
        BY <2>2, <2>6, <2>10, <3>4 DEF Node
      <4>2. PICK z \in Sides : t.kid[z][q] = m
        BY <2>5, <4>1, <2>10
      <4> HIDE DEF q
      <4>3. u.kid[z][q] = m
        BY <2>1, <2>3, <2>4, <2>7, <3>4, <4>1, <4>2
      <4> QED
        BY <4>1, <4>3
    <3> QED
      BY <3>1, <3>2, <3>3, <3>4
  <2>11. ASSUME NEW m \in Keys, u.kid[s][m] = u.kid[o][m]
         PROVE  u.kid[s][m] = Nil
    <3>1. \A z \in Sides : u.kid[z][m] # Nil => u.parent[u.kid[z][m]] = m
      BY <2>9
    <3>2. CASE m = n
      <4>1. u.kid[s][m] = y
        BY <2>3, <3>2
      <4>2. u.kid[o][m] = t.kid[o][n]
        BY <2>1, <2>3, <2>4, <3>2
      <4>3. t.kid[o][n] # Nil => t.parent[t.kid[o][n]] = n
        BY <2>1, <2>5
      <4> QED
        BY <2>1, <2>11, <4>1, <4>2, <4>3
    <3>3. CASE m = x
      <4>1. u.kid[o][m] = n
        BY <2>1, <2>3, <3>3
      <4>2. u.kid[s][m] = t.kid[s][x]
        BY <2>1, <2>3, <2>4, <3>3
      <4>3. t.kid[s][x] # Nil => t.parent[t.kid[s][x]] = x
        BY <2>1, <2>5
      <4> QED
        BY <2>1, <2>4, <2>7, <2>11, <4>1, <4>2, <4>3
    <3>4. CASE m = p
      <4> DEFINE g == Other(f)
      <4>1. g \in Sides /\ g # f /\ Sides = {f, g}
        BY <2>1, OtherType DEF Sides, Other
      <4>2. u.kid[f][m] = x /\ u.kid[g][m] = t.kid[g][p]
        BY <2>1, <2>3, <3>4, <4>1
      <4>3. t.kid[g][p] # Nil => t.parent[t.kid[g][p]] = p
        BY <2>5, <3>4, <4>1
      <4>4. u.kid[f][m] = u.kid[g][m]
        BY <2>1, <2>4, <2>11, <4>1
      <4> QED
        BY <2>1, <4>2, <4>3, <4>4, <2>4
    <3>5. CASE m \notin {n, x, p}
      BY <2>1, <2>3, <2>5, <2>11, <3>5
    <3> QED
      BY <3>2, <3>3, <3>4, <3>5
  <2>12. u.parent[u.entry] = Nil
    <3>1. CASE p = Nil
      BY <2>1, <2>2, <3>1
    <3>2. CASE p # Nil /\ t.entry = Nil
      BY <2>1, <2>8, <3>2
    <3>3. CASE p # Nil /\ t.entry # Nil
      <4>1. t.entry \in Keys /\ u.entry = t.entry
        BY <2>1, <2>8, <3>3 DEF Node
      <4>2. t.entry \notin {x, n, y}
        BY <2>1, <2>4, <2>5, <2>7, <3>3
      <4> QED
        BY <2>2, <2>5, <4>1, <4>2
    <3> QED
      BY <3>1, <3>2, <3>3
  <2>13. Agree(u)
    <3>1. \A m \in Keys : u.kid["l"][m] = u.kid["r"][m] => u.kid["l"][m] = Nil
      BY <2>4, <2>11 DEF Sides
    <3> QED
      BY <2>9, <2>10, <2>12, <3>1 DEF Agree
  <2>14. Rising(u)
    <3>1. PICK d \in [Node -> Nat] : \A m \in Keys : t.parent[m] # Nil => d[t.parent[m]] < d[m]
      BY DEF Forest, Rising
    <3> DEFINE e == [m \in Node |-> IF m = x THEN 2 * d[n] ELSE IF m = n THEN 2 * d[n] + 1
                                   ELSE 2 * d[m]]
    <3>2. e \in [Node -> Nat]
      BY <2>4
    <3>3. ASSUME NEW m \in Keys, u.parent[m] # Nil
          PROVE  e[u.parent[m]] < e[m]
      <4>1. \A k \in Node : d[k] \in Nat
        OBVIOUS
      <4>2. x \in Node /\ n \in Node /\ m \in Node /\ m # Nil
        BY <2>1, <2>4
      <4>3. CASE m = x
        <5>1. u.parent[m] = p /\ p # Nil /\ d[p] < d[n]
          BY <2>1, <2>2, <2>4, <2>7, <3>1, <3>3, <4>3
        <5>2. e[m] = 2 * d[n] /\ e[p] = 2 * d[p]
          BY <2>1, <4>2, <4>3
        <5> QED
          BY <2>1, <4>1, <4>2, <5>1, <5>2
      <4>4. CASE m = n
        <5>1. u.parent[m] = x
          BY <2>1, <2>2, <4>4
        <5>2. e[x] = 2 * d[n] /\ e[m] = 2 * d[n] + 1
          BY <2>1, <4>2, <4>4
        <5> QED
          BY <4>1, <4>2, <5>1, <5>2
      <4>5. CASE m = y
        <5>1. u.parent[m] = n /\ t.parent[y] = x
          BY <2>1, <2>2, <4>2, <4>5
        <5>2. d[n] < d[x] /\ d[x] < d[y]
          BY <2>1, <2>4, <3>1, <4>2, <4>5, <5>1
        <5>3. e[n] = 2 * d[n] + 1 /\ e[m] = 2 * d[y]
          BY <2>1, <4>2, <4>5
        <5> QED
          BY <2>1, <4>1, <4>2, <5>1, <5>2, <5>3
      <4>6. CASE m \notin {x, n, y}
        <5> DEFINE q == t.parent[m]
        <5>1. u.parent[m] = q /\ q \in Node /\ q # Nil
          BY <2>2, <2>6, <3>3, <4>6
        <5>2. d[q] < d[m]
          BY <3>1, <3>3, <5>1
        <5>3. e[m] = 2 * d[m]
          BY <4>2, <4>6
        <5>4. d[n] < d[x]
          BY <2>1, <2>4, <3>1
        <5> HIDE DEF q
        <5>5. e[q] = IF q = x THEN 2 * d[n] ELSE IF q = n THEN 2 * d[n] + 1 ELSE 2 * d[q]
          BY <5>1
        <5> HIDE DEF e
        <5>6. d[q] \in Nat /\ d[m] \in Nat /\ d[n] \in Nat /\ d[x] \in Nat
          BY <4>1, <4>2, <5>1
        <5>7. e[q] < e[m]
          BY <5>2, <5>3, <5>4, <5>5, <5>6
        <5> QED
          BY <5>1, <5>7
      <4> QED
        BY <4>3, <4>4, <4>5, <4>6
    <3> HIDE DEF e
    <3> QED
      BY <3>2, <3>3 DEF Rising
  <2>15. Forest(u)
    BY <2>4, <2>13, <2>14 DEF Forest
  <2> QED
    BY <2>15 DEF u
<1> QED
  BY <1>1, <1>2

LEMMA RotateAny ==
    ASSUME NEW t, Forest(t), NEW n \in Node, NEW s \in Sides
    PROVE  Forest(Rotate(t, n, s))
<1>1. CASE n = Nil
  BY <1>1 DEF Rotate, Forest, IsTree
<1>2. CASE n # Nil
  BY <1>2, RotateKeepsForest DEF Node
<1> QED
  BY <1>1, <1>2

\* A set of trees that painting and rotating do not leave.
Closed(P) == \A t \in P : /\ IsTree(t)
                          /\ \A n \in Node, color \in Colors : Painted(t, n, color) \in P
                          /\ \A n \in Node, s \in Sides : Rotate(t, n, s) \in P

LEMMA ClosedFacts ==
    ASSUME NEW P, Closed(P), NEW t \in P
    PROVE  /\ IsTree(t)
           /\ \A n \in Node, color \in Colors : Painted(t, n, color) \in P
           /\ \A n \in Node, s \in Sides : Rotate(t, n, s) \in P
  BY DEF Closed

LEMMA FixInsertKeeps ==
    ASSUME NEW P, Closed(P), tree \in P, c \in Node, FixInsert
    PROVE  tree' \in P /\ c' \in Node
<1> DEFINE p == tree.parent[c]
           g == tree.parent[p]
           s == SideOf(tree, g, p)
           u == tree.kid[Other(s)][g]
           d == IF c = tree.kid[Other(s)][p] THEN p ELSE c
           t == IF d = p THEN Rotate(tree, p, Other(s)) ELSE tree
<1>1. IsTree(tree) /\ "R" \in Colors /\ "B" \in Colors
  BY ClosedFacts DEF Colors
<1>2. s \in Sides /\ Other(s) \in Sides
  BY SideType, OtherType
<1> HIDE DEF s
<1>3. p \in Node /\ g \in Node /\ u \in Node /\ d \in Node
  BY <1>1, <1>2, FieldType
<1>4. \/ tree' = Painted(Painted(Painted(tree, p, "B"), u, "B"), g, "R") /\ c' = g
      \/ tree' = Rotate(Painted(Painted(t, t.parent[d], "B"), g, "R"), g, s) /\ c' = d
  BY DEF FixInsert, s
<1>5. t \in P
  BY <1>2, <1>3, ClosedFacts
<1>6. t.parent[d] \in Node
  BY <1>3, <1>5, FieldType, ClosedFacts
<1> HIDE DEF p, g, u, d, t
<1>7. Painted(Painted(Painted(tree, p, "B"), u, "B"), g, "R") \in P
  BY <1>1, <1>3, ClosedFacts
<1>8. Rotate(Painted(Painted(t, t.parent[d], "B"), g, "R"), g, s) \in P
  <2>1. Painted(Painted(t, t.parent[d], "B"), g, "R") \in P
    BY <1>1, <1>3, <1>5, <1>6, ClosedFacts
  <2> QED
    BY <1>2, <1>3, <2>1, ClosedFacts
<1> QED
  BY <1>3, <1>4, <1>7, <1>8

LEMMA LastTurnKeeps ==
    ASSUME NEW P, Closed(P), NEW t \in P, NEW n \in Node, NEW o \in Sides
    PROVE  LET q == t.parent[n]
               b == t.kid[o][q]
               u == Painted(Painted(t, b, t.color[q]), q, "B")
           IN  Rotate(Painted(u, t.kid[o][b], "B"), q, o) \in P
<1> DEFINE q == t.parent[n]
           b == t.kid[o][q]
           u == Painted(Painted(t, b, t.color[q]), q, "B")
<1>1. q \in Node /\ b \in Node /\ t.kid[o][b] \in Node /\ t.color[q] \in Colors
      /\ "B" \in Colors
  BY FieldType, ClosedFacts DEF Colors
<1> HIDE DEF q, b
<1>2. Painted(u, t.kid[o][b], "B") \in P
  BY <1>1, ClosedFacts
<1>3. Rotate(Painted(u, t.kid[o][b], "B"), q, o) \in P
  BY <1>1, <1>2, ClosedFacts
<1> QED
  BY <1>3 DEF q, b

LEMMA FixDeleteKeeps ==
    ASSUME NEW P, Closed(P), tree \in P, c \in Node, FixDelete
    PROVE  tree' \in P /\ c' \in Node
<1> DEFINE p == tree.parent[c]
           s == SideOf(tree, p, c)
           o == Other(s)
           b == tree.kid[o][p]
           near == tree.kid[s][b]
           far == tree.kid[o][b]
           t == IF tree.color[far] = "R" THEN tree
                ELSE Rotate(Painted(Painted(tree, near, "B"), b, "R"), b, s)
           q == t.parent[c]
           bb == t.kid[o][q]
           u == Painted(Painted(t, bb, t.color[q]), q, "B")
<1>1. IsTree(tree) /\ "R" \in Colors /\ "B" \in Colors
  BY ClosedFacts DEF Colors
<1>2. s \in Sides /\ o \in Sides
  BY SideType, OtherType
<1>3. p \in Node
  BY <1>1, FieldType
<1> HIDE DEF s, o, p
<1>4. b \in Node
  BY <1>1, <1>2, <1>3, FieldType
<1> HIDE DEF b
<1>5. near \in Node /\ far \in Node
  BY <1>1, <1>2, <1>4, FieldType
<1> HIDE DEF near, far
<1>6. t \in P
  <2>1. Painted(Painted(tree, near, "B"), b, "R") \in P
    BY <1>1, <1>4, <1>5, ClosedFacts
  <2>2. Rotate(Painted(Painted(tree, near, "B"), b, "R"), b, s) \in P
    BY <1>2, <1>4, <2>1, ClosedFacts
  <2> QED
    BY <2>2
<1> HIDE DEF t
<1>7. \/ tree' = Rotate(Painted(Painted(tree, b, "B"), p, "R"), p, o) /\ c' = c
      \/ tree' = Painted(tree, b, "R") /\ c' = p
      \/ tree' = Rotate(Painted(u, t.kid[o][bb], "B"), q, o) /\ c' = tree'.entry
  BY DEF FixDelete, t, near, far, b, p, o, s
<1>8. Rotate(Painted(u, t.kid[o][bb], "B"), q, o) \in P
  BY <1>2, <1>6, LastTurnKeeps
<1>9. Rotate(Painted(Painted(tree, b, "B"), p, "R"), p, o) \in P
  <2>1. Painted(Painted(tree, b, "B"), p, "R") \in P
    BY <1>1, <1>3, <1>4, ClosedFacts
  <2> QED
    BY <1>2, <1>3, <2>1, ClosedFacts
<1>10. Painted(tree, b, "R") \in P
  BY <1>1, <1>4, ClosedFacts
<1>11. tree' \in P
  BY <1>7, <1>8, <1>9, <1>10
<1>12. tree'.entry \in Node
  BY <1>11, ClosedFacts DEF IsTree
<1> QED
  BY <1>3, <1>7, <1>11, <1>12

LEMMA LoopsKeep ==
    ASSUME NEW P, Closed(P), tree \in P, TypeOK, Loops
    PROVE  tree' \in P
<1>1. c \in Node
  BY DEF TypeOK
<1>2. CASE FixInsert
  BY <1>1, <1>2, FixInsertKeeps
<1>3. CASE FixDelete
  BY <1>1, <1>3, FixDeleteKeeps
<1>4. CASE InsertEnd
  <2>1. tree.entry \in Node /\ "B" \in Colors
    BY DEF TypeOK, IsTree, Colors
  <2> QED
    BY <1>4, <2>1, ClosedFacts DEF InsertEnd
<1>5. CASE DeleteEnd
  BY <1>1, <1>5, ClosedFacts DEF DeleteEnd, Colors
<1> QED
  BY <1>2, <1>3, <1>4, <1>5 DEF Loops

Trees == [entry : Node, kid : [Sides -> [Node -> Node]],
          parent : [Node -> Node], color : [Node -> Colors]]

\* The loops of AdjustTreeOnInsert and AdjustTreeOnDelete (RBTree.lua:139-269) start
\* from a forest and leave one, turn by turn, for any colors: the loop of Delete is
\* run on trees that are not red-black, and still loses no node and closes no cycle.
THEOREM LoopsKeepForest ==
    ASSUME Forest(tree), TypeOK, Loops
    PROVE  Forest(tree')
<1> DEFINE P == {t \in Trees : Forest(t)}
<1>1. \A t : t \in P <=> Forest(t)
  BY DEF Trees, Forest, IsTree
<1> HIDE DEF P
<1>2. Closed(P)
  BY <1>1, PaintedForest, RotateAny DEF Closed, Forest
<1> QED
  BY <1>1, <1>2, LoopsKeep

-----------------------------------------------------------------------------
(* The order of the keys.  D names the nodes below each node, itself included. *)

Before(s, a, b) == IF s = "l" THEN a < b ELSE b < a

Subtrees(t, D) ==
    /\ D \in [Node -> SUBSET Keys] /\ D[Nil] = {}
    /\ \A n \in Keys : D[n] = {n} \cup D[t.kid["l"][n]] \cup D[t.kid["r"][n]]

Ordered(t, D) ==
    \A n \in Keys, s \in Sides : \A m \in D[t.kid[s][n]] : Before(s, m, n)

\* Nodes outside of the tree have no links.
Loose(t, S) == \A n \in Keys \ S : t.parent[n] = Nil /\ \A s \in Sides : t.kid[s][n] = Nil

\* t is a search tree of the keys in S.
Sorted(t, D, S) == /\ IsTree(t) /\ Agree(t)
                   /\ Subtrees(t, D) /\ Ordered(t, D)
                   /\ D[t.entry] = S /\ Loose(t, S)

LEMMA KeyFacts == /\ \A n \in Keys : n \in Node /\ n # Nil /\ n \in Int
                  /\ \A n \in Node : n = Nil \/ n \in Keys
                  /\ Nil \in Node /\ Nil \notin Keys /\ Far \in Nat
                  /\ \A S \in SUBSET Keys : IsFiniteSet(S) /\ Cardinality(S) \in 0 .. Far
<1>1. Far \in Nat /\ \A S \in SUBSET Keys : IsFiniteSet(S) /\ Cardinality(S) \in 0 .. Far
  <2>1. IsFiniteSet(Keys) /\ Cardinality(Keys) \in Nat
    BY RBTreeAssumption, FS_CardinalityType
  <2>2. ASSUME NEW S \in SUBSET Keys
        PROVE  /\ IsFiniteSet(S) /\ Cardinality(S) <= Cardinality(Keys)
               /\ Cardinality(S) \in Nat
    <3>1. IsFiniteSet(S) /\ Cardinality(S) <= Cardinality(Keys)
      BY <2>1, FS_Subset
    <3> QED
      BY <3>1, FS_CardinalityType
  <2> QED
    BY <2>1, <2>2 DEF Far
<1> QED
  BY <1>1, RBTreeAssumption DEF Node

LEMMA BeforeFacts ==
    ASSUME NEW s \in Sides, NEW a \in Int, NEW b \in Int, NEW e \in Int
    PROVE  /\ ~Before(s, a, a) /\ (Before(s, a, b) => a # b)
           /\ Before(s, a, b) <=> Before(Other(s), b, a)
           /\ Before(s, a, b) /\ Before(s, b, e) => Before(s, a, e)
           /\ a # b => Before(s, a, b) \/ Before(Other(s), a, b)
           /\ ~(Before(s, a, b) /\ Before(Other(s), a, b))
BY DEF Before, Other, Sides

\* What is below a node and its children.
LEMMA BelowKids ==
    ASSUME NEW t, IsTree(t), NEW D, Subtrees(t, D), Ordered(t, D), NEW n \in Keys
    PROVE  /\ n \in D[n] /\ D[n] \in SUBSET Keys
           /\ \A s \in Sides :
                 /\ t.kid[s][n] \in Node /\ D[t.kid[s][n]] \in SUBSET Keys
                 /\ D[t.kid[s][n]] \subseteq D[n] /\ n \notin D[t.kid[s][n]]
                 /\ D[n] = {n} \cup D[t.kid[s][n]] \cup D[t.kid[Other(s)][n]]
                 /\ \A m \in D[t.kid[s][n]] : m \notin D[t.kid[Other(s)][n]]
<1>1. n \in Node /\ D \in [Node -> SUBSET Keys]
  BY KeyFacts DEF Subtrees
<1>2. \A s \in Sides : t.kid[s][n] \in Node
  BY <1>1, FieldType
<1>3. D[n] = {n} \cup D[t.kid["l"][n]] \cup D[t.kid["r"][n]]
  BY DEF Subtrees
<1>4. ASSUME NEW s \in Sides
      PROVE  /\ D[n] = {n} \cup D[t.kid[s][n]] \cup D[t.kid[Other(s)][n]]
             /\ Other(s) \in Sides
  BY <1>3, <1>4 DEF Sides, Other
<1>5. ASSUME NEW s \in Sides
      PROVE  /\ n \notin D[t.kid[s][n]]
             /\ \A m \in D[t.kid[s][n]] : m \notin D[t.kid[Other(s)][n]]
  <2>1. \A m \in D[t.kid[s][n]] : Before(s, m, n) /\ m \in Int
    BY <1>1, <1>2, KeyFacts DEF Ordered
  <2>2. \A m \in D[t.kid[Other(s)][n]] : Before(Other(s), m, n)
    BY <1>4 DEF Ordered
  <2> QED
    BY <2>1, <2>2, BeforeFacts, KeyFacts
<1> QED
  BY <1>1, <1>2, <1>3, <1>4, <1>5

\* Induction down the tree: some node of C has no child in C.
LEMMA LeastNode ==
    ASSUME NEW t, IsTree(t), NEW D, Subtrees(t, D), Ordered(t, D),
           NEW C \in SUBSET Keys, C # {}
    PROVE  \E m \in C : \A s \in Sides : t.kid[s][m] \notin C
<1> DEFINE Sizes == {Cardinality(D[m]) : m \in C}
<1>1. \A m \in Keys : D[m] \in SUBSET Keys
  BY KeyFacts DEF Subtrees
<1>2. \A m \in Keys : IsFiniteSet(D[m]) /\ Cardinality(D[m]) \in Nat
  BY <1>1, KeyFacts
<1>3. PICK z \in Sizes : \A y \in Sizes : z <= y
  <2>1. Sizes \in SUBSET Nat /\ Sizes # {}
    BY <1>2
  <2> HIDE DEF Sizes
  <2> QED
    BY <2>1, LeastNumber
<1>4. PICK m \in C : z = Cardinality(D[m])
  OBVIOUS
<1>5. ASSUME NEW s \in Sides, t.kid[s][m] \in C PROVE FALSE
  <2> DEFINE k == t.kid[s][m]
  <2>1. z <= Cardinality(D[k])
    BY <1>3, <1>5
  <2>2. D[k] \subseteq D[m] \ {m} /\ m \in D[m]
    BY BelowKids
  <2>3. Cardinality(D[m] \ {m}) = Cardinality(D[m]) - 1 /\ IsFiniteSet(D[m] \ {m})
    BY <1>2, <2>2, FS_RemoveElement
  <2>4. Cardinality(D[k]) <= Cardinality(D[m] \ {m})
    BY <2>2, <2>3, FS_Subset
  <2> HIDE DEF k
  <2>5. Cardinality(D[k]) \in Nat /\ Cardinality(D[m]) \in Nat
    BY <1>2, <1>5 DEF k
  <2> QED
    BY <1>4, <2>1, <2>3, <2>4, <2>5
<1> QED
  BY <1>5

LEMMA BelowBelow ==
    ASSUME NEW t, IsTree(t), NEW D, Subtrees(t, D), Ordered(t, D),
           NEW n \in Node, NEW m \in D[n]
    PROVE  D[m] \subseteq D[n]
<1> DEFINE C == {k \in Keys : \E j \in D[k] : ~(D[j] \subseteq D[k])}
<1>1. C = {}
  <2> SUFFICES ASSUME C # {} PROVE FALSE
    OBVIOUS
  <2>1. PICK k \in C : \A s \in Sides : t.kid[s][k] \notin C
    <3>1. C \in SUBSET Keys
      OBVIOUS
    <3> HIDE DEF C
    <3> QED
      BY <3>1, LeastNode
  <2>2. PICK j \in D[k] : ~(D[j] \subseteq D[k])
    OBVIOUS
  <2>3. PICK s \in Sides : j \in D[t.kid[s][k]]
    BY <2>2, BelowKids DEF Subtrees, Sides
  <2>4. t.kid[s][k] \in Keys
    BY <2>3, BelowKids, KeyFacts DEF Subtrees
  <2>5. D[j] \subseteq D[t.kid[s][k]]
    BY <2>1, <2>3, <2>4
  <2> QED
    BY <2>2, <2>5, BelowKids
<1>2. n \in Keys
  BY KeyFacts DEF Subtrees
<1> QED
  BY <1>1, <1>2

LEMMA ParentBelow ==
    ASSUME NEW t, IsTree(t), Agree(t), NEW D, Subtrees(t, D), Ordered(t, D),
           NEW n \in Node, NEW m \in D[n], m # n
    PROVE  t.parent[m] \in D[n]
<1> DEFINE C == {k \in Keys : m \in D[k] /\ m # k /\ t.parent[m] \notin D[k]}
<1>1. C = {}
  <2> SUFFICES ASSUME C # {} PROVE FALSE
    OBVIOUS
  <2>1. PICK k \in C : \A s \in Sides : t.kid[s][k] \notin C
    <3>1. C \in SUBSET Keys
      OBVIOUS
    <3> HIDE DEF C
    <3> QED
      BY <3>1, LeastNode
  <2>2. PICK s \in Sides : m \in D[t.kid[s][k]]
    BY <2>1 DEF Subtrees, Sides
  <2>3. t.kid[s][k] \in Keys /\ D[t.kid[s][k]] \subseteq D[k] /\ k \in D[k]
    BY <2>2, BelowKids, KeyFacts DEF Subtrees
  <2>4. CASE m = t.kid[s][k]
    BY <2>1, <2>3, <2>4, KeyFacts DEF Agree
  <2>5. CASE m # t.kid[s][k]
    BY <2>1, <2>2, <2>3, <2>5
  <2> QED
    BY <2>4, <2>5
<1>2. n \in Keys
  BY KeyFacts DEF Subtrees
<1> QED
  BY <1>1, <1>2

\* A search tree has one root, and its nodes are linked to nodes only.
LEMMA SortedLinks ==
    ASSUME NEW t, NEW D, NEW S, Sorted(t, D, S)
    PROVE  /\ S \in SUBSET Keys /\ t.entry \in Node /\ (t.entry # Nil => t.entry \in S)
           /\ \A n \in S : n # t.entry => t.parent[n] \in S
           /\ \A n \in S : D[n] \subseteq S
           /\ \A n \in Keys : t.parent[n] # Nil => n \in S /\ t.parent[n] \in S
           /\ \A n \in Keys, s \in Sides : t.kid[s][n] # Nil => n \in S /\ t.kid[s][n] \in S
<1> USE DEF Sorted
<1>1. t.entry \in Node /\ S \in SUBSET Keys /\ (t.entry # Nil => t.entry \in S)
  BY BelowKids, KeyFacts DEF IsTree, Subtrees
<1>2. \A n \in S : n # t.entry => t.parent[n] \in S
  BY <1>1, ParentBelow
<1>3. \A n \in S : D[n] \subseteq S
  BY <1>1, BelowBelow
<1>4. \A n \in Keys : t.parent[n] # Nil => n \in S
  BY DEF Loose
<1>5. \A n \in Keys, s \in Sides : t.kid[s][n] # Nil => n \in S /\ t.kid[s][n] \in S
  <2>1. ASSUME NEW n \in Keys, NEW s \in Sides, t.kid[s][n] # Nil
        PROVE  n \in S /\ t.kid[s][n] \in S
    <3>1. n \in S /\ t.kid[s][n] \in Keys
      BY <2>1, BelowKids, KeyFacts DEF Loose
    <3>2. t.kid[s][n] \in D[n]
      BY <3>1, BelowKids
    <3> QED
      BY <1>3, <3>1, <3>2
  <2> QED
    BY <2>1
<1>6. \A n \in Keys : t.parent[n] # Nil => t.parent[n] \in S
  BY <1>2, <1>4 DEF Agree
<1> QED
  BY <1>1, <1>2, <1>3, <1>4, <1>5, <1>6

LEMMA SortedForest ==
    ASSUME NEW t, NEW D, NEW S, Sorted(t, D, S)
    PROVE  Forest(t)
<1> DEFINE d == [n \in Node |-> IF n = Nil THEN 0 ELSE Far - Cardinality(D[n])]
<1>1. \A n \in Keys : D[n] \in SUBSET Keys /\ Cardinality(D[n]) \in 0 .. Far
  BY KeyFacts DEF Sorted, Subtrees
<1>2. d \in [Node -> Nat]
  BY <1>1, KeyFacts
<1>3. ASSUME NEW n \in Keys, t.parent[n] # Nil
      PROVE  d[t.parent[n]] < d[n]
  <2> DEFINE p == t.parent[n]
  <2>1. p \in Keys /\ n \in Node /\ p \in Node
    BY <1>3, KeyFacts, FieldType DEF Sorted
  <2>2. PICK s \in Sides : t.kid[s][p] = n
    BY <1>3 DEF Sorted, Agree
  <2>3. D[n] \subseteq D[p] \ {p} /\ p \in D[p]
    BY <2>1, <2>2, BelowKids DEF Sorted
  <2> HIDE DEF p
  <2>4. IsFiniteSet(D[p]) /\ Cardinality(D[p]) \in 0 .. Far /\ Cardinality(D[n]) \in 0 .. Far
    BY <1>1, <2>1, KeyFacts
  <2>5. Cardinality(D[p] \ {p}) = Cardinality(D[p]) - 1 /\ IsFiniteSet(D[p] \ {p})
    BY <2>3, <2>4, FS_RemoveElement
  <2>6. Cardinality(D[n]) <= Cardinality(D[p] \ {p})
    BY <2>3, <2>5, FS_Subset
  <2>7. d[p] = Far - Cardinality(D[p]) /\ d[n] = Far - Cardinality(D[n])
    BY <2>1, KeyFacts
  <2>8. d[p] < d[n]
    BY <2>4, <2>5, <2>6, <2>7, KeyFacts
  <2> QED
    BY <2>8 DEF p
<1> HIDE DEF d
<1> QED
  BY <1>2, <1>3 DEF Forest, Rising, Sorted

LEMMA PaintedFields ==
    ASSUME NEW t, IsTree(t), NEW n \in Node, NEW color \in Colors
    PROVE  LET u == Painted(t, n, color)
           IN  /\ u.kid = t.kid /\ u.parent = t.parent /\ u.entry = t.entry
               /\ \A m \in Node : u.color[m] = IF m = n /\ n # Nil THEN color ELSE t.color[m]
  BY DEF IsTree, Painted

LEMMA PaintedSorted ==
    ASSUME NEW t, NEW D, NEW S, Sorted(t, D, S), NEW n \in Node, NEW color \in Colors
    PROVE  Sorted(Painted(t, n, color), D, S)
<1>1. IsTree(t) /\ IsTree(Painted(t, n, color))
  BY PaintedType DEF Sorted
<1>2. /\ Painted(t, n, color).kid = t.kid
      /\ Painted(t, n, color).parent = t.parent
      /\ Painted(t, n, color).entry = t.entry
  BY <1>1, PaintedFields
<1> QED
  BY <1>1, <1>2 DEF Sorted, Agree, Subtrees, Ordered, Loose

\* A rotation exchanges no two subtrees.
LEMMA RotateSorted ==
    ASSUME NEW t, NEW D, NEW S, Sorted(t, D, S), NEW n \in Keys, NEW s \in Sides,
           t.kid[s][n] # Nil
    PROVE  \E E : Sorted(Rotate(t, n, s), E, S)
<1> DEFINE x == t.kid[s][n]
           p == t.parent[n]
           o == Other(s)
           y == t.kid[o][x]
           f == SideOf(t, p, n)
           u == Rotate(t, n, s)
           v == t.kid[o][n]
           w == t.kid[s][x]
           E == [D EXCEPT ![x] = D[n], ![n] = {n} \cup D[y] \cup D[v]]
<1>1. Forest(t) /\ Forest(u) /\ IsTree(t) /\ IsTree(u) /\ Agree(u)
  BY SortedForest, RotateKeepsForest DEF Forest
<1>2. /\ x \in Keys /\ p \in Node /\ y \in Node /\ o \in Sides /\ f \in Sides
      /\ t.parent[x] = n /\ (y # Nil => t.parent[y] = x)
      /\ (p # Nil => t.kid[f][p] = n)
      /\ x # n /\ p # n /\ p # x /\ y # x /\ y # n /\ (p # Nil => y # p)
      /\ u.entry = IF p = Nil THEN x ELSE t.entry
  BY <1>1, RotateFields
<1>3. \A m \in Keys : u.parent[m] = IF m = x THEN p ELSE IF m = n THEN x
                                    ELSE IF m = y THEN n ELSE t.parent[m]
  BY <1>1, RotateFields
<1>4. \A m \in Keys, z \in Sides :
         u.kid[z][m] = IF m = n /\ z = s THEN y ELSE IF m = x /\ z = o THEN n
                       ELSE IF m = p /\ z = f THEN x ELSE t.kid[z][m]
  BY <1>1, RotateFields
<1>5. o # s /\ Sides = {s, o} /\ Other(o) = s
  BY DEF Other, Sides
<1>6. /\ \A m \in Keys, z \in Sides : t.kid[z][m] # Nil => t.parent[t.kid[z][m]] = m
      /\ \A m \in Keys : t.kid[s][m] = t.kid[o][m] => t.kid[s][m] = Nil
      /\ t.parent[t.entry] = Nil
  BY <1>5 DEF Sorted, Agree, Sides
<1>7. /\ \A m \in Keys, z \in Sides : t.kid[z][m] \in Node
      /\ \A m \in Keys : m \in Node /\ m # Nil /\ m \in Int
  BY <1>1, FieldType, KeyFacts
<1>8. /\ D \in [Node -> SUBSET Keys] /\ D[Nil] = {}
      /\ \A m \in Keys, z \in Sides : \A j \in D[t.kid[z][m]] : Before(z, j, m)
      /\ \A m \in Keys : D[m] = {m} \cup D[t.kid[s][m]] \cup D[t.kid[o][m]]
      /\ D[t.entry] = S /\ Loose(t, S)
  BY <1>5, <1>1, BelowKids DEF Sorted, Subtrees, Ordered
<1>9. x = t.kid[s][n] /\ p = t.parent[n] /\ y = t.kid[o][x] /\ v = t.kid[o][n] /\ w = t.kid[s][x]
  OBVIOUS
<1>10. n \in S /\ x \in S /\ (p # Nil => p \in S) /\ (y # Nil => y \in S) /\ (p = Nil => n = t.entry)
  BY <1>2, <1>7, SortedLinks
<1> HIDE DEF x, p, o, y, f, u, v, w
<1>11. v \in Node /\ w \in Node /\ v # x /\ v # n /\ w # x /\ w # n /\ Nil \in Node
  BY <1>2, <1>5, <1>6, <1>7, <1>9, KeyFacts
<1>12. /\ E \in [Node -> SUBSET Keys] /\ E[Nil] = {} /\ E[x] = D[n]
       /\ E[n] = {n} \cup D[y] \cup D[v]
       /\ \A m \in Node : m # x /\ m # n => E[m] = D[m]
  BY <1>2, <1>7, <1>8, <1>11
<1> HIDE DEF E
<1>13. u.kid[s][n] = y /\ u.kid[o][n] = v /\ u.kid[o][x] = n /\ u.kid[s][x] = w
  BY <1>2, <1>4, <1>5, <1>9
<1>14. ASSUME NEW m \in Keys, m # n, m # x, NEW z \in Sides
       PROVE  E[u.kid[z][m]] = D[t.kid[z][m]]
  <2>1. t.kid[z][m] # x /\ t.kid[z][m] \in Node
    BY <1>2, <1>6, <1>7, <1>14
  <2>2. t.kid[z][m] = n => m = p /\ z = f
    <3>1. SUFFICES ASSUME t.kid[z][m] = n PROVE m = p /\ z = f
      OBVIOUS
    <3>2. m = p
      BY <1>6, <1>7, <1>9, <3>1
    <3> QED
      BY <1>2, <1>5, <1>6, <1>7, <3>1, <3>2
  <2>3. CASE m = p /\ z = f
    BY <1>2, <1>4, <1>7, <1>12, <1>14, <2>3
  <2>4. CASE ~(m = p /\ z = f)
    BY <1>4, <1>12, <1>14, <2>1, <2>2, <2>4
  <2> QED
    BY <2>3, <2>4
<1>15. ASSUME NEW m \in Keys
       PROVE  E[m] = {m} \cup E[u.kid[s][m]] \cup E[u.kid[o][m]]
  <2>1. CASE m = n
    BY <1>2, <1>11, <1>12, <1>13, <2>1
  <2>2. CASE m = x
    <3>1. D[n] = {n} \cup D[x] \cup D[v] /\ D[x] = {x} \cup D[w] \cup D[y]
      BY <1>2, <1>8, <1>9
    <3> QED
      BY <1>11, <1>12, <1>13, <2>2, <3>1
  <2>3. CASE m # n /\ m # x
    BY <1>2, <1>5, <1>7, <1>8, <1>12, <1>14, <2>3
  <2> QED
    BY <2>1, <2>2, <2>3
<1>16. ASSUME NEW m \in Keys, NEW z \in Sides, NEW j \in E[u.kid[z][m]]
       PROVE  Before(z, j, m)
  <2>1. D[x] = {x} \cup D[w] \cup D[y] /\ \A i \in Node : D[i] \in SUBSET Keys
    BY <1>2, <1>8, <1>9
  <2>2. CASE m = n /\ z = s
    <3>1. j \in D[y] /\ D[y] \subseteq D[x]
      BY <1>2, <1>12, <1>13, <1>16, <2>1, <2>2
    <3> QED
      BY <1>8, <1>9, <2>2, <3>1
  <2>3. CASE m = n /\ z = o
    BY <1>2, <1>8, <1>9, <1>11, <1>12, <1>13, <1>16, <2>3
  <2>4. CASE m = x /\ z = s
    <3>1. j \in D[w]
      BY <1>11, <1>12, <1>13, <1>16, <2>4
    <3> QED
      BY <1>2, <1>8, <1>9, <2>4, <3>1
  <2>5. CASE m = x /\ z = o
    <3>1. Before(o, n, x)
      BY <1>2, <1>5, <1>7, <1>8, <1>9, <2>1, BeforeFacts DEF o
    <3>2. CASE j = n
      BY <2>5, <3>1, <3>2
    <3>3. CASE j \in D[y]
      BY <1>2, <1>8, <1>9, <2>5, <3>3
    <3>4. CASE j \in D[v]
      BY <1>2, <1>7, <1>8, <1>9, <1>11, <2>1, <2>5, <3>1, <3>4, BeforeFacts
    <3> QED
      BY <1>12, <1>13, <1>16, <2>5, <3>2, <3>3, <3>4
  <2>6. CASE m # n /\ m # x
    BY <1>8, <1>14, <1>16, <2>6
  <2> QED
    BY <1>5, <2>2, <2>3, <2>4, <2>5, <2>6
<1>17. E[u.entry] = S
  <2>1. CASE p = Nil
    BY <1>2, <1>8, <1>10, <1>12, <2>1
  <2>2. CASE p # Nil
    BY <1>1, <1>2, <1>6, <1>7, <1>8, <1>9, <1>12, <2>2, FieldType
  <2> QED
    BY <2>1, <2>2
<1>18. Loose(u, S)
  BY <1>2, <1>3, <1>4, <1>7, <1>8, <1>10 DEF Loose
<1>19. Subtrees(u, E) /\ Ordered(u, E)
  <2>1. \A m \in Keys : E[m] = {m} \cup E[u.kid["l"][m]] \cup E[u.kid["r"][m]]
    BY <1>5, <1>15 DEF Sides
  <2> QED
    BY <1>12, <1>16, <2>1 DEF Subtrees, Ordered
<1> QED
  BY <1>1, <1>17, <1>18, <1>19 DEF Sorted, u

\* t is a search tree of the keys in S, of whatever shape.
Search(t, S) == \E D : Sorted(t, D, S)

LEMMA PaintedSearch ==
    ASSUME NEW t, NEW S, Search(t, S), NEW n \in Node, NEW color \in Colors
    PROVE  Search(Painted(t, n, color), S)
  BY PaintedSorted DEF Search

LEMMA RotateSearch ==
    ASSUME NEW t, NEW S, Search(t, S), NEW n \in Node, NEW s \in Sides
    PROVE  Search(Rotate(t, n, s), S)
<1>1. CASE t.kid[s][n] = Nil
  BY <1>1 DEF Rotate
<1>2. CASE t.kid[s][n] # Nil
  <2>1. PICK D : Sorted(t, D, S)
    BY DEF Search
  <2>2. n \in Keys
    BY <1>2, <2>1, KeyFacts DEF Sorted, IsTree
  <2> QED
    BY <1>2, <2>1, <2>2, RotateSorted DEF Search
<1> QED
  BY <1>1, <1>2

LEMMA BareWrites ==
    ASSUME NEW t, IsTree(t), NEW n \in Node
    PROVE  LET u == Bare(t, n)
           IN  /\ u.entry = t.entry /\ u.color = t.color
               /\ \A m \in Node : u.parent[m] = IF m = n THEN Nil ELSE t.parent[m]
               /\ \A m \in Node, z \in Sides : u.kid[z][m] = IF m = n THEN Nil ELSE t.kid[z][m]
<1> DEFINE u == Bare(t, n)
<1>1. u = [t EXCEPT !.kid = [s \in Sides |-> [t.kid[s] EXCEPT ![n] = Nil]],
                    !.parent = [t.parent EXCEPT ![n] = Nil]]
  BY DEF IsTree, Bare
<1>2. /\ u.kid = [s \in Sides |-> [t.kid[s] EXCEPT ![n] = Nil]]
      /\ u.parent = [t.parent EXCEPT ![n] = Nil]
      /\ u.entry = t.entry /\ u.color = t.color
  BY <1>1 DEF IsTree
<1> QED
  BY <1>2 DEF IsTree

LEMMA SeatedColor ==
    ASSUME NEW t, IsTree(t), NEW p \in Node, NEW x \in Node, NEW s \in Sides, NEW m \in Node
    PROVE  Seated(t, p, x, s).color[m] = IF p = Nil /\ x # Nil /\ m = x THEN "B" ELSE t.color[m]
  BY DEF Seated, Linked, IsTree

\* What Replace writes when n has no child but m.
LEMMA CutFields ==
    ASSUME NEW t, Forest(t), NEW n \in Keys, NEW z \in Sides,
           t.kid[Other(z)][n] = Nil, t.parent[n] # Nil \/ t.kid[z][n] # Nil
    PROVE  LET m == t.kid[z][n]
               p == t.parent[n]
               f == SideOf(t, p, n)
               u == Replace(t, n, m)
           IN  /\ u.entry = IF p = Nil THEN m ELSE t.entry
               /\ \A x \in Keys : u.parent[x] = IF x = n THEN Nil ELSE IF x = m THEN p
                                                ELSE t.parent[x]
               /\ \A x \in Keys, s \in Sides :
                     u.kid[s][x] = IF x = n THEN Nil ELSE IF x = p /\ s = f THEN m
                                   ELSE t.kid[s][x]
               /\ \A x \in Node : u.color[x] = IF p = Nil /\ x = m THEN "B" ELSE t.color[x]
<1> DEFINE m == t.kid[z][n]
           p == t.parent[n]
           f == SideOf(t, p, n)
           v == Bare(t, n)
           u == Seated(v, p, m, f)
<1>1. IsTree(t) /\ n \in Node /\ m \in Node /\ p \in Node /\ f \in Sides
  BY KeyFacts, FieldType, SideType DEF Forest
<1>2. Replace(t, n, m) = u
  BY DEF Replace, Inherited, Sides, Other
<1>3. IsTree(v)
  BY <1>1, BareType
<1>4. /\ v.entry = t.entry /\ v.color = t.color
      /\ \A x \in Node : v.parent[x] = IF x = n THEN Nil ELSE t.parent[x]
      /\ \A x \in Node, s \in Sides : v.kid[s][x] = IF x = n THEN Nil ELSE t.kid[s][x]
  BY <1>1, BareWrites
<1>5. m # n /\ p # n
  <2>1. PICK d \in [Node -> Nat] : \A x \in Keys : t.parent[x] # Nil => d[t.parent[x]] < d[x]
    BY DEF Forest, Rising
  <2>2. \A x \in Keys : t.parent[x] # x
    BY <2>1, KeyFacts
  <2>3. m # Nil => t.parent[m] = n
    BY DEF Forest, Agree
  <2> QED
    BY <2>2, <2>3, KeyFacts
<1>6. p # Nil \/ m # Nil
  OBVIOUS
<1> HIDE DEF m, p, f, v, u
<1>7. CASE p # Nil
  <2>1. p \in Keys /\ u = Linked(v, p, m, f)
    BY <1>1, <1>7, KeyFacts DEF u, Seated
  <2>2. /\ u.entry = v.entry
        /\ \A x \in Node : u.parent[x] = IF x = m THEN IF m = Nil THEN Nil ELSE p
                                         ELSE v.parent[x]
        /\ \A x \in Node, s \in Sides :
              u.kid[s][x] = IF x = p /\ s = f THEN m ELSE v.kid[s][x]
    BY <1>1, <1>3, <2>1, LinkedFields
  <2>3. \A x \in Node : u.color[x] = t.color[x]
    BY <1>1, <1>3, <1>4, <1>7, SeatedColor DEF u
  <2>4. \A x \in Keys : u.parent[x] = IF x = n THEN Nil ELSE IF x = m THEN p ELSE t.parent[x]
    BY <1>4, <1>5, <2>2, KeyFacts
  <2>5. \A x \in Keys, s \in Sides : u.kid[s][x] = IF x = n THEN Nil
                                     ELSE IF x = p /\ s = f THEN m ELSE t.kid[s][x]
    BY <1>4, <1>5, <2>2, KeyFacts
  <2>6. u.entry = t.entry
    BY <1>4, <2>2
  <2> QED
    BY <1>2, <1>7, <2>3, <2>4, <2>5, <2>6 DEF m, p, f
<1>8. CASE p = Nil
  <2>1. m \in Keys /\ Nil \in Node
    BY <1>1, <1>6, <1>8, KeyFacts
  <2>2. /\ u.entry = m
        /\ \A x \in Node : u.parent[x] = IF x = m THEN Nil ELSE v.parent[x]
        /\ \A x \in Node, s \in Sides : u.kid[s][x] = v.kid[s][x]
    BY <1>1, <1>3, <1>8, <2>1, SeatedFields DEF u
  <2>3. \A x \in Node : u.color[x] = IF x = m THEN "B" ELSE t.color[x]
    BY <1>1, <1>3, <1>4, <1>6, <1>8, SeatedColor DEF u
  <2>4. \A x \in Keys : u.parent[x] = IF x = n THEN Nil ELSE IF x = m THEN p ELSE t.parent[x]
    BY <1>4, <1>5, <1>8, <2>2, KeyFacts
  <2>5. \A x \in Keys, s \in Sides : u.kid[s][x] = IF x = n THEN Nil
                                     ELSE IF x = p /\ s = f THEN m ELSE t.kid[s][x]
    BY <1>4, <1>5, <1>8, <2>2, KeyFacts
  <2> QED
    BY <1>2, <1>8, <2>2, <2>3, <2>4, <2>5 DEF m, p, f
<1> QED
  BY <1>7, <1>8

\* Facts of a search tree in the form the proofs below use.
LEMMA Unfolded ==
    ASSUME NEW t, NEW D, NEW S, Sorted(t, D, S)
    PROVE  /\ IsTree(t) /\ Forest(t) /\ Loose(t, S) /\ D[t.entry] = S
           /\ D \in [Node -> SUBSET Keys] /\ D[Nil] = {}
           /\ \A m \in Keys, z \in Sides : \A j \in D[t.kid[z][m]] : Before(z, j, m)
           /\ \A m \in Keys, z \in Sides :
                 /\ D[m] = {m} \cup D[t.kid[z][m]] \cup D[t.kid[Other(z)][m]]
                 /\ m \notin D[t.kid[z][m]] /\ t.kid[z][m] \in Node
                 /\ t.kid[z][m] # Nil => t.parent[t.kid[z][m]] = m
                 /\ t.kid[z][m] = t.kid[Other(z)][m] => t.kid[z][m] = Nil
                 /\ t.kid[z][m] # m
           /\ \A m \in Keys : m \in D[m] /\ t.parent[m] \in Node
           /\ \A m \in Keys : t.parent[m] # Nil => \E z \in Sides : t.kid[z][t.parent[m]] = m
           /\ t.parent[t.entry] = Nil
<1>1. IsTree(t) /\ Forest(t) /\ Loose(t, S) /\ D[t.entry] = S
      /\ D \in [Node -> SUBSET Keys] /\ D[Nil] = {} /\ t.parent[t.entry] = Nil
  BY SortedForest DEF Sorted, Subtrees, Agree
<1>2. \A m \in Keys, z \in Sides : \A j \in D[t.kid[z][m]] : Before(z, j, m)
  BY DEF Sorted, Ordered
<1>3. ASSUME NEW m \in Keys, NEW z \in Sides
      PROVE  /\ D[m] = {m} \cup D[t.kid[z][m]] \cup D[t.kid[Other(z)][m]]
             /\ m \notin D[t.kid[z][m]] /\ t.kid[z][m] \in Node
             /\ t.kid[z][m] # Nil => t.parent[t.kid[z][m]] = m
             /\ m \in D[m] /\ t.parent[m] \in Node
  <2>1. m \in Node
    BY KeyFacts
  <2>2. t.parent[m] \in Node
    BY <1>1, <2>1, FieldType
  <2> QED
    BY <2>2, BelowKids DEF Sorted, Agree
<1>4. \A m \in Keys, z \in Sides : t.kid[z][m] # m
  BY <1>3
<1>5. \A m \in Keys, z \in Sides : t.kid[z][m] = t.kid[Other(z)][m] => t.kid[z][m] = Nil
  BY DEF Sorted, Agree, Other, Sides
<1>6. \A m \in Keys : t.parent[m] # Nil => \E z \in Sides : t.kid[z][t.parent[m]] = m
  BY DEF Sorted, Agree
<1>7. \A m \in Keys : m \in D[m] /\ t.parent[m] \in Node
  BY <1>3 DEF Sides
<1> QED
  BY <1>1, <1>2, <1>3, <1>4, <1>5, <1>6, <1>7

\* Links agree when each is one of an old tree's or one of a new pair.
LEMMA SidesOf ==
    ASSUME NEW t, NEW z \in Sides,
           \A m \in Keys : t.kid[z][m] = t.kid[Other(z)][m] => t.kid[z][m] = Nil
    PROVE  \A m \in Keys : t.kid["l"][m] = t.kid["r"][m] => t.kid["l"][m] = Nil
  BY DEF Sides, Other

\* u is t without n.
CutTo(t, u, D, E, S, n) ==
    /\ Sorted(u, E, S \ {n})
    /\ \A x \in Keys \ {n}, s \in Sides : E[u.kid[s][x]] = D[t.kid[s][x]] \ {n}

\* A node with one child at most is taken out, and nothing else is.
LEMMA CutSorted ==
    ASSUME NEW t, NEW D, NEW S, Sorted(t, D, S), NEW n \in S, NEW z \in Sides,
           t.kid[Other(z)][n] = Nil, t.parent[n] # Nil \/ t.kid[z][n] # Nil
    PROVE  \E E : CutTo(t, Replace(t, n, t.kid[z][n]), D, E, S, n)
<1> DEFINE m == t.kid[z][n]
           p == t.parent[n]
           f == SideOf(t, p, n)
           u == Replace(t, n, m)
           o == Other(z)
           E == [x \in Node |-> IF x = n THEN {n} ELSE D[x] \ {n}]
<1>1. /\ IsTree(t) /\ Forest(t) /\ Loose(t, S) /\ D[t.entry] = S /\ t.parent[t.entry] = Nil
      /\ D \in [Node -> SUBSET Keys] /\ D[Nil] = {} /\ S \in SUBSET Keys /\ t.entry \in Node
      /\ n \in Keys /\ \A x \in Keys : x \in Node /\ x # Nil /\ Nil \in Node
  BY Unfolded, SortedLinks, KeyFacts
<1>2. /\ \A x \in Keys, s \in Sides : \A j \in D[t.kid[s][x]] : Before(s, j, x)
      /\ \A x \in Keys, s \in Sides :
            /\ D[x] = {x} \cup D[t.kid[s][x]] \cup D[t.kid[Other(s)][x]]
            /\ x \notin D[t.kid[s][x]] /\ t.kid[s][x] \in Node
            /\ t.kid[s][x] # Nil => t.parent[t.kid[s][x]] = x
            /\ t.kid[s][x] = t.kid[Other(s)][x] => t.kid[s][x] = Nil
            /\ t.kid[s][x] # x
      /\ \A x \in Keys : t.parent[x] # Nil => \E s \in Sides : t.kid[s][t.parent[x]] = x
      /\ \A x \in Keys : t.parent[x] \in Node
  BY Unfolded
<1>3. /\ o \in Sides /\ f \in Sides /\ o # z /\ Sides = {z, o} /\ Other(o) = z
      /\ \A s \in Sides : s # f => f = Other(s)
  BY SideType DEF Other, Sides
<1>4. /\ u.entry = IF p = Nil THEN m ELSE t.entry
      /\ \A x \in Keys : u.parent[x] = IF x = n THEN Nil ELSE IF x = m THEN p ELSE t.parent[x]
      /\ \A x \in Keys, s \in Sides : u.kid[s][x] = IF x = n THEN Nil
                                      ELSE IF x = p /\ s = f THEN m ELSE t.kid[s][x]
  BY <1>1, CutFields
<1>5. p # Nil => t.kid[f][p] = n
  BY <1>1, <1>2 DEF SideOf, Sides
<1>6. /\ (p = Nil => n = t.entry) /\ (p # Nil => p \in S) /\ (m # Nil => m \in S)
      /\ m \in Node /\ p \in Node /\ (m # Nil => t.parent[m] = n) /\ m # n /\ p # n
  <2>1. (p = Nil => n = t.entry) /\ (p # Nil => p \in S) /\ (m # Nil => m \in S)
    BY <1>1, SortedLinks
  <2>2. m \in Node /\ p \in Node /\ (m # Nil => t.parent[m] = n) /\ m # n
    BY <1>1, <1>2
  <2>3. p # n
    BY <1>1, <1>2, <1>5, <1>3
  <2> QED
    BY <2>1, <2>2, <2>3
<1>7. IsTree(u)
  BY <1>1, <1>6, ReplaceType
<1>8. m = t.kid[z][n] /\ p = t.parent[n] /\ t.kid[o][n] = Nil /\ (p # Nil \/ m # Nil)
  OBVIOUS
<1>9. /\ E \in [Node -> SUBSET Keys] /\ E[n] = {n} /\ E[Nil] = {}
      /\ \A x \in Node : x # n => E[x] = D[x] \ {n}
  BY <1>1
<1> HIDE DEF m, p, o, f, u, E
<1>10. D[n] = {n} \cup D[m] /\ n \notin D[m]
  BY <1>1, <1>2, <1>8 DEF o
<1>11. ASSUME NEW x \in Keys, x # n, NEW s \in Sides
       PROVE  t.kid[s][x] = n <=> x = p /\ s = f
  BY <1>1, <1>2, <1>3, <1>5, <1>8
<1>12. ASSUME NEW x \in Keys, x # n, NEW s \in Sides
       PROVE  E[u.kid[s][x]] = D[t.kid[s][x]] \ {n}
  <2>1. CASE x = p /\ s = f
    BY <1>1, <1>4, <1>5, <1>6, <1>9, <1>10, <1>12, <2>1
  <2>2. CASE ~(x = p /\ s = f)
    BY <1>2, <1>4, <1>9, <1>11, <1>12, <2>2
  <2> QED
    BY <2>1, <2>2
<1>13. Subtrees(u, E)
  <2>1. ASSUME NEW x \in Keys
        PROVE  E[x] = {x} \cup E[u.kid["l"][x]] \cup E[u.kid["r"][x]]
    <3>1. CASE x = n
      BY <1>4, <1>9, <3>1 DEF Sides
    <3>2. CASE x # n
      <4>1. D[x] = {x} \cup D[t.kid["l"][x]] \cup D[t.kid["r"][x]]
        BY <1>2 DEF Sides, Other
      <4> QED
        BY <1>1, <1>9, <1>12, <3>2, <4>1 DEF Sides
    <3> QED
      BY <3>1, <3>2
  <2> QED
    BY <1>9, <2>1 DEF Subtrees
<1>14. Ordered(u, E)
  <2>1. ASSUME NEW x \in Keys, NEW s \in Sides, NEW j \in E[u.kid[s][x]]
        PROVE  Before(s, j, x)
    BY <1>2, <1>4, <1>9, <1>12, <2>1
  <2> QED
    BY <2>1 DEF Ordered
<1>15. E[u.entry] = S \ {n}
  <2>1. CASE p = Nil
    BY <1>1, <1>4, <1>6, <1>9, <1>10, <2>1
  <2>2. CASE p # Nil
    BY <1>1, <1>4, <1>8, <1>9, <2>2
  <2> QED
    BY <2>1, <2>2
<1>16. Loose(u, S \ {n})
  BY <1>1, <1>4, <1>6 DEF Loose
<1>17. Agree(u)
  <2>1. ASSUME NEW x \in Keys, NEW s \in Sides, u.kid[s][x] # Nil
        PROVE  u.parent[u.kid[s][x]] = x
    <3>1. x # n
      BY <1>4, <2>1
    <3>2. CASE x = p /\ s = f
      BY <1>4, <1>6, <1>1, <2>1, <3>1, <3>2
    <3>3. CASE ~(x = p /\ s = f)
      <4>1. u.kid[s][x] = t.kid[s][x] /\ t.kid[s][x] # n
        BY <1>4, <1>11, <3>1, <3>3
      <4>2. t.kid[s][x] \in Keys /\ t.parent[t.kid[s][x]] = x
        BY <1>2, <2>1, <4>1, KeyFacts
      <4>3. t.kid[s][x] # m
        BY <1>6, <3>1, <4>2, KeyFacts
      <4> QED
        BY <1>4, <3>1, <4>1, <4>2, <4>3
    <3> QED
      BY <3>2, <3>3
  <2>2. ASSUME NEW x \in Keys, u.parent[x] # Nil
        PROVE  \E s \in Sides : u.kid[s][u.parent[x]] = x
    <3>1. CASE x = m
      <4>1. u.parent[x] = p /\ p \in Keys /\ u.kid[f][p] = m
        BY <1>3, <1>4, <1>6, <2>2, <3>1, KeyFacts
      <4> QED
        BY <1>3, <3>1, <4>1
    <3>2. CASE x # m
      <4>1. x # n /\ u.parent[x] = t.parent[x]
        BY <1>4, <2>2, <3>2
      <4>2. PICK s \in Sides : t.kid[s][t.parent[x]] = x
        BY <1>2, <2>2, <4>1
      <4>3. t.parent[x] \in Keys
        BY <1>2, <2>2, <4>1, KeyFacts
      <4>4. t.parent[x] # n
        BY <1>1, <1>3, <1>8, <3>2, <4>2
      <4>5. u.kid[s][t.parent[x]] = x
        BY <1>1, <1>4, <1>5, <1>6, <4>1, <4>2, <4>3, <4>4
      <4> QED
        BY <4>1, <4>5
    <3> QED
      BY <3>1, <3>2
  <2>3. ASSUME NEW x \in Keys, u.kid[f][x] = u.kid[Other(f)][x]
        PROVE  u.kid[f][x] = Nil
    <3>0. Other(f) \in Sides /\ Other(f) # f
      BY <1>3, OtherType
    <3>1. CASE x = n
      BY <1>3, <1>4, <3>1
    <3>2. CASE x = p /\ x # n
      <4>1. u.kid[f][x] = m /\ u.kid[Other(f)][x] = t.kid[Other(f)][x]
        BY <1>3, <1>4, <3>0, <3>2
      <4> QED
        BY <1>2, <1>6, <2>3, <3>0, <3>2, <4>1
    <3>3. CASE x # n /\ x # p
      BY <1>2, <1>3, <1>4, <2>3, <3>0, <3>3
    <3> QED
      BY <3>1, <3>2, <3>3
  <2>4. u.parent[u.entry] = Nil
    <3>1. CASE p = Nil
      BY <1>4, <1>6, <1>8, <3>1, KeyFacts
    <3>2. CASE p # Nil
      <4>1. u.entry = t.entry /\ t.entry \in Keys
        BY <1>1, <1>4, <3>2, KeyFacts
      <4>2. t.entry # n /\ t.entry # m
        BY <1>1, <1>6, <1>8, <3>2
      <4> QED
        BY <1>1, <1>4, <4>1, <4>2
    <3> QED
      BY <3>1, <3>2
  <2>5. \A x \in Keys : u.kid["l"][x] = u.kid["r"][x] => u.kid["l"][x] = Nil
    BY <1>3, <2>3, SidesOf
  <2> QED
    BY <2>1, <2>2, <2>4, <2>5 DEF Agree
<1>18. Sorted(u, E, S \ {n})
  BY <1>7, <1>13, <1>14, <1>15, <1>16, <1>17 DEF Sorted
<1> QED
  BY <1>12, <1>18 DEF u, m, CutTo

\* What Replace writes when m has no links of its own.
LEMMA SwapFields ==
    ASSUME NEW t, Forest(t), NEW n \in Keys, NEW m \in Keys, m # n,
           t.parent[m] = Nil, \A s \in Sides : t.kid[s][m] = Nil, m # t.parent[n]
    PROVE  LET p == t.parent[n]
               f == SideOf(t, p, n)
               u == Replace(t, n, m)
           IN  /\ u.entry = IF p = Nil THEN m ELSE t.entry
               /\ \A x \in Keys : u.parent[x] = IF x = n THEN Nil ELSE IF x = m THEN p
                                                ELSE IF t.parent[x] = n THEN m
                                                ELSE t.parent[x]
               /\ \A x \in Keys, s \in Sides :
                     u.kid[s][x] = IF x = n THEN Nil ELSE IF x = m THEN t.kid[s][n]
                                   ELSE IF x = p /\ s = f THEN m ELSE t.kid[s][x]
               /\ \A x \in Node : u.color[x] = IF p = Nil /\ x = m THEN "B" ELSE t.color[x]
<1> DEFINE l == t.kid["l"][n]
           r == t.kid["r"][n]
           p == t.parent[n]
           f == SideOf(t, p, n)
           v == Bare(t, n)
           v1 == Inherited(v, m, r, "r")
           v2 == Inherited(v1, m, l, "l")
           u == Seated(v2, p, m, f)
<1>1. /\ IsTree(t) /\ Agree(t) /\ n \in Node /\ m \in Node /\ p \in Node /\ f \in Sides
      /\ l \in Node /\ r \in Node /\ "l" \in Sides /\ "r" \in Sides /\ "l" # "r"
      /\ \A x \in Keys : x # Nil /\ x \in Node
      /\ m # Nil
  BY KeyFacts, FieldType, SideType DEF Forest, Sides
<1>2. Replace(t, n, m) = u
  BY DEF Replace
<1>3. /\ v.entry = t.entry /\ v.color = t.color /\ IsTree(v)
      /\ \A x \in Node : v.parent[x] = IF x = n THEN Nil ELSE t.parent[x]
      /\ \A x \in Node, s \in Sides : v.kid[s][x] = IF x = n THEN Nil ELSE t.kid[s][x]
  BY <1>1, BareWrites, BareType
<1>4. /\ (r # Nil => t.parent[r] = n) /\ (l # Nil => t.parent[l] = n)
      /\ \A x \in Keys : t.parent[x] = n => x = l \/ x = r
      /\ (l = r => l = Nil)
  BY <1>1, KeyFacts DEF Agree, Sides
<1>5. /\ r # m /\ l # m /\ p # m /\ p # n
      /\ l # n /\ r # n
  <2>1. PICK d \in [Node -> Nat] : \A x \in Keys : t.parent[x] # Nil => d[t.parent[x]] < d[x]
    BY DEF Forest, Rising
  <2>2. \A x \in Keys : t.parent[x] # x
    BY <2>1, KeyFacts
  <2> HIDE DEF l, r
  <2>3. r # m /\ l # m /\ l # n /\ r # n
    BY <1>1, <1>4, <2>2
  <2> QED
    BY <2>2, <2>3
<1> HIDE DEF l, r, p, f, v
<1>6. /\ v1.entry = v.entry /\ v1.color = v.color /\ IsTree(v1)
      /\ \A x \in Keys : v1.parent[x] = IF x = r THEN m ELSE v.parent[x]
      /\ \A x \in Keys, s \in Sides :
            v1.kid[s][x] = IF x = m /\ s = "r" THEN r ELSE v.kid[s][x]
  <2>1. CASE r = Nil
    <3>1. v1 = v
      BY <2>1 DEF Inherited
    <3>2. v.kid["r"][m] = Nil
      BY <1>1, <1>3
    <3> QED
      BY <1>1, <1>3, <2>1, <3>1, <3>2
  <2>2. CASE r # Nil
    <3>1. v1 = Linked(v, m, r, "r")
      BY <1>1, <1>5, <2>2 DEF Inherited, Seated
    <3>2. v1.color = v.color
      BY <1>3, <3>1 DEF Linked, IsTree
    <3>3. IsTree(v1)
      BY <1>1, <1>3, InheritedType
    <3>4. /\ v1.entry = v.entry
          /\ \A x \in Node : v1.parent[x] = IF x = r THEN IF r = Nil THEN Nil ELSE m
                                            ELSE v.parent[x]
          /\ \A x \in Node, s \in Sides :
                v1.kid[s][x] = IF x = m /\ s = "r" THEN r ELSE v.kid[s][x]
      BY <1>1, <1>3, <3>1, LinkedFields
    <3> QED
      BY <1>1, <2>2, <3>2, <3>3, <3>4
  <2> QED
    BY <2>1, <2>2
<1> HIDE DEF v1
<1>7. /\ v2.entry = v.entry /\ v2.color = v.color /\ IsTree(v2)
      /\ \A x \in Keys : v2.parent[x] = IF x = l THEN m ELSE v1.parent[x]
      /\ \A x \in Keys, s \in Sides :
            v2.kid[s][x] = IF x = m /\ s = "l" THEN l ELSE v1.kid[s][x]
  <2>1. CASE l = Nil
    <3>1. v2 = v1
      BY <2>1 DEF Inherited
    <3>2. v1.kid["l"][m] = Nil
      BY <1>1, <1>3, <1>6
    <3> QED
      BY <1>1, <1>6, <2>1, <3>1, <3>2
  <2>2. CASE l # Nil
    <3>1. v2 = Linked(v1, m, l, "l")
      BY <1>1, <1>5, <2>2 DEF Inherited, Seated
    <3>2. v2.color = v1.color
      BY <1>6, <3>1 DEF Linked, IsTree
    <3>3. IsTree(v2)
      BY <1>1, <1>6, InheritedType
    <3>4. /\ v2.entry = v1.entry
          /\ \A x \in Node : v2.parent[x] = IF x = l THEN IF l = Nil THEN Nil ELSE m
                                            ELSE v1.parent[x]
          /\ \A x \in Node, s \in Sides :
                v2.kid[s][x] = IF x = m /\ s = "l" THEN l ELSE v1.kid[s][x]
      BY <1>1, <1>6, <3>1, LinkedFields
    <3> QED
      BY <1>1, <1>6, <2>2, <3>2, <3>3, <3>4
  <2> QED
    BY <2>1, <2>2
<1> HIDE DEF v2
<1>8. /\ u.entry = IF p = Nil THEN m ELSE v2.entry
      /\ \A x \in Node : u.parent[x] = IF x = m THEN p ELSE v2.parent[x]
      /\ \A x \in Node, s \in Sides :
            u.kid[s][x] = IF p # Nil /\ x = p /\ s = f THEN m ELSE v2.kid[s][x]
      /\ \A x \in Node : u.color[x] = IF p = Nil /\ m # Nil /\ x = m THEN "B" ELSE v2.color[x]
  BY <1>1, <1>7, SeatedFields, SeatedColor
<1> HIDE DEF u
<1>9. u.entry = IF p = Nil THEN m ELSE t.entry
  BY <1>3, <1>7, <1>8
<1>10. ASSUME NEW x \in Keys
       PROVE  u.parent[x] = IF x = n THEN Nil ELSE IF x = m THEN p
                            ELSE IF t.parent[x] = n THEN m ELSE t.parent[x]
  <2>1. x # m => u.parent[x] = IF x = l \/ x = r THEN m ELSE v.parent[x]
    BY <1>1, <1>6, <1>7, <1>8
  <2>2. (x = l \/ x = r) <=> t.parent[x] = n
    BY <1>1, <1>4
  <2> QED
    BY <1>1, <1>3, <1>5, <1>8, <2>1, <2>2
<1>11. ASSUME NEW x \in Keys, NEW s \in Sides
       PROVE  u.kid[s][x] = IF x = n THEN Nil ELSE IF x = m THEN t.kid[s][n]
                            ELSE IF x = p /\ s = f THEN m ELSE t.kid[s][x]
  <2>1. u.kid[s][x] = IF x = p /\ s = f THEN m ELSE v2.kid[s][x]
    BY <1>1, <1>8
  <2>2. v2.kid[s][x] = IF x = m THEN t.kid[s][n] ELSE v.kid[s][x]
    BY <1>6, <1>7 DEF Sides, l, r
  <2> QED
    BY <1>1, <1>3, <1>5, <2>1, <2>2
<1>12. \A x \in Node : u.color[x] = IF p = Nil /\ x = m THEN "B" ELSE t.color[x]
  BY <1>1, <1>3, <1>7, <1>8
<1> QED
  BY <1>2, <1>9, <1>10, <1>11, <1>12 DEF p, f

\* m takes the place of n.
Swapped(A, n, m) == IF n \in A THEN (A \ {n}) \cup {m} ELSE A

LEMMA SwapSorted ==
    ASSUME NEW t, NEW D, NEW S, Sorted(t, D, S), NEW n \in S, NEW m \in Keys \ S,
           \A z \in Sides : \A j \in D[t.kid[z][n]] : Before(z, j, m),
           \A x \in Keys, z \in Sides : n \in D[t.kid[z][x]] => Before(z, m, x)
    PROVE  \E E : Sorted(Replace(t, n, m), E, (S \ {n}) \cup {m})
<1> DEFINE p == t.parent[n]
           f == SideOf(t, p, n)
           u == Replace(t, n, m)
           E == [x \in Node |-> IF x = m THEN Swapped(D[n], n, m) ELSE IF x = n THEN {n}
                                ELSE Swapped(D[x], n, m)]
<1>1. /\ IsTree(t) /\ Forest(t) /\ Loose(t, S) /\ D[t.entry] = S /\ t.parent[t.entry] = Nil
      /\ D \in [Node -> SUBSET Keys] /\ D[Nil] = {} /\ S \in SUBSET Keys /\ t.entry \in Node
      /\ t.entry \in S
      /\ n \in Keys /\ \A x \in Keys : x \in Node /\ x # Nil /\ Nil \in Node
  BY Unfolded, SortedLinks, KeyFacts
<1>2. /\ \A x \in Keys, s \in Sides : \A j \in D[t.kid[s][x]] : Before(s, j, x)
      /\ \A x \in Keys, s \in Sides :
            /\ D[x] = {x} \cup D[t.kid[s][x]] \cup D[t.kid[Other(s)][x]]
            /\ x \notin D[t.kid[s][x]] /\ t.kid[s][x] \in Node
            /\ t.kid[s][x] # Nil => t.parent[t.kid[s][x]] = x
            /\ t.kid[s][x] = t.kid[Other(s)][x] => t.kid[s][x] = Nil
            /\ t.kid[s][x] # x
      /\ \A x \in Keys : t.parent[x] # Nil => \E s \in Sides : t.kid[s][t.parent[x]] = x
      /\ \A x \in Keys : t.parent[x] \in Node /\ x \in D[x]
  BY Unfolded
<1>3. /\ f \in Sides /\ \A s \in Sides : s # f => f = Other(s)
  BY SideType DEF Other, Sides
<1>4. m \in Keys /\ m \notin S /\ m # n /\ t.parent[m] = Nil /\ \A s \in Sides : t.kid[s][m] = Nil
  BY <1>1 DEF Loose
<1>5. p # Nil => t.kid[f][p] = n
  BY <1>1, <1>2 DEF SideOf, Sides
<1>6. /\ (p = Nil => n = t.entry) /\ (p # Nil => p \in S) /\ p \in Node /\ p # n /\ p # m
  <2>1. (p = Nil => n = t.entry) /\ (p # Nil => p \in S)
    BY <1>1, SortedLinks
  <2>2. p \in Node /\ p # n /\ p # m
    BY <1>1, <1>2, <1>3, <1>4, <1>5
  <2> QED
    BY <2>1, <2>2
<1>7. /\ u.entry = IF p = Nil THEN m ELSE t.entry
      /\ \A x \in Keys : u.parent[x] = IF x = n THEN Nil ELSE IF x = m THEN p
                                       ELSE IF t.parent[x] = n THEN m ELSE t.parent[x]
      /\ \A x \in Keys, s \in Sides : u.kid[s][x] = IF x = n THEN Nil
                                      ELSE IF x = m THEN t.kid[s][n]
                                      ELSE IF x = p /\ s = f THEN m ELSE t.kid[s][x]
  <2>1. m # t.parent[n]
    BY <1>6
  <2> QED
    BY <1>1, <1>4, <2>1, SwapFields
<1>8. IsTree(u)
  BY <1>1, <1>4, ReplaceType
<1>9. p = t.parent[n]
  OBVIOUS
<1>10. /\ E \in [Node -> SUBSET Keys] /\ E[n] = {n} /\ E[m] = Swapped(D[n], n, m)
       /\ \A x \in Node : x # n /\ x # m => E[x] = Swapped(D[x], n, m)
  BY <1>1, <1>4 DEF Swapped
<1> HIDE DEF p, f, u, E
<1>11. E[Nil] = {}
  BY <1>1, <1>4, <1>10 DEF Swapped
<1>12. ASSUME NEW x \in Keys, x # n, NEW s \in Sides
       PROVE  t.kid[s][x] = n <=> x = p /\ s = f
  BY <1>1, <1>2, <1>3, <1>5, <1>9
<1>13. ASSUME NEW x \in Keys, x # n, x # m, NEW s \in Sides
       PROVE  E[u.kid[s][x]] = Swapped(D[t.kid[s][x]], n, m)
  <2>1. CASE x = p /\ s = f
    BY <1>1, <1>5, <1>7, <1>10, <1>13, <2>1
  <2>2. CASE ~(x = p /\ s = f)
    <3>1. u.kid[s][x] = t.kid[s][x] /\ t.kid[s][x] # n /\ t.kid[s][x] # m
      BY <1>1, <1>2, <1>4, <1>7, <1>12, <1>13, <2>2
    <3> QED
      BY <1>2, <1>10, <3>1
  <2> QED
    BY <2>1, <2>2
<1>14. ASSUME NEW s \in Sides
       PROVE  E[u.kid[s][m]] = D[t.kid[s][n]]
  <2>1. u.kid[s][m] = t.kid[s][n] /\ t.kid[s][n] # n /\ t.kid[s][n] # m /\ t.kid[s][n] \in Node
    BY <1>1, <1>2, <1>4, <1>7
  <2>2. n \notin D[t.kid[s][n]]
    BY <1>1, <1>2
  <2> QED
    BY <1>10, <2>1, <2>2 DEF Swapped
<1>15. Subtrees(u, E)
  <2>1. ASSUME NEW x \in Keys
        PROVE  E[x] = {x} \cup E[u.kid["l"][x]] \cup E[u.kid["r"][x]]
    <3>0. "l" \in Sides /\ "r" \in Sides /\ Other("l") = "r"
      BY DEF Sides, Other
    <3>1. CASE x = n
      BY <1>7, <1>10, <1>11, <3>0, <3>1
    <3>2. CASE x = m
      <4>1. D[n] = {n} \cup D[t.kid["l"][n]] \cup D[t.kid["r"][n]]
            /\ n \notin D[t.kid["l"][n]] /\ n \notin D[t.kid["r"][n]]
        BY <1>1, <1>2, <3>0
      <4> QED
        BY <1>10, <1>14, <3>0, <3>2, <4>1 DEF Swapped
    <3>3. CASE x # n /\ x # m
      <4>1. D[x] = {x} \cup D[t.kid["l"][x]] \cup D[t.kid["r"][x]]
        BY <1>2, <3>0
      <4>2. /\ E[u.kid["l"][x]] = Swapped(D[t.kid["l"][x]], n, m)
            /\ E[u.kid["r"][x]] = Swapped(D[t.kid["r"][x]], n, m)
            /\ E[x] = Swapped(D[x], n, m)
        BY <1>1, <1>10, <1>13, <3>0, <3>3
      <4> QED
        BY <3>3, <4>1, <4>2 DEF Swapped
    <3> QED
      BY <3>1, <3>2, <3>3
  <2> QED
    BY <1>10, <1>11, <2>1 DEF Subtrees
<1>16. Ordered(u, E)
  <2>1. ASSUME NEW x \in Keys, NEW s \in Sides, NEW j \in E[u.kid[s][x]]
        PROVE  Before(s, j, x)
    <3>1. x # n
      BY <1>7, <1>11, <2>1
    <3>2. CASE x = m
      BY <1>14, <2>1, <3>2
    <3>3. CASE x # m
      <4>1. j \in Swapped(D[t.kid[s][x]], n, m)
        BY <1>13, <2>1, <3>1, <3>3
      <4>2. j \in D[t.kid[s][x]] \/ (n \in D[t.kid[s][x]] /\ j = m)
        BY <4>1 DEF Swapped
      <4> QED
        BY <1>2, <4>2
    <3> QED
      BY <3>2, <3>3
  <2> QED
    BY <2>1 DEF Ordered
<1>17. E[u.entry] = (S \ {n}) \cup {m}
  <2>1. CASE p = Nil
    BY <1>1, <1>6, <1>7, <1>10, <2>1 DEF Swapped
  <2>2. CASE p # Nil
    BY <1>1, <1>4, <1>7, <1>9, <1>10, <2>2 DEF Swapped
  <2> QED
    BY <2>1, <2>2
<1>18. Loose(u, (S \ {n}) \cup {m})
  BY <1>1, <1>6, <1>7 DEF Loose
<1>19. Agree(u)
  <2>1. ASSUME NEW x \in Keys, NEW s \in Sides, u.kid[s][x] # Nil
        PROVE  u.parent[u.kid[s][x]] = x
    <3>1. x # n
      BY <1>7, <2>1
    <3>2. CASE x = m
      <4>1. u.kid[s][x] = t.kid[s][n] /\ t.kid[s][n] \in Keys
        BY <1>1, <1>2, <1>4, <1>7, <2>1, <3>1, <3>2, KeyFacts
      <4>2. t.parent[t.kid[s][n]] = n /\ t.kid[s][n] # n /\ t.kid[s][n] # m
        BY <1>1, <1>2, <1>4, <4>1
      <4> QED
        BY <1>7, <3>2, <4>1, <4>2
    <3>3. CASE x # m /\ x = p /\ s = f
      BY <1>4, <1>7, <3>1, <3>3
    <3>4. CASE x # m /\ ~(x = p /\ s = f)
      <4>1. u.kid[s][x] = t.kid[s][x] /\ t.kid[s][x] # n
        BY <1>7, <1>12, <3>1, <3>4
      <4>2. t.kid[s][x] \in Keys /\ t.parent[t.kid[s][x]] = x
        BY <1>2, <2>1, <4>1, KeyFacts
      <4>3. t.kid[s][x] # m
        BY <1>1, <1>4, <4>2
      <4> QED
        BY <1>7, <3>1, <4>1, <4>2, <4>3
    <3> QED
      BY <3>2, <3>3, <3>4
  <2>2. ASSUME NEW x \in Keys, u.parent[x] # Nil
        PROVE  \E s \in Sides : u.kid[s][u.parent[x]] = x
    <3>1. x # n
      BY <1>7, <2>2
    <3>2. CASE x = m
      <4>1. u.parent[x] = p /\ p \in Keys /\ u.kid[f][p] = m
        BY <1>3, <1>6, <1>7, <2>2, <3>1, <3>2, KeyFacts
      <4> QED
        BY <1>3, <3>2, <4>1
    <3>3. CASE x # m /\ t.parent[x] = n
      <4>1. PICK s \in Sides : t.kid[s][n] = x
        BY <1>1, <1>2, <3>3
      <4>2. u.parent[x] = m /\ u.kid[s][m] = x
        BY <1>4, <1>7, <3>1, <3>3, <4>1
      <4> QED
        BY <4>2
    <3>4. CASE x # m /\ t.parent[x] # n
      <4>1. u.parent[x] = t.parent[x] /\ t.parent[x] \in Keys
        BY <1>2, <1>7, <2>2, <3>1, <3>4, KeyFacts
      <4>2. PICK s \in Sides : t.kid[s][t.parent[x]] = x
        BY <1>2, <2>2, <4>1
      <4>3. t.parent[x] # m
        BY <1>1, <1>4, <4>2
      <4>4. u.kid[s][t.parent[x]] = x
        BY <1>1, <1>5, <1>7, <3>1, <3>4, <4>1, <4>2, <4>3
      <4> QED
        BY <4>1, <4>4
    <3> QED
      BY <3>2, <3>3, <3>4
  <2>3. ASSUME NEW x \in Keys, u.kid[f][x] = u.kid[Other(f)][x]
        PROVE  u.kid[f][x] = Nil
    <3>0. Other(f) \in Sides /\ Other(f) # f
      BY <1>3, OtherType
    <3>1. CASE x = n
      BY <1>3, <1>7, <3>1
    <3>2. CASE x = m
      BY <1>1, <1>2, <1>3, <1>4, <1>7, <2>3, <3>0, <3>2
    <3>3. CASE x = p /\ x # n /\ x # m
      <4>1. u.kid[f][x] = m /\ u.kid[Other(f)][x] = t.kid[Other(f)][x]
        BY <1>3, <1>7, <3>0, <3>3
      <4> QED
        BY <1>1, <1>2, <1>4, <2>3, <3>0, <3>3, <4>1
    <3>4. CASE x # n /\ x # p /\ x # m
      BY <1>2, <1>3, <1>7, <2>3, <3>0, <3>4
    <3> QED
      BY <3>1, <3>2, <3>3, <3>4
  <2>4. u.parent[u.entry] = Nil
    <3>1. CASE p = Nil
      BY <1>4, <1>7, <3>1
    <3>2. CASE p # Nil
      BY <1>1, <1>4, <1>7, <1>9, <3>2
    <3> QED
      BY <3>1, <3>2
  <2>5. \A x \in Keys : u.kid["l"][x] = u.kid["r"][x] => u.kid["l"][x] = Nil
    BY <1>3, <2>3, SidesOf
  <2> QED
    BY <2>1, <2>2, <2>4, <2>5 DEF Agree
<1> QED
  BY <1>8, <1>15, <1>16, <1>17, <1>18, <1>19 DEF Sorted, u

\* w is a function of the steps of a walk.
IsWalk(w) == w = [i \in 0 .. Far |-> w[i]]

LEMMA WalkExists ==
    ASSUME NEW A, NEW a \in A, NEW G \in [A -> A]
    PROVE  \E h : /\ IsWalk(h) /\ h[0] = a
                  /\ \A i \in 1 .. Far : h[i - 1] \in A /\ h[i] = G[h[i - 1]]
<1>1. Far \in Nat
  BY KeyFacts
<1>2. PICK h : Iterates(h, A, a, G, Far)
  BY <1>1, IteratesExist
<1>3. IsWalk(h)
  BY <1>2 DEF Iterates, IsWalk
<1> QED
  BY <1>1, <1>2, <1>3 DEF Iterates

LEMMA WalkStays ==
    ASSUME NEW A, NEW a \in A, NEW G \in [A -> A], NEW W, IsWalk(W), W[0] = a,
           \A i \in 1 .. Far : W[i - 1] \in A => W[i] = G[W[i - 1]]
    PROVE  Iterates(W, A, a, G, Far)
<1>1. Far \in Nat
  BY KeyFacts
<1>2. W[0] \in A /\ \A i \in 1 .. Far : W[i - 1] \in A => W[i] \in A
  OBVIOUS
<1>3. \A i \in 0 .. Far : W[i] \in A
  BY <1>1, <1>2, IteratesStay
<1>4. \A i \in 1 .. Far : i - 1 \in 0 .. Far
  BY <1>1
<1>5. \A i \in 1 .. Far : W[i] = G[W[i - 1]]
  BY <1>3, <1>4
<1>6. W \in [0 .. Far -> A]
  BY <1>3 DEF IsWalk
<1> QED
  BY <1>5, <1>6 DEF Iterates

LEMMA FindIs ==
    ASSUME NEW t, IsTree(t), NEW k \in Keys
    PROVE  \E at : /\ Iterates(at, Node, t.entry, [n \in Node |-> Down(t, k, n)], Far)
                   /\ Find(t, k) = at[Far]
<1> DEFINE G == [n \in Node |-> Down(t, k, n)]
           B(h) == [i \in 0 .. Far |-> IF i = 0 THEN t.entry ELSE Down(t, k, h[i - 1])]
           W == CHOOSE x : x = B(x)
<1>1. Find(t, k) = W[Far]
  BY DEF Find, Walk
<1>2. t.entry \in Node /\ G \in [Node -> Node] /\ \A n \in Node : G[n] = Down(t, k, n)
  BY FieldType DEF Down, Sides, IsTree
<1> HIDE DEF G
<1>3. PICK h : /\ IsWalk(h) /\ h[0] = t.entry
               /\ \A i \in 1 .. Far : h[i - 1] \in Node /\ h[i] = G[h[i - 1]]
  BY <1>2, WalkExists
<1>4. \A i \in 0 .. Far : h[i] = IF i = 0 THEN t.entry ELSE Down(t, k, h[i - 1])
  BY <1>2, <1>3, KeyFacts
<1>5. h = B(h)
  BY <1>3, <1>4 DEF IsWalk
<1>6. W = B(W)
  BY <1>5
<1> HIDE DEF W
<1>7. W[0] = t.entry /\ \A i \in 1 .. Far : W[i] = Down(t, k, W[i - 1])
  BY <1>6, KeyFacts
<1>8. IsWalk(W)
  BY <1>6 DEF IsWalk
<1>9. Iterates(W, Node, t.entry, G, Far)
  BY <1>2, <1>7, <1>8, WalkStays
<1> QED
  BY <1>1, <1>9 DEF G

Deeper(t, k, n) == IF Down(t, k, n) = Nil THEN n ELSE Down(t, k, n)
Lower(t, n) == IF t.kid["l"][n] = Nil THEN n ELSE t.kid["l"][n]
KeySets == SUBSET Keys
Seed(n) == {n} \ {Nil}
Grown(t, A) == A \cup ({t.kid[s][n] : s \in Sides, n \in A} \ {Nil})

LEMMA LastIs ==
    ASSUME NEW t, IsTree(t), NEW k \in Keys
    PROVE  \E at : /\ Iterates(at, Node, t.entry, [n \in Node |-> Deeper(t, k, n)], Far)
                   /\ LastOn(t, k) = at[Far]
<1> DEFINE G == [n \in Node |-> Deeper(t, k, n)]
           B(h) == [i \in 0 .. Far |-> IF i = 0 THEN t.entry ELSE Deeper(t, k, h[i - 1])]
           W == CHOOSE x : x = B(x)
<1>1. LastOn(t, k) = W[Far]
  BY DEF LastOn, Deeper, Walk
<1>2. t.entry \in Node /\ G \in [Node -> Node] /\ \A n \in Node : G[n] = Deeper(t, k, n)
  BY FieldType DEF Deeper, Down, Sides, IsTree
<1> HIDE DEF G
<1>3. PICK h : /\ IsWalk(h) /\ h[0] = t.entry
               /\ \A i \in 1 .. Far : h[i - 1] \in Node /\ h[i] = G[h[i - 1]]
  BY <1>2, WalkExists
<1>4. \A i \in 0 .. Far : h[i] = IF i = 0 THEN t.entry ELSE Deeper(t, k, h[i - 1])
  BY <1>2, <1>3, KeyFacts
<1>5. h = B(h)
  BY <1>3, <1>4 DEF IsWalk
<1>6. W = B(W)
  BY <1>5
<1> HIDE DEF W
<1>7. W[0] = t.entry /\ \A i \in 1 .. Far : W[i] = Deeper(t, k, W[i - 1])
  BY <1>6, KeyFacts
<1>8. IsWalk(W)
  BY <1>6 DEF IsWalk
<1>9. Iterates(W, Node, t.entry, G, Far)
  BY <1>2, <1>7, <1>8, WalkStays
<1> QED
  BY <1>1, <1>9 DEF G

LEMMA LTopIs ==
    ASSUME NEW t, IsTree(t), NEW r \in Node
    PROVE  \E at : /\ Iterates(at, Node, r, [n \in Node |-> Lower(t, n)], Far)
                   /\ LTop(t, r) = at[Far]
<1> DEFINE G == [n \in Node |-> Lower(t, n)]
           B(h) == [i \in 0 .. Far |-> IF i = 0 THEN r ELSE Lower(t, h[i - 1])]
           W == CHOOSE x : x = B(x)
<1>1. LTop(t, r) = W[Far]
  BY DEF LTop, Lower, Walk
<1>2. r \in Node /\ G \in [Node -> Node] /\ \A n \in Node : G[n] = Lower(t, n)
  BY FieldType DEF Lower, Sides
<1> HIDE DEF G
<1>3. PICK h : /\ IsWalk(h) /\ h[0] = r
               /\ \A i \in 1 .. Far : h[i - 1] \in Node /\ h[i] = G[h[i - 1]]
  BY <1>2, WalkExists
<1>4. \A i \in 0 .. Far : h[i] = IF i = 0 THEN r ELSE Lower(t, h[i - 1])
  BY <1>2, <1>3, KeyFacts
<1>5. h = B(h)
  BY <1>3, <1>4 DEF IsWalk
<1>6. W = B(W)
  BY <1>5
<1> HIDE DEF W
<1>7. W[0] = r /\ \A i \in 1 .. Far : W[i] = Lower(t, W[i - 1])
  BY <1>6, KeyFacts
<1>8. IsWalk(W)
  BY <1>6 DEF IsWalk
<1>9. Iterates(W, Node, r, G, Far)
  BY <1>2, <1>7, <1>8, WalkStays
<1> QED
  BY <1>1, <1>9 DEF G

LEMMA BelowIs ==
    ASSUME NEW t, IsTree(t), t = tree, NEW m \in Node
    PROVE  \E at : /\ Iterates(at, KeySets, Seed(m), [n \in KeySets |-> Grown(t, n)], Far)
                   /\ Below(m) = at[Far]
<1> DEFINE G == [n \in KeySets |-> Grown(t, n)]
           B(h) == [i \in 0 .. Far |-> IF i = 0 THEN Seed(m) ELSE Grown(t, h[i - 1])]
           W == CHOOSE x : x = B(x)
<1>1. Below(m) = W[Far]
  BY DEF Below, Grown, Seed, Walk
<1>2. Seed(m) \in KeySets /\ G \in [KeySets -> KeySets] /\ \A n \in KeySets : G[n] = Grown(t, n)
  BY FieldType, KeyFacts DEF Grown, KeySets, Seed
<1> HIDE DEF G
<1>3. PICK h : /\ IsWalk(h) /\ h[0] = Seed(m)
               /\ \A i \in 1 .. Far : h[i - 1] \in KeySets /\ h[i] = G[h[i - 1]]
  BY <1>2, WalkExists
<1>4. \A i \in 0 .. Far : h[i] = IF i = 0 THEN Seed(m) ELSE Grown(t, h[i - 1])
  BY <1>2, <1>3, KeyFacts
<1>5. h = B(h)
  BY <1>3, <1>4 DEF IsWalk
<1>6. W = B(W)
  BY <1>5
<1> HIDE DEF W
<1>7. W[0] = Seed(m) /\ \A i \in 1 .. Far : W[i] = Grown(t, W[i - 1])
  BY <1>6, KeyFacts
<1>8. IsWalk(W)
  BY <1>6 DEF IsWalk
<1>9. Iterates(W, KeySets, Seed(m), G, Far)
  BY <1>2, <1>7, <1>8, WalkStays
<1> QED
  BY <1>1, <1>9 DEF G

\* Which way GetNode goes.
Toward(k, n) == IF k < n THEN "l" ELSE "r"

LEMMA IteratesFacts ==
    ASSUME NEW A, NEW a \in A, NEW G \in [A -> A], NEW at, Iterates(at, A, a, G, Far)
    PROVE  /\ at[0] = a
           /\ \A i \in 0 .. Far : at[i] \in A
           /\ \A i \in 1 .. Far : i - 1 \in 0 .. Far /\ at[i - 1] \in A /\ at[i] = G[at[i - 1]]
  BY KeyFacts DEF Iterates

LEMMA DownFacts ==
    ASSUME NEW t, NEW D, NEW S, Sorted(t, D, S), NEW k \in Keys, NEW n \in Keys, n # k
    PROVE  /\ Toward(k, n) \in Sides /\ Before(Toward(k, n), k, n)
           /\ Down(t, k, n) = t.kid[Toward(k, n)][n]
           /\ k \in D[n] => k \in D[Down(t, k, n)]
<1>1. k \in Int /\ n \in Int /\ n # Nil
  BY KeyFacts
<1>2. Toward(k, n) \in Sides /\ Before(Toward(k, n), k, n) /\ ~Before(Other(Toward(k, n)), k, n)
  BY <1>1 DEF Toward, Before, Sides, Other
<1>3. Down(t, k, n) = t.kid[Toward(k, n)][n]
  BY <1>1 DEF Down, Toward
<1>4. ASSUME k \in D[n] PROVE k \in D[Down(t, k, n)]
  <2>1. Other(Toward(k, n)) \in Sides
    BY <1>2, OtherType
  <2>2. /\ D[n] = {n} \cup D[t.kid[Toward(k, n)][n]] \cup D[t.kid[Other(Toward(k, n))][n]]
        /\ \A j \in D[t.kid[Other(Toward(k, n))][n]] : Before(Other(Toward(k, n)), j, n)
    BY <1>2, <2>1, Unfolded
  <2> QED
    BY <1>2, <1>3, <1>4, <2>2
<1> QED
  BY <1>2, <1>3, <1>4

\* GetNode finds the keys of the tree and no others.
LEMMA FindFacts ==
    ASSUME NEW t, NEW D, NEW S, Sorted(t, D, S), NEW k \in Keys
    PROVE  /\ Find(t, k) = k => k \in S
           /\ Find(t, k) = Nil => k \notin S
<1>1. IsTree(t) /\ D[t.entry] = S /\ D[Nil] = {} /\ D \in [Node -> SUBSET Keys]
      /\ S \in SUBSET Keys /\ t.entry \in Node /\ Far \in Nat /\ (t.entry # Nil => t.entry \in S)
  BY Unfolded, SortedLinks, KeyFacts
<1> DEFINE G == [n \in Node |-> Down(t, k, n)]
<1>2. PICK at : Iterates(at, Node, t.entry, G, Far) /\ Find(t, k) = at[Far]
  BY <1>1, FindIs
<1>3. /\ at[0] = t.entry
      /\ \A i \in 1 .. Far : i - 1 \in 0 .. Far /\ at[i - 1] \in Node
                             /\ at[i] = Down(t, k, at[i - 1])
  <2>1. G \in [Node -> Node] /\ \A n \in Node : G[n] = Down(t, k, n)
    BY <1>1, FieldType DEF Down, Sides, IsTree
  <2> HIDE DEF G
  <2> QED
    BY <1>1, <1>2, <2>1, IteratesFacts
<1>4. ASSUME Find(t, k) = k PROVE k \in S
  <2> DEFINE P == S \cup {Nil}
  <2>1. at[0] \in P
    BY <1>1, <1>3
  <2>2. ASSUME NEW i \in 1 .. Far, at[i - 1] \in P PROVE at[i] \in P
    <3>1. PICK n : n = at[i - 1]
      OBVIOUS
    <3>2. at[i] = Down(t, k, n) /\ n \in S \cup {Nil}
      BY <1>3, <2>2, <3>1
    <3>3. Down(t, k, n) \in {n, t.kid["l"][n], t.kid["r"][n]} /\ (n = Nil => Down(t, k, n) = Nil)
      BY DEF Down
    <3>4. n \in Keys => \A s \in Sides : t.kid[s][n] # Nil => t.kid[s][n] \in S
      BY SortedLinks
    <3> QED
      BY <1>1, <3>2, <3>3, <3>4 DEF Sides
  <2> HIDE DEF P
  <2>3. \A i \in 0 .. Far : at[i] \in P
    BY <1>1, <2>1, <2>2, IteratesStay
  <2>4. at[Far] \in P
    BY <1>1, <2>3
  <2> QED
    BY <1>2, <1>4, <2>4, KeyFacts DEF P
<1>5. ASSUME Find(t, k) = Nil, k \in S PROVE FALSE
  <2> DEFINE P == {n \in Keys : k \in D[n]}
  <2>1. at[0] \in P
    BY <1>1, <1>3, <1>5, KeyFacts
  <2>2. ASSUME NEW i \in 1 .. Far, at[i - 1] \in P PROVE at[i] \in P
    <3>1. PICK n : n = at[i - 1]
      OBVIOUS
    <3>2. at[i] = Down(t, k, n) /\ n \in Keys /\ k \in D[n]
      BY <1>3, <2>2, <3>1
    <3>3. CASE n = k
      BY <3>2, <3>3 DEF Down
    <3>4. CASE n # k
      <4>1. k \in D[Down(t, k, n)] /\ Down(t, k, n) = t.kid[Toward(k, n)][n] /\ Toward(k, n) \in Sides
        BY <3>2, <3>4, DownFacts
      <4>2. Down(t, k, n) \in Node
        BY <3>2, <4>1, Unfolded
      <4> QED
        BY <1>1, <3>2, <4>1, <4>2, KeyFacts
    <3> QED
      BY <3>3, <3>4
  <2> HIDE DEF P
  <2>3. \A i \in 0 .. Far : at[i] \in P
    BY <1>1, <2>1, <2>2, IteratesStay
  <2>4. at[Far] \in P
    BY <1>1, <2>3
  <2> QED
    BY <1>2, <1>5, <2>4, KeyFacts DEF P
<1> QED
  BY <1>4, <1>5

\* The nodes on the way to where k belongs.
Places(t, D, S, k) ==
    {n \in S : \A x \in Keys, z \in Sides : n \in D[t.kid[z][x]] => Before(z, k, x)}

LEMMA DownPlaces ==
    ASSUME NEW t, NEW D, NEW S, Sorted(t, D, S), NEW k \in Keys \ S,
           NEW n \in Places(t, D, S, k), Down(t, k, n) # Nil
    PROVE  Down(t, k, n) \in Places(t, D, S, k)
<1> DEFINE m == Down(t, k, n)
           z == Toward(k, n)
<1>1. n \in S /\ n \in Keys /\ n # k /\ IsTree(t) /\ Agree(t) /\ Subtrees(t, D) /\ Ordered(t, D)
  BY SortedLinks DEF Places, Sorted
<1>2. z \in Sides /\ Before(z, k, n) /\ m = t.kid[z][n]
  BY <1>1, DownFacts
<1> HIDE DEF m, z
<1>3. m # Nil
  BY DEF m
<1>4. m \in S /\ m \in Keys /\ t.parent[m] = n
  BY <1>1, <1>2, <1>3, SortedLinks, Unfolded
<1>5. ASSUME NEW x \in Keys, NEW s \in Sides, m \in D[t.kid[s][x]]
      PROVE  Before(s, k, x)
  <2>1. t.kid[s][x] \in Node
    BY Unfolded
  <2>2. CASE t.kid[s][x] # m
    <3>1. n \in D[t.kid[s][x]]
      BY <1>1, <1>4, <1>5, <2>1, <2>2, ParentBelow
    <3> QED
      BY <3>1 DEF Places
  <2>3. CASE t.kid[s][x] = m
    <3>1. x = n
      BY <1>3, <1>4, <2>3, Unfolded
    <3>2. s = z
      <4>1. s # z => z = Other(s)
        BY <1>2 DEF Sides, Other
      <4> QED
        BY <1>1, <1>2, <1>3, <2>3, <3>1, <4>1, Unfolded
    <3> QED
      BY <1>2, <3>1, <3>2
  <2> QED
    BY <2>2, <2>3
<1> QED
  BY <1>4, <1>5 DEF Places, m

\* Insert links a new key below a node that has room on the side where it belongs.
LEMMA LastFacts ==
    ASSUME NEW t, NEW D, NEW S, Sorted(t, D, S), NEW k \in Keys, t.entry # Nil, Find(t, k) = Nil
    PROVE  /\ LastOn(t, k) \in Places(t, D, S, k)
           /\ Down(t, k, LastOn(t, k)) = Nil
<1>1. IsTree(t) /\ Far \in Nat /\ k \in Keys \ S /\ t.entry \in S /\ S \in SUBSET Keys
      /\ t.parent[t.entry] = Nil /\ D \in [Node -> SUBSET Keys]
  BY FindFacts, Unfolded, SortedLinks, KeyFacts
<1> DEFINE G == [n \in Node |-> Down(t, k, n)]
           H == [n \in Node |-> Deeper(t, k, n)]
<1>2. PICK at : Iterates(at, Node, t.entry, G, Far) /\ Find(t, k) = at[Far]
  BY <1>1, FindIs
<1>3. PICK lt : Iterates(lt, Node, t.entry, H, Far) /\ LastOn(t, k) = lt[Far]
  BY <1>1, LastIs
<1>4. /\ at[0] = t.entry /\ lt[0] = t.entry
      /\ \A i \in 1 .. Far : /\ i - 1 \in 0 .. Far /\ at[i] = Down(t, k, at[i - 1])
                             /\ lt[i] = Deeper(t, k, lt[i - 1])
  <2>1. /\ G \in [Node -> Node] /\ \A n \in Node : G[n] = Down(t, k, n)
        /\ H \in [Node -> Node] /\ \A n \in Node : H[n] = Deeper(t, k, n)
    BY <1>1, FieldType DEF Deeper, Down, Sides, IsTree
  <2> HIDE DEF G, H
  <2>2. t.entry \in Node
    BY <1>1, KeyFacts
  <2>3. /\ at[0] = t.entry
        /\ \A i \in 1 .. Far : /\ i - 1 \in 0 .. Far /\ at[i - 1] \in Node
                               /\ at[i] = G[at[i - 1]]
    BY <1>2, <2>1, <2>2, IteratesFacts
  <2>4. /\ lt[0] = t.entry
        /\ \A i \in 1 .. Far : /\ i - 1 \in 0 .. Far /\ lt[i - 1] \in Node
                               /\ lt[i] = H[lt[i - 1]]
    BY <1>3, <2>1, <2>2, IteratesFacts
  <2> QED
    BY <2>1, <2>3, <2>4
<1> HIDE DEF G, H
<1> DEFINE P == Places(t, D, S, k)
           Q == {i \in 0 .. Far : IF at[i] = Nil THEN Down(t, k, lt[i]) = Nil ELSE lt[i] = at[i]}
<1>5. lt[0] \in P
  <2>1. ASSUME NEW x \in Keys, NEW z \in Sides, t.entry \in D[t.kid[z][x]]
        PROVE  FALSE
    <3>1. t.kid[z][x] \in Node /\ IsTree(t) /\ Agree(t) /\ Subtrees(t, D) /\ Ordered(t, D)
      BY Unfolded DEF Sorted
    <3>2. CASE t.kid[z][x] = t.entry
      BY <1>1, <3>2, KeyFacts, Unfolded
    <3>3. CASE t.kid[z][x] # t.entry
      <4>1. Nil \in D[t.kid[z][x]]
        BY <1>1, <2>1, <3>1, <3>3, ParentBelow
      <4> QED
        BY <1>1, <3>1, <4>1, KeyFacts
    <3> QED
      BY <3>2, <3>3
  <2> QED
    BY <1>1, <1>4, <2>1 DEF Places
<1>6. ASSUME NEW i \in 1 .. Far, lt[i - 1] \in P PROVE lt[i] \in P
  <2>1. PICK n : n = lt[i - 1]
    OBVIOUS
  <2>2. lt[i] = Deeper(t, k, n) /\ n \in P
    BY <1>4, <1>6, <2>1
  <2> QED
    BY <1>1, <2>2, DownPlaces DEF Deeper
<1> HIDE DEF P
<1>7. \A i \in 0 .. Far : lt[i] \in P
  BY <1>1, <1>5, <1>6, IteratesStay
<1>8. 0 \in Q
  BY <1>1, <1>4, KeyFacts
<1>9. ASSUME NEW i \in 1 .. Far, i - 1 \in Q PROVE i \in Q
  <2>1. at[i] = Down(t, k, at[i - 1]) /\ lt[i] = Deeper(t, k, lt[i - 1])
    BY <1>4
  <2>2. CASE at[i - 1] = Nil
    <3>1. Down(t, k, lt[i - 1]) = Nil /\ at[i] = Nil
      BY <1>9, <2>1, <2>2 DEF Down
    <3> QED
      BY <1>4, <2>1, <3>1 DEF Deeper
  <2>3. CASE at[i - 1] # Nil
    <3>1. lt[i - 1] = at[i - 1]
      BY <1>9, <2>3
    <3> QED
      BY <1>4, <2>1, <3>1 DEF Deeper
  <2> QED
    BY <2>2, <2>3
<1> DEFINE I == [i \in 0 .. Far |-> i]
<1>10. \A i \in 0 .. Far : I[i] \in Q
  <2>1. I[0] \in Q /\ \A i \in 1 .. Far : I[i - 1] \in Q => I[i] \in Q
    <3> HIDE DEF Q
    <3> QED
      BY <1>1, <1>8, <1>9
  <2> HIDE DEF Q, I
  <2> QED
    BY <1>1, <2>1, IteratesStay
<1>11. Far \in Q
  BY <1>1, <1>10
<1> QED
  BY <1>1, <1>2, <1>3, <1>7, <1>11 DEF P

\* What is below a child is smaller.
LEMMA SmallerBelow ==
    ASSUME NEW t, NEW D, NEW S, Sorted(t, D, S), NEW n \in Keys, NEW s \in Sides
    PROVE  /\ Cardinality(D[n]) \in 1 .. Far /\ Cardinality(D[t.kid[s][n]]) \in 0 .. Far
           /\ Cardinality(D[t.kid[s][n]]) < Cardinality(D[n])
<1>1. /\ D[n] \in SUBSET Keys /\ D[t.kid[s][n]] \in SUBSET Keys /\ n \in D[n]
      /\ D[t.kid[s][n]] \subseteq D[n] \ {n}
  BY BelowKids DEF Sorted
<1> DEFINE A == D[n]
           B == D[t.kid[s][n]]
<1>2. A \in SUBSET Keys /\ B \in SUBSET Keys /\ n \in A /\ B \subseteq A \ {n}
  BY <1>1
<1> HIDE DEF A, B
<1>3. IsFiniteSet(A) /\ IsFiniteSet(B) /\ Cardinality(A) \in 0 .. Far /\ Cardinality(B) \in 0 .. Far
      /\ Far \in Nat
  BY <1>2, KeyFacts
<1>4. IsFiniteSet(A \ {n}) /\ Cardinality(A \ {n}) = Cardinality(A) - 1
  BY <1>2, <1>3, FS_RemoveElement
<1>5. Cardinality(B) <= Cardinality(A \ {n})
  BY <1>2, <1>4, FS_Subset
<1>6. Cardinality(A) \in 1 .. Far /\ Cardinality(B) < Cardinality(A)
  BY <1>3, <1>4, <1>5
<1> QED
  BY <1>3, <1>6 DEF A, B

\* LTop of a subtree is its least key, and has no left child.
LEMMA LTopFacts ==
    ASSUME NEW t, NEW D, NEW S, Sorted(t, D, S), NEW r \in S
    PROVE  /\ LTop(t, r) \in D[r] /\ t.kid["l"][LTop(t, r)] = Nil
           /\ \A j \in D[r] \ {LTop(t, r)} : LTop(t, r) < j
<1>1. /\ IsTree(t) /\ Far \in Nat /\ r \in Keys /\ r \in Node /\ D \in [Node -> SUBSET Keys]
      /\ D[Nil] = {} /\ r \in D[r] /\ "l" \in Sides /\ Other("l") = "r"
      /\ D[r] \in SUBSET Keys
  BY Unfolded, SortedLinks, KeyFacts DEF Sides, Other
<1> DEFINE G == [n \in Node |-> Lower(t, n)]
<1>2. PICK at : Iterates(at, Node, r, G, Far) /\ LTop(t, r) = at[Far]
  BY <1>1, LTopIs
<1>3. /\ at[0] = r
      /\ \A i \in 1 .. Far : i - 1 \in 0 .. Far /\ at[i - 1] \in Node
                             /\ at[i] = Lower(t, at[i - 1])
  <2>1. G \in [Node -> Node] /\ \A n \in Node : G[n] = Lower(t, n)
    BY <1>1, FieldType DEF Lower
  <2> HIDE DEF G
  <2> QED
    BY <1>1, <1>2, <2>1, IteratesFacts
<1> DEFINE Least(n) == \A j \in D[r] : j \in D[n] \/ n < j
           Q == {i \in 0 .. Far : /\ at[i] \in D[r] /\ Least(at[i])
                                  /\ \/ t.kid["l"][at[i]] = Nil
                                     \/ Cardinality(D[at[i]]) + i <= Far}
<1>4. 0 \in Q
  <2>1. Cardinality(D[r]) \in 1 .. Far
    BY <1>1, SmallerBelow
  <2> QED
    BY <1>1, <1>3, <2>1
<1>5. ASSUME NEW i \in 1 .. Far, i - 1 \in Q PROVE i \in Q
  <2>1. PICK n : n = at[i - 1]
    OBVIOUS
  <2>2. /\ n \in D[r] /\ n \in Keys /\ at[i] = Lower(t, n)
        /\ \A j \in D[r] : j \in D[n] \/ n < j
        /\ t.kid["l"][n] = Nil \/ Cardinality(D[n]) + (i - 1) <= Far
    BY <1>1, <1>3, <1>5, <2>1
  <2>3. CASE t.kid["l"][n] = Nil
    BY <1>5, <2>2, <2>3 DEF Lower
  <2>4. CASE t.kid["l"][n] # Nil
    <3> DEFINE m == t.kid["l"][n]
    <3>1. at[i] = m /\ m \in Keys
      BY <1>1, <2>2, <2>4, Unfolded, KeyFacts DEF Lower
    <3>2. m \in D[n] /\ D[n] \subseteq D[r] /\ \A j \in D[m] : j < n
      <4>1. D[n] \subseteq D[r]
        BY <1>1, <2>2, BelowBelow DEF Sorted
      <4>2. /\ D[n] = {n} \cup D[m] \cup D[t.kid["r"][n]] /\ m \in D[m]
            /\ \A j \in D[m] : Before("l", j, n)
        BY <1>1, <2>2, <3>1, Unfolded
      <4> QED
        BY <4>1, <4>2 DEF Before
    <3>3. \A j \in D[r] : j \in D[m] \/ m < j
      <4>1. SUFFICES ASSUME NEW j \in D[r], j \notin D[m] PROVE m < j
        OBVIOUS
      <4>2. m < n /\ j \in Int /\ m \in Int /\ n \in Int
        <5>1. m \in D[m]
          BY <3>1, Unfolded
        <5> QED
          BY <1>1, <2>2, <3>1, <3>2, <4>1, <5>1, KeyFacts
      <4>3. j \notin D[n] => n < j
        BY <2>2
      <4>4. j \in D[n] /\ j # n => n < j
        <5>1. /\ D[n] = {n} \cup D[m] \cup D[t.kid["r"][n]]
              /\ \A i2 \in D[t.kid["r"][n]] : Before("r", i2, n)
          BY <1>1, <2>2, Unfolded DEF Sides
        <5> QED
          BY <4>1, <5>1 DEF Before
      <4> QED
        BY <4>2, <4>3, <4>4
    <3>4. Cardinality(D[m]) + i <= Far
      <4>1. Cardinality(D[m]) < Cardinality(D[n]) /\ Cardinality(D[m]) \in 0 .. Far
            /\ Cardinality(D[n]) \in 1 .. Far
        BY <1>1, <2>2, SmallerBelow
      <4> HIDE DEF m
      <4> QED
        BY <1>1, <2>2, <2>4, <4>1
    <3> HIDE DEF m
    <3> QED
      BY <3>1, <3>2, <3>3, <3>4
  <2> QED
    BY <2>3, <2>4
<1> DEFINE I == [i \in 0 .. Far |-> i]
<1>6. Far \in Q
  <2>1. I[0] \in Q /\ \A i \in 1 .. Far : I[i - 1] \in Q => I[i] \in Q
    <3> HIDE DEF Q
    <3> QED
      BY <1>1, <1>4, <1>5
  <2>2. \A i \in 0 .. Far : I[i] \in Q
    <3> HIDE DEF Q, I
    <3> QED
      BY <1>1, <2>1, IteratesStay
  <2> HIDE DEF Q
  <2> QED
    BY <1>1, <2>2
<1>7. PICK n : n = at[Far]
  OBVIOUS
<1>8. /\ n \in D[r] /\ n \in Keys /\ (\A j \in D[r] : j \in D[n] \/ n < j)
      /\ t.kid["l"][n] = Nil \/ Cardinality(D[n]) + Far <= Far
  BY <1>1, <1>6, <1>7
<1>9. t.kid["l"][n] = Nil
  <2>1. Cardinality(D[n]) \in 1 .. Far
    BY <1>1, <1>8, SmallerBelow
  <2> QED
    BY <1>1, <1>8, <2>1
<1>10. ASSUME NEW j \in D[r] \ {n} PROVE n < j
  <2>1. /\ D[n] = {n} \cup D[t.kid["l"][n]] \cup D[t.kid["r"][n]]
        /\ \A i \in D[t.kid["r"][n]] : Before("r", i, n)
    BY <1>1, <1>8, Unfolded DEF Sides
  <2> QED
    BY <1>1, <1>8, <1>9, <2>1 DEF Before
<1> QED
  BY <1>2, <1>7, <1>8, <1>9, <1>10

\* What is closed under children contains all that is below its members.
LEMMA ClosedBelow ==
    ASSUME NEW t, NEW D, NEW S, Sorted(t, D, S), NEW A \in SUBSET Keys, Grown(t, A) = A,
           NEW n \in A
    PROVE  D[n] \subseteq A
<1> DEFINE C == {k \in A : ~(D[k] \subseteq A)}
<1> SUFFICES ASSUME C # {} PROVE FALSE
  OBVIOUS
<1>1. PICK m \in C : \A s \in Sides : t.kid[s][m] \notin C
  <2>1. C \in SUBSET Keys
    OBVIOUS
  <2> HIDE DEF C
  <2> QED
    BY <2>1, LeastNode DEF Sorted
<1>2. m \in A /\ m \in Keys /\ ~(D[m] \subseteq A)
  BY <1>1
<1>3. \A s \in Sides : t.kid[s][m] # Nil => t.kid[s][m] \in A
  BY <1>2 DEF Grown
<1>4. D[Nil] = {} /\ \A s \in Sides : D[t.kid[s][m]] \subseteq A
  BY <1>1, <1>3, Unfolded
<1>5. D[m] = {m} \cup D[t.kid["l"][m]] \cup D[t.kid["r"][m]] /\ "l" \in Sides /\ "r" \in Sides
  BY <1>2, Unfolded DEF Sides, Other
<1> QED
  BY <1>2, <1>4, <1>5

\* The walk down reaches all that is below a node and nothing else.
LEMMA BelowFacts ==
    ASSUME NEW D, NEW S, Sorted(tree, D, S), NEW n \in Node
    PROVE  Below(n) = D[n]
<1>1. /\ IsTree(tree) /\ Far \in Nat /\ D \in [Node -> SUBSET Keys] /\ D[Nil] = {}
      /\ D[n] \in SUBSET Keys
  BY Unfolded, KeyFacts
<1> DEFINE G == [A \in KeySets |-> Grown(tree, A)]
<1>2. PICK at : Iterates(at, KeySets, Seed(n), G, Far) /\ Below(n) = at[Far]
  BY <1>1, BelowIs
<1>3. /\ at[0] = Seed(n)
      /\ \A i \in 0 .. Far : at[i] \in SUBSET Keys
      /\ \A i \in 1 .. Far : i - 1 \in 0 .. Far /\ at[i - 1] \in SUBSET Keys
                             /\ at[i] = Grown(tree, at[i - 1])
  <2>1. /\ G \in [KeySets -> KeySets] /\ \A A \in KeySets : G[A] = Grown(tree, A)
        /\ Seed(n) \in KeySets
    BY <1>1, FieldType, KeyFacts DEF Grown, KeySets, Seed
  <2> HIDE DEF G
  <2>2. /\ at[0] = Seed(n)
        /\ \A i \in 0 .. Far : at[i] \in KeySets
        /\ \A i \in 1 .. Far : i - 1 \in 0 .. Far /\ at[i - 1] \in KeySets /\ at[i] = G[at[i - 1]]
    BY <1>2, <2>1, IteratesFacts
  <2> QED
    BY <2>1, <2>2 DEF KeySets
<1> HIDE DEF G
<1>4. \A A \in SUBSET D[n] : Grown(tree, A) \subseteq D[n]
  <2>1. ASSUME NEW k \in D[n], NEW s \in Sides, tree.kid[s][k] # Nil
        PROVE  tree.kid[s][k] \in D[n]
    <3>1. k \in Keys /\ D[k] \subseteq D[n]
      BY <1>1, BelowBelow DEF Sorted
    <3>2. tree.kid[s][k] \in Keys /\ tree.kid[s][k] \in D[tree.kid[s][k]]
      BY <2>1, <3>1, Unfolded, KeyFacts
    <3>3. D[tree.kid[s][k]] \subseteq D[k]
      BY <3>1, BelowKids DEF Sorted
    <3> QED
      BY <3>1, <3>2, <3>3
  <2> QED
    BY <2>1 DEF Grown
<1>5. CASE n = Nil
  <2> DEFINE P == {{}}
  <2>1. at[0] \in P /\ \A i \in 1 .. Far : at[i - 1] \in P => at[i] \in P
    BY <1>3, <1>5 DEF Seed, Grown
  <2>2. \A i \in 0 .. Far : at[i] \in P
    <3> HIDE DEF P
    <3> QED
      BY <1>1, <2>1, IteratesStay
  <2> QED
    BY <1>1, <1>2, <1>5, <2>2
<1>6. CASE n # Nil
  <2>1. n \in Keys /\ Seed(n) = {n} /\ n \in D[n]
    BY <1>6, KeyFacts, Unfolded DEF Seed
  <2> DEFINE P == {A \in SUBSET Keys : n \in A /\ A \subseteq D[n]}
             Q == {i \in 0 .. Far : Grown(tree, at[i]) = at[i] \/ Cardinality(at[i]) >= i + 1}
  <2>2. \A i \in 0 .. Far : at[i] \in P
    <3>1. at[0] \in P
      BY <1>3, <2>1
    <3>2. ASSUME NEW i \in 1 .. Far, at[i - 1] \in P PROVE at[i] \in P
      <4>1. PICK A : A = at[i - 1]
        OBVIOUS
      <4>2. A \in P /\ at[i] = Grown(tree, A) /\ at[i] \in SUBSET Keys
        BY <1>3, <3>2, <4>1
      <4>3. A \in SUBSET D[n] /\ n \in A
        BY <4>2
      <4>4. n \in at[i]
        BY <4>2, <4>3 DEF Grown
      <4> QED
        BY <1>4, <4>2, <4>3, <4>4
    <3> HIDE DEF P
    <3> QED
      BY <1>1, <3>1, <3>2, IteratesStay
  <2>3. 0 \in Q
    <3>1. at[0] = {n}
      BY <1>3, <2>1
    <3>2. Cardinality(at[0]) = 1
      BY <3>1, FS_Singleton
    <3>3. 0 \in 0 .. Far
      BY <1>1
    <3> QED
      BY <3>2, <3>3
  <2>4. ASSUME NEW i \in 1 .. Far, i - 1 \in Q PROVE i \in Q
    <3>1. PICK A : A = at[i - 1]
      OBVIOUS
    <3>2. PICK B : B = at[i]
      OBVIOUS
    <3>3. B = Grown(tree, A) /\ A \in SUBSET Keys /\ B \in SUBSET Keys /\ A \subseteq B
          /\ (Grown(tree, A) = A \/ Cardinality(A) >= (i - 1) + 1)
      BY <1>3, <2>4, <3>1, <3>2 DEF Grown
    <3>4. CASE B = A
      <4>1. Grown(tree, at[i]) = at[i]
        BY <3>2, <3>3, <3>4
      <4> QED
        BY <1>1, <4>1
    <3>5. CASE B # A
      <4>1. PICK b \in B : b \notin A
        BY <3>3, <3>5
      <4>2. IsFiniteSet(A) /\ IsFiniteSet(B) /\ Cardinality(A) \in Nat /\ Cardinality(B) \in Nat
        BY <3>3, KeyFacts
      <4>3. Cardinality(A \cup {b}) = Cardinality(A) + 1 /\ IsFiniteSet(A \cup {b})
        BY <4>1, <4>2, FS_AddElement
      <4>4. Cardinality(A \cup {b}) <= Cardinality(B)
        BY <3>3, <4>1, <4>2, FS_Subset
      <4>5. Cardinality(A) >= i
        BY <3>3, <3>5
      <4> QED
        BY <3>2, <4>2, <4>3, <4>4, <4>5
    <3> QED
      BY <3>4, <3>5
  <2> DEFINE I == [i \in 0 .. Far |-> i]
  <2>5. Far \in Q
    <3>1. I[0] \in Q /\ \A i \in 1 .. Far : I[i - 1] \in Q => I[i] \in Q
      <4> HIDE DEF Q
      <4> QED
        BY <1>1, <2>3, <2>4
    <3>2. \A i \in 0 .. Far : I[i] \in Q
      <4> HIDE DEF Q, I
      <4> QED
        BY <1>1, <3>1, IteratesStay
    <3> HIDE DEF Q
    <3> QED
      BY <1>1, <3>2
  <2>6. PICK A : A = at[Far]
    OBVIOUS
  <2>7. /\ A \in SUBSET Keys /\ n \in A /\ A \subseteq D[n]
        /\ Grown(tree, A) = A \/ Cardinality(A) >= Far + 1
    BY <1>1, <2>2, <2>5, <2>6
  <2>8. Grown(tree, A) = A
    BY <2>7, KeyFacts
  <2>9. D[n] \subseteq A
    BY <2>7, <2>8, ClosedBelow
  <2> QED
    BY <1>2, <2>6, <2>7, <2>9
<1> QED
  BY <1>5, <1>6

\* A new node is linked where its key belongs.
LEMMA LinkedSorted ==
    ASSUME NEW t, NEW D, NEW S, Sorted(t, D, S), NEW k \in Keys \ S, NEW p \in Places(t, D, S, k),
           NEW s \in Sides, t.kid[s][p] = Nil, Before(s, k, p)
    PROVE  \E E : Sorted(Linked(t, p, k, s), E, S \cup {k})
<1> DEFINE u == Linked(t, p, k, s)
           o == Other(s)
           E == [x \in Node |-> IF p \in D[x] THEN D[x] \cup {k} ELSE D[x]]
<1>1. /\ IsTree(t) /\ Loose(t, S) /\ D[t.entry] = S /\ t.parent[t.entry] = Nil
      /\ D \in [Node -> SUBSET Keys] /\ D[Nil] = {} /\ S \in SUBSET Keys /\ t.entry \in Node
      /\ \A x \in Keys : x \in Node /\ x # Nil /\ Nil \in Node
  BY Unfolded, SortedLinks, KeyFacts
<1>2. /\ \A x \in Keys, z \in Sides : \A j \in D[t.kid[z][x]] : Before(z, j, x)
      /\ \A x \in Keys, z \in Sides :
            /\ D[x] = {x} \cup D[t.kid[z][x]] \cup D[t.kid[Other(z)][x]]
            /\ x \notin D[t.kid[z][x]] /\ t.kid[z][x] \in Node
            /\ t.kid[z][x] # Nil => t.parent[t.kid[z][x]] = x
            /\ t.kid[z][x] = t.kid[Other(z)][x] => t.kid[z][x] = Nil
            /\ t.kid[z][x] # x
      /\ \A x \in Keys : t.parent[x] # Nil => \E z \in Sides : t.kid[z][t.parent[x]] = x
      /\ \A x \in Keys : t.parent[x] \in Node /\ x \in D[x]
  BY Unfolded
<1>3. o \in Sides /\ o # s /\ Sides = {s, o} /\ Other(o) = s
  BY DEF Other, Sides
<1>4. /\ p \in S /\ p \in Keys /\ k \in Keys /\ k \notin S /\ k # p
      /\ t.parent[k] = Nil /\ \A z \in Sides : t.kid[z][k] = Nil
      /\ \A x \in Keys, z \in Sides : p \in D[t.kid[z][x]] => Before(z, k, x)
      /\ t.kid[s][p] = Nil
  BY <1>1 DEF Places, Loose
<1>5. t.entry \in S
  BY <1>1, <1>4, SortedLinks
<1>6. /\ u.entry = t.entry
      /\ \A x \in Node : u.parent[x] = IF x = k THEN p ELSE t.parent[x]
      /\ \A x \in Node, z \in Sides : u.kid[z][x] = IF x = p /\ z = s THEN k ELSE t.kid[z][x]
  BY <1>1, <1>4, LinkedFields
<1>7. IsTree(u)
  BY <1>1, <1>4, LinkedType
<1> HIDE DEF u, o
<1>8. D[k] = {k}
  BY <1>1, <1>2, <1>3, <1>4
<1>9. /\ E \in [Node -> SUBSET Keys] /\ E[Nil] = {} /\ E[k] = {k}
      /\ \A x \in Node : E[x] = IF p \in D[x] THEN D[x] \cup {k} ELSE D[x]
  BY <1>1, <1>4, <1>8
<1> HIDE DEF E
<1>10. \A x \in Keys, z \in Sides :
          E[u.kid[z][x]] = IF x = p /\ z = s THEN {k} ELSE E[t.kid[z][x]]
  BY <1>1, <1>6, <1>9
<1>11. ASSUME NEW x \in Keys
       PROVE  E[x] = {x} \cup E[u.kid[s][x]] \cup E[u.kid[o][x]]
  <2>1. /\ D[x] = {x} \cup D[t.kid[s][x]] \cup D[t.kid[o][x]]
        /\ t.kid[s][x] \in Node /\ t.kid[o][x] \in Node /\ x \in Node
        /\ x \notin D[t.kid[o][x]]
    BY <1>1, <1>2, <1>3 DEF o
  <2>2. CASE x = p
    BY <1>1, <1>3, <1>4, <1>9, <1>10, <2>1, <2>2
  <2>3. CASE x # p
    BY <1>3, <1>9, <1>10, <2>1, <2>3
  <2> QED
    BY <2>2, <2>3
<1>12. Subtrees(u, E)
  <2>1. \A x \in Keys : E[x] = {x} \cup E[u.kid["l"][x]] \cup E[u.kid["r"][x]]
    BY <1>3, <1>11 DEF Sides
  <2> QED
    BY <1>9, <2>1 DEF Subtrees
<1>13. Ordered(u, E)
  <2>1. ASSUME NEW x \in Keys, NEW z \in Sides, NEW j \in E[u.kid[z][x]]
        PROVE  Before(z, j, x)
    <3>1. CASE x = p /\ z = s
      BY <1>10, <2>1, <3>1
    <3>2. CASE ~(x = p /\ z = s)
      <4>1. j \in E[t.kid[z][x]] /\ t.kid[z][x] \in Node
        BY <1>2, <1>10, <2>1, <3>2
      <4>2. j \in D[t.kid[z][x]] \/ (p \in D[t.kid[z][x]] /\ j = k)
        BY <1>9, <4>1
      <4> QED
        BY <1>2, <1>4, <4>2
    <3> QED
      BY <3>1, <3>2
  <2> QED
    BY <2>1 DEF Ordered
<1>14. E[u.entry] = S \cup {k}
  BY <1>1, <1>4, <1>6, <1>9
<1>15. Loose(u, S \cup {k})
  BY <1>1, <1>4, <1>6 DEF Loose
<1>16. Agree(u)
  <2>1. ASSUME NEW x \in Keys, NEW z \in Sides, u.kid[z][x] # Nil
        PROVE  u.parent[u.kid[z][x]] = x
    <3>1. CASE x = p /\ z = s
      BY <1>1, <1>4, <1>6, <3>1
    <3>2. CASE ~(x = p /\ z = s)
      <4>1. u.kid[z][x] = t.kid[z][x] /\ t.kid[z][x] \in Keys
        BY <1>1, <1>2, <1>6, <2>1, <3>2, KeyFacts
      <4>2. t.parent[t.kid[z][x]] = x
        BY <1>1, <1>2, <4>1
      <4>3. t.kid[z][x] # k
        BY <1>1, <1>4, <4>2
      <4> QED
        BY <1>1, <1>6, <4>1, <4>2, <4>3
    <3> QED
      BY <3>1, <3>2
  <2>2. ASSUME NEW x \in Keys, u.parent[x] # Nil
        PROVE  \E z \in Sides : u.kid[z][u.parent[x]] = x
    <3>1. CASE x = k
      BY <1>1, <1>4, <1>6, <3>1
    <3>2. CASE x # k
      <4>1. u.parent[x] = t.parent[x] /\ t.parent[x] \in Keys
        BY <1>1, <1>2, <1>6, <2>2, <3>2, KeyFacts
      <4>2. PICK z \in Sides : t.kid[z][t.parent[x]] = x
        BY <1>1, <1>2, <4>1
      <4>3. u.kid[z][t.parent[x]] = x
        BY <1>1, <1>4, <1>6, <4>1, <4>2
      <4> QED
        BY <4>1, <4>3
    <3> QED
      BY <3>1, <3>2
  <2>3. ASSUME NEW x \in Keys, u.kid[s][x] = u.kid[Other(s)][x]
        PROVE  u.kid[s][x] = Nil
    <3>1. CASE x = p
      <4>1. u.kid[s][x] = k /\ u.kid[o][x] = t.kid[o][x]
        BY <1>1, <1>3, <1>6, <3>1
      <4> QED
        BY <1>1, <1>2, <1>3, <1>4, <2>3, <3>1, <4>1 DEF o
    <3>2. CASE x # p
      BY <1>1, <1>2, <1>3, <1>6, <2>3, <3>2 DEF o
    <3> QED
      BY <3>1, <3>2
  <2>4. u.parent[u.entry] = Nil
    BY <1>1, <1>4, <1>5, <1>6
  <2>5. \A x \in Keys : u.kid["l"][x] = u.kid["r"][x] => u.kid["l"][x] = Nil
    BY <2>3, SidesOf
  <2> QED
    BY <2>1, <2>2, <2>4, <2>5 DEF Agree
<1> QED
  BY <1>7, <1>12, <1>13, <1>14, <1>15, <1>16 DEF Sorted, u

\* The loops exchange no subtrees either.
LEMMA LoopsKeepSearch ==
    ASSUME NEW S, Search(tree, S), TypeOK, Loops
    PROVE  Search(tree', S)
<1> DEFINE P == {t \in Trees : Search(t, S)}
<1>1. \A t : t \in P <=> Search(t, S)
  BY DEF Trees, Search, Sorted, IsTree
<1>2. \A t : Search(t, S) => IsTree(t)
  BY DEF Search, Sorted
<1> HIDE DEF P
<1>3. Closed(P)
  BY <1>1, <1>2, PaintedSearch, RotateSearch DEF Closed
<1> QED
  BY <1>1, <1>3, LoopsKeep

-----------------------------------------------------------------------------
(* The color of the root. *)

Top(t) == t.color[t.entry]

\* What a rotation does to colors: a new root is black.
LEMMA RotateColor ==
    ASSUME NEW t, IsTree(t), NEW n \in Node, NEW s \in Sides
    PROVE  LET x == t.kid[s][n]
           IN  \A m \in Node : Rotate(t, n, s).color[m] =
                  IF x # Nil /\ t.parent[n] = Nil /\ m = x THEN "B" ELSE t.color[m]
<1> DEFINE x == t.kid[s][n]
           p == t.parent[n]
           y == t.kid[Other(s)][x]
           u == Seated(t, p, x, SideOf(t, p, n))
           v == Linked(u, n, y, s)
<1>1. CASE x = Nil
  BY <1>1 DEF Rotate
<1>2. CASE x # Nil
  <2>1. n \in Keys /\ x \in Keys /\ p \in Node /\ y \in Node /\ x \in Node /\ Other(s) \in Sides
    BY <1>2, FieldType, KeyFacts, OtherType DEF IsTree
  <2>2. Rotate(t, n, s) = Linked(v, x, n, Other(s))
    BY <1>2 DEF Rotate
  <2> HIDE DEF x, p, y
  <2>3. IsTree(u)
    BY <2>1, SeatedType, SideType
  <2>4. \A m \in Node : u.color[m] = IF p = Nil /\ m = x THEN "B" ELSE t.color[m]
    BY <1>2, <2>1, SeatedColor, SideType
  <2> HIDE DEF u
  <2>5. IsTree(v) /\ v.color = u.color
    <3>1. IsTree(v)
      BY <2>1, <2>3, LinkedType
    <3>2. v.color = u.color
      BY <2>3 DEF Linked, IsTree
    <3> QED
      BY <3>1, <3>2
  <2> HIDE DEF v
  <2>6. Linked(v, x, n, Other(s)).color = v.color
    BY <2>5 DEF Linked, IsTree
  <2> QED
    BY <1>2, <2>2, <2>4, <2>5, <2>6 DEF x, p
<1> QED
  BY <1>1, <1>2

\* A rotation leaves a black root when there was one, or when it gives a new one.
LEMMA RotateTop ==
    ASSUME NEW t, NEW S, Search(t, S), NEW n \in Node, NEW s \in Sides,
           Top(t) = "B" \/ (n = t.entry /\ t.kid[s][n] # Nil)
    PROVE  Top(Rotate(t, n, s)) = "B"
<1> DEFINE u == Rotate(t, n, s)
<1>1. PICK D : Sorted(t, D, S)
  BY DEF Search
<1>2. IsTree(t) /\ Forest(t) /\ t.entry \in Node /\ t.parent[t.entry] = Nil
  BY <1>1, Unfolded, SortedLinks
<1>3. CASE t.kid[s][n] = Nil
  BY <1>3 DEF Rotate
<1>4. CASE t.kid[s][n] # Nil
  <2>1. n \in Keys /\ t.kid[s][n] \in Node
    BY <1>2, <1>4, KeyFacts, FieldType DEF IsTree
  <2>2. u.entry = IF t.parent[n] = Nil THEN t.kid[s][n] ELSE t.entry
    BY <1>2, <1>4, <2>1, RotateFields
  <2>3. \A m \in Node : u.color[m] =
           IF t.kid[s][n] # Nil /\ t.parent[n] = Nil /\ m = t.kid[s][n] THEN "B" ELSE t.color[m]
    BY <1>2, RotateColor
  <2> QED
    BY <1>2, <1>4, <2>1, <2>2, <2>3 DEF Top
<1> QED
  BY <1>3, <1>4

LEMMA PaintedTop ==
    ASSUME NEW t, IsTree(t), NEW n \in Node, NEW color \in Colors
    PROVE  Top(Painted(t, n, color)) = IF n = t.entry /\ n # Nil THEN color ELSE Top(t)
<1>1. t.entry \in Node
  BY DEF IsTree
<1> QED
  BY <1>1, PaintedFields DEF Top

\* What FixInsert starts from: a red parent is below a grandparent.
LEMMA TwoRedsLinks ==
    ASSUME NEW S, Search(tree, S), TypeOK, TwoReds, Top(tree) = "B" \/ c = tree.entry
    PROVE  LET p == tree.parent[c]
               g == tree.parent[p]
           IN  /\ c \in Keys /\ p \in Keys /\ g \in Keys /\ c \in S /\ p \in S /\ g \in S
               /\ c # tree.entry /\ p # tree.entry /\ Top(tree) = "B"
               /\ tree.kid[SideOf(tree, g, p)][g] = p
<1> DEFINE p == tree.parent[c]
           g == tree.parent[p]
<1>1. PICK D : Sorted(tree, D, S)
  BY DEF Search
<1>2. /\ c # Nil /\ tree.color[p] = "R" /\ c \in Keys /\ tree.color[Nil] = "B"
      /\ tree.parent[tree.entry] = Nil
  BY <1>1, KeyFacts, Unfolded DEF TypeOK, TwoReds, IsTree
<1>3. p # Nil /\ c # tree.entry /\ Top(tree) = "B" /\ p # tree.entry
  BY <1>2 DEF Top
<1>4. c \in S /\ p \in S /\ S \in SUBSET Keys
  BY <1>1, <1>2, <1>3, SortedLinks
<1>5. g \in S
  BY <1>1, <1>3, <1>4, SortedLinks
<1>6. g # Nil
  BY <1>4, <1>5, KeyFacts
<1>7. tree.kid[SideOf(tree, g, p)][g] = p
  BY <1>1, <1>4, <1>6, Unfolded DEF SideOf, Sides
<1> QED
  BY <1>2, <1>3, <1>4, <1>5, <1>7

LEMMA FixInsertTop ==
    ASSUME NEW S, Search(tree, S), TypeOK, FixInsert, Top(tree) = "B" \/ c = tree.entry
    PROVE  Top(tree') = "B" \/ c' = tree'.entry
<1> DEFINE p == tree.parent[c]
           g == tree.parent[p]
           s == SideOf(tree, g, p)
           u == tree.kid[Other(s)][g]
           d == IF c = tree.kid[Other(s)][p] THEN p ELSE c
           t == IF d = p THEN Rotate(tree, p, Other(s)) ELSE tree
           v == Painted(Painted(t, t.parent[d], "B"), g, "R")
<1>1. /\ c \in Keys /\ p \in Keys /\ g \in Keys /\ p # tree.entry /\ Top(tree) = "B"
      /\ tree.kid[s][g] = p
  BY TwoRedsLinks DEF FixInsert
<1>2. /\ s \in Sides /\ Other(s) \in Sides /\ IsTree(tree) /\ Forest(tree) /\ Nil \notin Keys
      /\ \A x \in Keys : x \in Node
  BY SideType, OtherType, SortedForest, KeyFacts DEF Search, Forest
<1>3. "R" \in Colors /\ "B" \in Colors /\ u \in Node /\ d \in Keys
  BY <1>1, <1>2, FieldType DEF Colors
<1>4. \/ tree' = Painted(Painted(Painted(tree, p, "B"), u, "B"), g, "R") /\ c' = g
      \/ tree' = Rotate(v, g, s) /\ c' = d
  BY DEF FixInsert
<1>5. CASE tree' = Painted(Painted(Painted(tree, p, "B"), u, "B"), g, "R") /\ c' = g
  <2> HIDE DEF p, g, s, u, d, t
  <2> DEFINE t1 == Painted(tree, p, "B")
             t2 == Painted(t1, u, "B")
  <2>1. IsTree(t1) /\ IsTree(t2) /\ t1.entry = tree.entry /\ t2.entry = tree.entry
        /\ Top(t1) = "B"
    BY <1>1, <1>2, <1>3, PaintedType, PaintedFields, PaintedTop
  <2>2. Top(t2) = "B"
    BY <1>3, <2>1, PaintedTop
  <2> HIDE DEF t1, t2
  <2>3. Painted(t2, g, "R").entry = tree.entry
        /\ Top(Painted(t2, g, "R")) = IF g = tree.entry /\ g # Nil THEN "R" ELSE "B"
    BY <1>1, <1>2, <1>3, <2>1, <2>2, PaintedFields, PaintedTop
  <2> QED
    BY <1>5, <2>3 DEF t1, t2
<1>6. CASE tree' = Rotate(v, g, s)
  <2>1. t.kid[s][g] # Nil
    <3>1. CASE d # p
      BY <1>1, <1>2, <3>1
    <3>2. CASE d = p
      <4>1. c = tree.kid[Other(s)][p]
        <5>1. p # c
          BY <1>1, <1>2, ParentIsOther
        <5> QED
          BY <3>2, <5>1
      <4> HIDE DEF p, s, g
      <4>2. tree.kid[Other(s)][p] # Nil
        BY <1>1, <1>2, <4>1
      <4>3. t = Rotate(tree, p, Other(s))
        BY <3>2
      <4>4. /\ tree.parent[p] # p /\ tree.parent[p] # c
            /\ \A m \in Keys, z \in Sides :
                  t.kid[z][m] = IF m = p /\ z = Other(s)
                                THEN tree.kid[Other(Other(s))][tree.kid[Other(s)][p]]
                                ELSE IF m = c /\ z = Other(Other(s)) THEN p
                                ELSE IF m = tree.parent[p] /\ z = SideOf(tree, tree.parent[p], p)
                                THEN c ELSE tree.kid[z][m]
        BY <1>1, <1>2, <4>1, <4>2, <4>3, RotateFields
      <4>5. t.kid[s][g] = c
        BY <1>1, <1>2, <4>4 DEF s, g
      <4> QED
        BY <1>1, <1>2, <4>5
    <3> QED
      BY <3>1, <3>2
  <2> HIDE DEF p, g, s, u, d
  <2>2. Search(t, S) /\ Top(t) = "B"
    BY <1>1, <1>2, RotateSearch, RotateTop
  <2>3. IsTree(t) /\ t.parent[d] \in Node
    BY <1>2, <1>3, <2>2, FieldType DEF Search, Sorted
  <2> HIDE DEF t
  <2> DEFINE t1 == Painted(t, t.parent[d], "B")
  <2>4. Search(t1, S) /\ Search(v, S) /\ IsTree(t1)
    BY <1>1, <1>2, <1>3, <2>2, <2>3, PaintedSearch, PaintedType
  <2>5. t1.kid = t.kid /\ Top(t1) = "B"
    BY <1>3, <2>2, <2>3, PaintedTop, PaintedFields
  <2>6. v = Painted(t1, g, "R")
    OBVIOUS
  <2> HIDE DEF t1, v
  <2>7. v.kid = t.kid /\ Top(v) = IF g = v.entry THEN "R" ELSE "B"
    BY <1>1, <1>2, <1>3, <2>4, <2>5, <2>6, PaintedTop, PaintedFields
  <2>8. Top(v) = "B" \/ (g = v.entry /\ v.kid[s][g] # Nil)
    BY <2>1, <2>7
  <2>9. Top(Rotate(v, g, s)) = "B"
    BY <1>1, <1>2, <2>4, <2>8, RotateTop
  <2> QED
    BY <1>6, <2>9
<1> QED
  BY <1>4, <1>5, <1>6

LEMMA FixDeleteTop ==
    ASSUME NEW S, Search(tree, S), TypeOK, FixDelete, Top(tree) = "B"
    PROVE  Top(tree') = "B"
<1> DEFINE p == tree.parent[c]
           s == SideOf(tree, p, c)
           o == Other(s)
           b == tree.kid[o][p]
           near == tree.kid[s][b]
           far == tree.kid[o][b]
           t1 == Painted(Painted(tree, near, "B"), b, "R")
           t == IF tree.color[far] = "R" THEN tree ELSE Rotate(t1, b, s)
           q == t.parent[c]
           bb == t.kid[o][q]
           u1 == Painted(t, bb, t.color[q])
           u == Painted(u1, q, "B")
           u2 == Painted(u, t.kid[o][bb], "B")
           v1 == Painted(tree, b, "B")
           v == Painted(v1, p, "R")
<1>1. PICK D : Sorted(tree, D, S)
  BY DEF Search
<1>2. /\ s \in Sides /\ o \in Sides /\ IsTree(tree) /\ Nil \in Node /\ "R" \in Colors /\ "B" \in Colors
      /\ tree.color[Nil] = "B" /\ tree.parent[tree.entry] = Nil /\ c \in Node
      /\ \A x \in Keys : x \in Node /\ x # Nil
  BY <1>1, SideType, OtherType, KeyFacts, Unfolded DEF TypeOK, Colors, IsTree
<1>3. p \in Node
  BY <1>2, FieldType
<1> HIDE DEF p, s, o
<1>4. b \in Node
  BY <1>2, <1>3, FieldType
<1>5. b # Nil => p # Nil /\ p \in Keys /\ tree.parent[b] = p /\ b # tree.entry
  <2>1. b # Nil => p # Nil /\ p \in Keys
    BY <1>2, <1>3, KeyFacts DEF IsTree
  <2>2. b # Nil => tree.parent[b] = p
    BY <1>1, <1>2, <2>1, Unfolded
  <2> QED
    BY <1>2, <2>1, <2>2
<1> HIDE DEF b
<1>6. near \in Node /\ far \in Node
  BY <1>2, <1>4, FieldType
<1>7. \/ tree.color[b] = "R" /\ tree' = Rotate(v, p, o)
      \/ tree' = Painted(tree, b, "R")
      \/ tree' = Rotate(u2, q, o)
  BY DEF FixDelete, b, s, o, p
<1> HIDE DEF near, far
<1>8. CASE tree.color[b] = "R" /\ tree' = Rotate(v, p, o)
  <2>1. b # Nil /\ tree.kid[o][p] = b
    BY <1>2, <1>8 DEF b
  <2>2. IsTree(v1) /\ Search(v1, S) /\ v1.kid = tree.kid /\ Top(v1) = "B"
    BY <1>2, <1>4, <1>5, <2>1, PaintedType, PaintedSearch, PaintedFields, PaintedTop
  <2> HIDE DEF v1
  <2>3. Search(v, S) /\ v.kid = v1.kid /\ Top(v) = IF p = v.entry /\ p # Nil THEN "R" ELSE "B"
    BY <1>2, <1>3, <2>2, PaintedSearch, PaintedFields, PaintedTop
  <2> HIDE DEF v
  <2>4. Top(Rotate(v, p, o)) = "B"
    BY <1>2, <1>3, <2>1, <2>2, <2>3, RotateTop
  <2> QED
    BY <1>8, <2>4
<1>9. CASE tree' = Painted(tree, b, "R")
  BY <1>2, <1>4, <1>5, <1>9, PaintedTop
<1>10. CASE tree' = Rotate(u2, q, o)
  <2>1. Search(t, S) /\ Top(t) = "B"
    <3> DEFINE t0 == Painted(tree, near, "B")
    <3>1. IsTree(t0) /\ Search(t0, S) /\ t0.entry = tree.entry /\ Top(t0) = "B"
      BY <1>2, <1>6, PaintedType, PaintedSearch, PaintedFields, PaintedTop
    <3>2. t1 = Painted(t0, b, "R")
      OBVIOUS
    <3> HIDE DEF t0, t1
    <3>3. Search(t1, S) /\ Top(t1) = "B"
      BY <1>2, <1>4, <1>5, <3>1, <3>2, PaintedSearch, PaintedTop
    <3> QED
      BY <1>2, <1>4, <3>3, RotateSearch, RotateTop
  <2> HIDE DEF t
  <2>2. PICK E : Sorted(t, E, S)
    BY <2>1 DEF Search
  <2>3. IsTree(t) /\ q \in Node /\ t.color[q] \in Colors /\ t.parent[t.entry] = Nil
    BY <1>2, <2>2, Unfolded, FieldType
  <2> HIDE DEF q
  <2>4. bb \in Node /\ t.kid[o][bb] \in Node
    BY <1>2, <2>3, FieldType
  <2>5. bb # Nil => bb # t.entry
    <3>1. bb # Nil => q \in Keys
      BY <1>2, <2>3, KeyFacts DEF IsTree
    <3>2. bb # Nil => t.parent[bb] = q
      BY <1>2, <2>2, <3>1, Unfolded
    <3> QED
      BY <1>2, <2>3, <3>1, <3>2
  <2> HIDE DEF bb
  <2>6. IsTree(u1) /\ Search(u1, S) /\ Top(u1) = "B"
    BY <1>2, <2>1, <2>3, <2>4, <2>5, PaintedType, PaintedSearch, PaintedTop
  <2> HIDE DEF u1
  <2>7. IsTree(u) /\ Search(u, S) /\ Top(u) = "B"
    BY <1>2, <2>3, <2>6, PaintedType, PaintedSearch, PaintedTop
  <2> HIDE DEF u
  <2>8. Search(u2, S) /\ Top(u2) = "B"
    BY <1>2, <2>4, <2>7, PaintedSearch, PaintedTop
  <2> HIDE DEF u2
  <2>9. Top(Rotate(u2, q, o)) = "B"
    BY <1>2, <2>3, <2>8, RotateTop
  <2> QED
    BY <1>10, <2>9
<1> QED
  BY <1>7, <1>8, <1>9, <1>10

LEMMA BlankSearch ==
    /\ Search(Blank, {}) /\ Top(Blank) = "B"
    /\ \A k \in Keys : LET u == [Blank EXCEPT !.entry = k, !.color[k] = "B"]
                       IN  Search(u, {k}) /\ Top(u) = "B"
<1> DEFINE D == [n \in Node |-> {n} \ {Nil}]
<1>1. /\ D \in [Node -> SUBSET Keys] /\ D[Nil] = {} /\ \A n \in Keys : D[n] = {n}
      /\ \A n \in Keys : n \in Node /\ n # Nil /\ Nil \in Node
  BY KeyFacts
<1>2. /\ Blank.entry = Nil /\ Blank.color[Nil] = "B" /\ IsTree(Blank)
      /\ \A n \in Node : Blank.parent[n] = Nil /\ \A s \in Sides : Blank.kid[s][n] = Nil
  <2>1. /\ Blank.entry = Nil /\ Blank.parent = [n \in Node |-> Nil]
        /\ Blank.kid = [s \in Sides |-> [n \in Node |-> Nil]]
        /\ Blank.color = [n \in Node |-> IF n = Nil THEN "B" ELSE "R"]
    BY DEF Blank
  <2>2. \A n \in Node : Blank.parent[n] = Nil
    BY <2>1
  <2>3. \A n \in Node, s \in Sides : Blank.kid[s][n] = Nil
    BY <2>1
  <2>4. Blank.color[Nil] = "B"
    BY DEF Blank, Node
  <2> QED
    BY <2>1, <2>2, <2>3, <2>4, BlankType
<1> HIDE DEF D
<1>3. ASSUME NEW u, IsTree(u), u.kid = Blank.kid, u.parent = Blank.parent
      PROVE  Sorted(u, D, D[u.entry])
  <2>1. \A n \in Node : u.parent[n] = Nil /\ \A s \in Sides : u.kid[s][n] = Nil
    BY <1>2, <1>3
  <2>2. "l" \in Sides /\ "r" \in Sides /\ u.entry \in Node
    BY <1>3 DEF Sides, IsTree
  <2> QED
    BY <1>1, <1>3, <2>1, <2>2 DEF Sorted, Agree, Subtrees, Ordered, Loose
<1>4. Search(Blank, {}) /\ Top(Blank) = "B"
  BY <1>1, <1>2, <1>3 DEF Search, Top
<1>5. ASSUME NEW k \in Keys
      PROVE  LET u == [Blank EXCEPT !.entry = k, !.color[k] = "B"]
             IN  Search(u, {k}) /\ Top(u) = "B"
  <2> DEFINE u == [Blank EXCEPT !.entry = k, !.color[k] = "B"]
  <2>1. u = [Blank EXCEPT !.entry = k, !.color = [Blank.color EXCEPT ![k] = "B"]]
    BY <1>2 DEF IsTree
  <2>2. /\ u.kid = Blank.kid /\ u.parent = Blank.parent /\ u.entry = k
        /\ u.color = [Blank.color EXCEPT ![k] = "B"]
    BY <1>2, <2>1 DEF IsTree
  <2>3. IsTree(u)
    BY <1>1, <1>2, <2>1 DEF IsTree, Colors
  <2> HIDE DEF u
  <2>4. u.color[k] = "B"
    BY <1>1, <1>2, <2>2 DEF IsTree
  <2>5. Search(u, {k}) /\ Top(u) = "B"
    <3>1. D[u.entry] = {k}
      BY <1>1, <2>2
    <3>2. Sorted(u, D, D[u.entry])
      BY <1>3, <2>2, <2>3
    <3>3. Sorted(u, D, {k})
      BY <3>1, <3>2
    <3> QED
      BY <2>2, <2>4, <3>3 DEF Search, Top
  <2> QED
    BY <2>5 DEF u
<1> QED
  BY <1>4, <1>5

LEMMA InsertSearch ==
    ASSUME NEW S, Search(tree, S), TypeOK, NEW k \in Keys, Insert(k), Top(tree) = "B"
    PROVE  Search(tree', S \cup {k}) /\ Top(tree') = "B"
<1>1. PICK D : Sorted(tree, D, S)
  BY DEF Search
<1>2. IsTree(tree)
  BY DEF TypeOK
<1>3. CASE tree.entry = Nil /\ tree' = [Blank EXCEPT !.entry = k, !.color[k] = "B"]
  <2>1. S = {}
    BY <1>1, <1>3, Unfolded
  <2> QED
    BY <1>3, <2>1, BlankSearch
<1>4. CASE Find(tree, k) = k /\ tree' = tree
  <2>1. k \in S
    BY <1>1, <1>4, FindFacts
  <2>2. S \cup {k} = S
    BY <2>1
  <2> QED
    BY <1>4, <2>2
<1>5. CASE /\ tree.entry # Nil /\ Find(tree, k) = Nil
           /\ \E p \in Keys : /\ p = LastOn(tree, k)
                              /\ tree' = Linked(tree, p, k, IF k < p THEN "l" ELSE "r")
  <2>1. PICK p \in Keys : p = LastOn(tree, k) /\ tree' = Linked(tree, p, k, Toward(k, p))
    BY <1>5 DEF Toward
  <2>2. k \in Keys \ S /\ p \in Places(tree, D, S, k) /\ Down(tree, k, p) = Nil
    BY <1>1, <1>5, <2>1, FindFacts, LastFacts
  <2>3. p # k
    BY <2>2 DEF Places
  <2>4. /\ Toward(k, p) \in Sides /\ Before(Toward(k, p), k, p)
        /\ tree.kid[Toward(k, p)][p] = Nil
    BY <1>1, <2>2, <2>3, DownFacts
  <2>5. Search(tree', S \cup {k})
    BY <1>1, <2>1, <2>2, <2>4, LinkedSorted DEF Search
  <2>6. tree'.entry = tree.entry /\ tree'.color = tree.color
    BY <1>2, <2>1 DEF Linked, IsTree
  <2> QED
    BY <2>5, <2>6 DEF Top
<1> QED
  BY <1>3, <1>4, <1>5 DEF Insert

\* The only node of a tree is not taken out of it.
LEMMA LastNodeStays ==
    ASSUME NEW t, NEW D, NEW S, Sorted(t, D, S), NEW k \in S,
           t.parent[k] = Nil, \A s \in Sides : t.kid[s][k] = Nil
    PROVE  /\ Search(Replace(t, k, Nil), S) /\ S = {k}
           /\ Replace(t, k, Nil).entry = k /\ Top(Replace(t, k, Nil)) = Top(t)
<1> DEFINE u == Replace(t, k, Nil)
<1>1. /\ IsTree(t) /\ k \in Keys /\ Nil \in Node /\ D[Nil] = {} /\ k \in Node
      /\ t.entry = k /\ D[t.entry] = S
      /\ D[k] = {k} \cup D[t.kid["l"][k]] \cup D[t.kid["r"][k]]
      /\ "l" \in Sides /\ "r" \in Sides
      /\ \A x \in Keys : x \in Node
  BY Unfolded, SortedLinks, KeyFacts DEF Sides, Other
<1>2. S = {k}
  BY <1>1
<1>3. u = Bare(t, k)
  <2>1. t.kid["l"][k] = Nil /\ t.kid["r"][k] = Nil /\ t.parent[k] = Nil
    BY <1>1
  <2> DEFINE b == Bare(t, k)
  <2>2. Inherited(b, Nil, Nil, "r") = b /\ Inherited(b, Nil, Nil, "l") = b
    BY DEF Inherited
  <2>3. Seated(b, Nil, Nil, SideOf(t, Nil, k)) = b
    BY DEF Seated
  <2> HIDE DEF b
  <2> QED
    BY <2>1, <2>2, <2>3 DEF Replace, b
<1>4. /\ u.entry = t.entry /\ u.color = t.color /\ IsTree(u)
      /\ \A m \in Node : u.parent[m] = t.parent[m]
      /\ \A m \in Node, z \in Sides : u.kid[z][m] = t.kid[z][m]
  BY <1>1, <1>3, BareWrites, BareType
<1> HIDE DEF u
<1>5. Agree(u)
  <2>1. \A n \in Keys, s \in Sides : t.kid[s][n] \in Node /\ t.parent[n] \in Node
    BY <1>1, FieldType
  <2> QED
    BY <1>1, <1>4, <2>1 DEF Sorted, Agree
<1>6. Subtrees(u, D)
  BY <1>1, <1>4 DEF Sorted, Subtrees
<1>7. Ordered(u, D)
  BY <1>1, <1>4 DEF Sorted, Ordered
<1>8. Loose(u, S)
  BY <1>1, <1>4 DEF Sorted, Loose
<1>9. Search(u, S)
  BY <1>1, <1>4, <1>5, <1>6, <1>7, <1>8 DEF Search, Sorted
<1> QED
  BY <1>1, <1>2, <1>4, <1>9 DEF u, Top

\* What is left when k has been taken out is not k's.
LEMMA RootIsLeft ==
    ASSUME NEW u, NEW S, NEW k \in Keys, Search(u, S \ {k})
    PROVE  u.entry # k
  BY Unfolded DEF Search

\* k has one child at most.
LEMMA CutSearch ==
    ASSUME NEW t, NEW D, NEW S, Sorted(t, D, S), NEW k \in S, NEW z \in Sides,
           t.kid[Other(z)][k] = Nil, t.parent[k] # Nil \/ t.kid[z][k] # Nil, Top(t) = "B"
    PROVE  LET u == Replace(t, k, t.kid[z][k])
           IN  Search(u, S \ {k}) /\ Top(u) = "B"
<1> DEFINE m == t.kid[z][k]
           u == Replace(t, k, m)
<1>1. /\ Forest(t) /\ k \in Keys /\ m \in Node /\ t.entry \in Node
  BY Unfolded, SortedLinks
<1>2. Search(u, S \ {k})
  BY CutSorted DEF Search, CutTo
<1>3. /\ u.entry = IF t.parent[k] = Nil THEN m ELSE t.entry
      /\ \A x \in Node : u.color[x] = IF t.parent[k] = Nil /\ x = m THEN "B" ELSE t.color[x]
  BY <1>1, CutFields
<1> HIDE DEF m, u
<1>4. Top(u) = "B"
  BY <1>1, <1>3 DEF Top
<1> QED
  BY <1>2, <1>4 DEF u, m

\* k has two children, and the least key above it takes its place.
LEMMA SwapSearch ==
    ASSUME NEW t, NEW D, NEW S, Sorted(t, D, S), NEW k \in S, NEW color \in Colors,
           t.kid["l"][k] # Nil, t.kid["r"][k] # Nil, Top(t) = "B"
    PROVE  LET m == LTop(t, t.kid["r"][k])
               v == Painted(Replace(t, m, t.kid["r"][m]), m, color)
               u == Replace(v, k, m)
           IN  m \in Keys /\ Search(u, S \ {k}) /\ Top(u) = "B"
<1> DEFINE r == t.kid["r"][k]
           m == LTop(t, r)
           w == Replace(t, m, t.kid["r"][m])
           v == Painted(w, m, color)
           u == Replace(v, k, m)
<1>1. /\ Forest(t) /\ IsTree(t) /\ k \in Keys /\ S \in SUBSET Keys /\ "l" \in Sides /\ "r" \in Sides
      /\ Other("r") = "l" /\ t.parent[t.entry] = Nil /\ t.entry \in Node /\ D \in [Node -> SUBSET Keys]
      /\ \A x \in Keys : x \in Node /\ x # Nil /\ x \in Int
      /\ Nil \in Node /\ r \in S /\ Agree(t) /\ Subtrees(t, D) /\ Ordered(t, D)
      /\ t.parent[r] = k
  BY Unfolded, SortedLinks, KeyFacts DEF Sides, Other, Sorted
<1> HIDE DEF r
<1>2. m \in D[r] /\ t.kid["l"][m] = Nil /\ \A j \in D[r] \ {m} : m < j
  BY <1>1, LTopFacts
<1> HIDE DEF m
<1>3. /\ D[k] = {k} \cup D[t.kid["l"][k]] \cup D[r]
      /\ (\A j \in D[t.kid["l"][k]] : j < k) /\ (\A j \in D[r] : k < j)
      /\ k \notin D[r]
  BY <1>1, Unfolded DEF r, Before
<1>4. m \in S /\ m \in Keys /\ m # k
  <2>1. D[r] \subseteq S
    BY <1>1, SortedLinks
  <2> QED
    BY <1>1, <1>2, <1>3, <2>1
<1>5. t.parent[m] # Nil
  <2>1. m # r => t.parent[m] \in D[r]
    BY <1>1, <1>2, ParentBelow
  <2>2. D[r] \in SUBSET Keys
    BY <1>1
  <2> QED
    BY <1>1, <2>1, <2>2
<1>6. PICK E : /\ Sorted(w, E, S \ {m})
               /\ \A x \in Keys \ {m}, s \in Sides : E[w.kid[s][x]] = D[t.kid[s][x]] \ {m}
  <2>1. t.kid[Other("r")][m] = Nil /\ "r" \in Sides
    BY <1>1, <1>2
  <2> HIDE DEF w
  <2>2. PICK E : CutTo(t, Replace(t, m, t.kid["r"][m]), D, E, S, m)
    BY <1>4, <1>5, <2>1, CutSorted
  <2> QED
    BY <2>2 DEF w, CutTo
<1>7. /\ w.entry = t.entry
      /\ \A x \in Node : w.color[x] = t.color[x]
  BY <1>1, <1>2, <1>4, <1>5, CutFields
<1> HIDE DEF w
<1>8. IsTree(w) /\ m # w.entry
  BY <1>1, <1>5, <1>6, <1>7 DEF Sorted
<1>9. Sorted(v, E, S \ {m}) /\ v.kid = w.kid /\ Top(v) = "B" /\ v.entry = t.entry
  <2>1. Top(w) = "B"
    BY <1>1, <1>7 DEF Top
  <2> QED
    BY <1>1, <1>4, <1>6, <1>7, <1>8, <2>1, PaintedSorted, PaintedFields, PaintedTop
<1> HIDE DEF v
<1>10. ASSUME NEW z \in Sides, NEW j \in E[v.kid[z][k]]
       PROVE  Before(z, j, m)
  <2>1. j \in D[t.kid[z][k]] \ {m}
    BY <1>1, <1>4, <1>6, <1>9, <1>10
  <2>2. CASE z = "l"
    <3>1. j < k /\ k < m /\ j \in Int
      <4>1. t.kid["l"][k] \in Node
        BY <1>1, Unfolded
      <4> QED
        BY <1>1, <1>2, <1>3, <2>1, <2>2, <4>1
    <3> QED
      BY <1>1, <1>4, <2>2, <3>1 DEF Before
  <2>3. CASE z = "r"
    BY <1>2, <2>1, <2>3 DEF Before, r
  <2> QED
    BY <2>2, <2>3 DEF Sides
<1>11. ASSUME NEW x \in Keys, NEW z \in Sides, k \in E[v.kid[z][x]]
       PROVE  Before(z, m, x)
  <2>1. CASE x = m
    <3>1. v.kid[z][m] = Nil /\ E[Nil] = {}
      BY <1>4, <1>9 DEF Sorted, Loose, Subtrees
    <3> QED
      BY <1>11, <2>1, <3>1
  <2>2. CASE x # m
    <3>1. k \in D[t.kid[z][x]] /\ t.kid[z][x] \in Node
      <4>1. E[v.kid[z][x]] = D[t.kid[z][x]] \ {m}
        BY <1>6, <1>9, <2>2
      <4> QED
        BY <1>1, <1>11, <4>1, FieldType
    <3>2. D[k] \subseteq D[t.kid[z][x]]
      BY <1>1, <3>1, BelowBelow
    <3> QED
      BY <1>1, <1>2, <1>3, <3>2 DEF Ordered
  <2> QED
    BY <2>1, <2>2
<1>12. k \in S \ {m} /\ m \in Keys \ (S \ {m})
  BY <1>4
<1>13. Search(u, S \ {k})
  <2>1. \E E2 : Sorted(u, E2, ((S \ {m}) \ {k}) \cup {m})
    BY <1>9, <1>10, <1>11, <1>12, SwapSorted
  <2>2. ((S \ {m}) \ {k}) \cup {m} = S \ {k}
    BY <1>4
  <2> QED
    BY <2>1, <2>2 DEF Search
<1>14. Top(u) = "B"
  <2>1. v.parent[m] = Nil /\ \A s \in Sides : v.kid[s][m] = Nil
    BY <1>4, <1>9 DEF Sorted, Loose
  <2>2. Forest(v) /\ v.entry \in Node
    BY <1>1, <1>9, SortedForest
  <2>3. m # v.parent[k]
    BY <1>4, <1>9, SortedLinks, KeyFacts
  <2>4. /\ u.entry = IF v.parent[k] = Nil THEN m ELSE v.entry
        /\ \A x \in Node : u.color[x] = IF v.parent[k] = Nil /\ x = m THEN "B" ELSE v.color[x]
    BY <1>1, <1>4, <2>1, <2>2, <2>3, SwapFields
  <2> HIDE DEF u
  <2> QED
    BY <1>1, <1>4, <1>9, <2>2, <2>4 DEF Top
<1> QED
  BY <1>4, <1>13, <1>14 DEF u, v, w, m, r

LEMMA DeleteSearch ==
    ASSUME Search(tree, members \cup kept), TypeOK, NEW k \in Keys, Delete(k), Top(tree) = "B"
    PROVE  Search(tree', (members \cup kept)') /\ Top(tree') = "B"
<1> DEFINE S == members \cup kept
           l == tree.kid["l"][k]
           r == tree.kid["r"][k]
           both == l # Nil /\ r # Nil
<1>1. PICK nc \in Node :
        LET t    == IF both THEN Painted(Replace(tree, nc, tree.kid["r"][nc]), nc, tree.color[k])
                    ELSE tree
            done == Replace(t, k, nc)
        IN  /\ Find(tree, k) = k
            /\ nc = IF both THEN LTop(tree, r) ELSE IF l = Nil THEN r ELSE l
            /\ tree' = IF done.entry = k THEN done ELSE Painted(done, k, "R")
            /\ members' = members \ {k}
            /\ kept' = IF done.entry = k THEN {k} ELSE kept \ {k}
  BY DEF Delete
<1> DEFINE t == IF both THEN Painted(Replace(tree, nc, tree.kid["r"][nc]), nc, tree.color[k])
                ELSE tree
           done == Replace(t, k, nc)
<1>2. PICK D : Sorted(tree, D, S)
  BY DEF Search
<1>3. k \in S /\ k \in Node /\ IsTree(tree) /\ tree.color[k] \in Colors /\ "R" \in Colors
  BY <1>1, <1>2, FindFacts, KeyFacts, FieldType DEF TypeOK, Colors
<1>4. \/ Search(done, S \ {k}) /\ Top(done) = "B"
      \/ Search(done, S) /\ Top(done) = "B" /\ done.entry = k /\ S = {k}
  <2>1. CASE both
    BY <1>1, <1>2, <1>3, <2>1, SwapSearch
  <2>2. CASE ~both
    <3>1. t = tree /\ nc = IF l = Nil THEN r ELSE l
      BY <1>1, <2>2
    <3>2. CASE tree.parent[k] = Nil /\ l = Nil /\ r = Nil
      <4>1. nc = Nil /\ \A s \in Sides : tree.kid[s][k] = Nil
        BY <3>1, <3>2 DEF Sides
      <4> QED
        BY <1>2, <1>3, <3>1, <3>2, <4>1, LastNodeStays
    <3>3. CASE tree.parent[k] # Nil \/ nc # Nil
      <4>1. PICK z \in Sides : nc = tree.kid[z][k] /\ tree.kid[Other(z)][k] = Nil
        BY <2>2, <3>1 DEF Sides, Other
      <4>2. done = Replace(tree, k, tree.kid[z][k])
        BY <3>1, <4>1
      <4> HIDE DEF done
      <4> QED
        BY <1>2, <1>3, <3>3, <4>1, <4>2, CutSearch
    <3> QED
      BY <3>1, <3>2, <3>3
  <2> QED
    BY <2>1, <2>2
<1>5. /\ tree' = IF done.entry = k THEN done ELSE Painted(done, k, "R")
      /\ members' = members \ {k}
      /\ kept' = IF done.entry = k THEN {k} ELSE kept \ {k}
  BY <1>1
<1> HIDE DEF t, done
<1>6. CASE Search(done, S \ {k}) /\ Top(done) = "B"
  <2>1. done.entry # k
    BY <1>6, RootIsLeft
  <2>2. IsTree(done)
    BY <1>6 DEF Search, Sorted
  <2>3. (members \cup kept)' = S \ {k}
    BY <1>5, <2>1
  <2>4. Search(Painted(done, k, "R"), S \ {k}) /\ Top(Painted(done, k, "R")) = "B"
    BY <1>3, <1>6, <2>1, <2>2, PaintedSearch, PaintedTop
  <2> QED
    BY <1>5, <2>1, <2>3, <2>4
<1>7. CASE Search(done, S) /\ Top(done) = "B" /\ done.entry = k /\ S = {k}
  <2>1. (members \cup kept)' = S
    BY <1>5, <1>7
  <2> QED
    BY <1>5, <1>7, <2>1
<1> QED
  BY <1>4, <1>6, <1>7

\* What holds between any two steps, within the loops as well as between two calls.
SearchInv == /\ TypeOK
             /\ Search(tree, members \cup kept)
             /\ Top(tree) = "B" \/ (pc = "insert" /\ c = tree.entry)

THEOREM SearchInvariant == Spec => []SearchInv
<1>1. Init => SearchInv
  <2>1. Init => TypeOK
    BY BlankType DEF Init, TypeOK, Node
  <2> QED
    BY <2>1, BlankSearch DEF Init, SearchInv
<1>2. SearchInv /\ [Next]_vars => SearchInv'
  <2> SUFFICES ASSUME SearchInv, [Next]_vars PROVE SearchInv'
    OBVIOUS
  <2>1. TypeOK'
    BY TypeStep DEF SearchInv
  <2> DEFINE S == members \cup kept
  <2>2. Search(tree, S) /\ TypeOK /\ (pc # "insert" => Top(tree) = "B")
    BY DEF SearchInv
  <2>3. ASSUME NEW k \in Keys, Insert(k)
        PROVE  Search(tree', (members \cup kept)') /\ Top(tree') = "B"
    <3>1. pc = "idle" /\ (members \cup kept)' = S \cup {k}
      BY <2>3 DEF Insert
    <3>2. PICK T : T = S
      OBVIOUS
    <3>3. Search(tree', T \cup {k}) /\ Top(tree') = "B"
      BY <2>2, <2>3, <3>1, <3>2, InsertSearch
    <3> QED
      BY <3>1, <3>2, <3>3
  <2>4. ASSUME NEW k \in Keys, Delete(k)
        PROVE  Search(tree', (members \cup kept)') /\ Top(tree') = "B"
    BY <2>2, <2>4, DeleteSearch DEF Delete
  <2>5. ASSUME Loops
        PROVE  Search(tree', (members \cup kept)')
    <3>1. (members \cup kept)' = S
      BY <2>5 DEF Loops, FixInsert, InsertEnd, FixDelete, DeleteEnd
    <3>2. PICK T : T = S
      OBVIOUS
    <3>3. Search(tree', T)
      BY <2>2, <2>5, <3>2, LoopsKeepSearch
    <3> QED
      BY <3>1, <3>2, <3>3
  <2>6. PICK T : T = S
    OBVIOUS
  <2>7. CASE FixInsert
    <3>1. Top(tree) = "B" \/ c = tree.entry
      BY DEF SearchInv
    <3>2. Top(tree') = "B" \/ c' = tree'.entry
      BY <2>2, <2>6, <2>7, <3>1, FixInsertTop
    <3>3. pc' = "insert"
      BY <2>7 DEF FixInsert
    <3> QED
      BY <2>1, <2>5, <2>7, <3>2, <3>3 DEF SearchInv, Loops
  <2>8. CASE FixDelete
    <3>1. Top(tree') = "B"
      BY <2>2, <2>6, <2>8, FixDeleteTop DEF FixDelete
    <3> QED
      BY <2>1, <2>5, <2>8, <3>1 DEF SearchInv, Loops
  <2>9. CASE InsertEnd
    <3>1. IsTree(tree) /\ tree.entry \in Node /\ "B" \in Colors /\ tree.color[Nil] = "B"
      BY <2>2 DEF TypeOK, IsTree, Colors
    <3>2. Top(tree') = "B"
      BY <2>9, <3>1, PaintedTop DEF InsertEnd, Top
    <3> QED
      BY <2>1, <2>5, <2>9, <3>2 DEF SearchInv, Loops
  <2>10. CASE DeleteEnd
    <3>1. IsTree(tree) /\ c \in Node /\ "B" \in Colors
      BY <2>2 DEF TypeOK, Colors
    <3>2. Top(tree') = "B"
      BY <2>2, <2>10, <3>1, PaintedTop DEF DeleteEnd
    <3> QED
      BY <2>1, <2>5, <2>10, <3>2 DEF SearchInv, Loops
  <2>11. CASE Clear
    BY <2>1, <2>11, BlankSearch DEF Clear, SearchInv
  <2>12. CASE UNCHANGED vars
    BY <2>12 DEF vars, SearchInv, TypeOK
  <2> QED
    BY <2>1, <2>3, <2>4, <2>7, <2>8, <2>9, <2>10, <2>11, <2>12 DEF Next, Loops, SearchInv
<1> QED
  BY <1>1, <1>2, PTL DEF Spec

\* Left, right and parent of every two nodes agree at each turn of each loop, and the
\* loop of Insert never meets a red root, whose parent it would rotate: what LRotate,
\* RRotate and Replace (RBTree.lua) rely on without a check.
THEOREM LinksAlwaysAgree == Spec => []LinksAgree
<1>1. SearchInv => LinksAgree
  <2> SUFFICES ASSUME SearchInv PROVE LinksAgree
    OBVIOUS
  <2>1. Agree(tree)
    BY DEF SearchInv, Search, Sorted
  <2>2. ASSUME TwoReds PROVE tree.parent[c] # tree.entry
    <3>1. PICK T : T = members \cup kept
      OBVIOUS
    <3>2. Search(tree, T) /\ TypeOK /\ (Top(tree) = "B" \/ c = tree.entry)
      BY <3>1 DEF SearchInv
    <3> QED
      BY <2>2, <3>2, TwoRedsLinks
  <2> QED
    BY <2>1, <2>2 DEF LinksAgree
<1> QED
  BY <1>1, SearchInvariant, PTL

\* Between two calls the tree holds the keys inserted and not deleted (but for the
\* last one, which Delete leaves in), each where a search for it looks: no rotation
\* or replacement loses or exchanges a subtree.
THEOREM ContentsAreKept == Spec => []Contents
<1>1. SearchInv => Contents
  <2> SUFFICES ASSUME SearchInv PROVE Contents
    OBVIOUS
  <2>1. PICK T : T = members \cup kept
    OBVIOUS
  <2>2. PICK D : Sorted(tree, D, T)
    BY <2>1 DEF SearchInv, Search
  <2>3. /\ IsTree(tree) /\ D[tree.entry] = T /\ T \in SUBSET Keys /\ tree.entry \in Node
        /\ \A n \in Keys : n \in Node /\ n \in Int
    BY <2>2, Unfolded, SortedLinks, KeyFacts
  <2>4. \A n \in Node : Below(n) = D[n]
    BY <2>2, BelowFacts
  <2>5. ASSUME NEW n \in T
        PROVE  /\ \A m \in Below(tree.kid["l"][n]) : m < n
               /\ \A m \in Below(tree.kid["r"][n]) : m > n
    <3>1. n \in Keys /\ "l" \in Sides /\ "r" \in Sides
      BY <2>3 DEF Sides
    <3>2. /\ tree.kid["l"][n] \in Node /\ tree.kid["r"][n] \in Node
          /\ \A m \in D[tree.kid["l"][n]] : Before("l", m, n)
          /\ \A m \in D[tree.kid["r"][n]] : Before("r", m, n)
          /\ D \in [Node -> SUBSET Keys]
      BY <2>2, <3>1, Unfolded
    <3>3. /\ \A m \in D[tree.kid["l"][n]] : m < n
          /\ \A m \in D[tree.kid["r"][n]] : n < m /\ m \in Int
      BY <2>3, <3>2 DEF Before
    <3> QED
      BY <2>3, <2>4, <3>1, <3>2, <3>3
  <2> QED
    BY <2>1, <2>3, <2>4, <2>5 DEF Contents
<1> QED
  BY <1>1, SearchInvariant, PTL

-----------------------------------------------------------------------------
(* Balance, as long as nothing was deleted. *)

Weight(t, n) == IF t.color[n] = "B" THEN 1 ELSE 0

\* H[n] blacks are counted on each way from n down to Nil, n itself included.
Even(t, H) == /\ H \in [Node -> Nat] /\ H[Nil] = 0
              /\ \A n \in Keys, s \in Sides : H[n] = H[t.kid[s][n]] + Weight(t, n)

\* No red node but x has a red parent, and x is red.
OneRed(t, x) == /\ \A n \in Keys \ {x} : t.color[n] = "R" => t.color[t.parent[n]] = "B"
                /\ x # Nil => t.color[x] = "R"

\* Nodes outside of the tree have the color of new ones.
Fresh(t, S) == \A n \in Keys \ S : t.color[n] = "R"

Balanced(t, S, x) == /\ \E D : Sorted(t, D, S)
                     /\ \E H : Even(t, H)
                     /\ OneRed(t, x) /\ Fresh(t, S)

\* x, which is red, comes up and its red parent n goes down.
LEMMA RotateReds ==
    ASSUME NEW t, NEW S, NEW x \in Keys, Balanced(t, S, x), NEW s \in Sides,
           t.kid[s][t.parent[x]] = x, t.color[t.parent[x]] = "R",
           t.parent[t.parent[x]] # Nil
    PROVE  Balanced(Rotate(t, t.parent[x], s), S, t.parent[x])
<1> DEFINE n == t.parent[x]
           p == t.parent[n]
           o == Other(s)
           y == t.kid[o][x]
           f == SideOf(t, p, n)
           u == Rotate(t, n, s)
<1>1. PICK D : Sorted(t, D, S)
  BY DEF Balanced
<1>2. PICK H : Even(t, H)
  BY DEF Balanced
<1>3. /\ IsTree(t) /\ Forest(t) /\ x \in Node /\ x # Nil /\ Nil \in Node /\ Nil \notin Keys
      /\ t.color[Nil] = "B" /\ OneRed(t, x) /\ Fresh(t, S)
  BY <1>1, SortedForest, KeyFacts DEF Forest, IsTree, Balanced
<1>4. n \in Keys /\ n # x /\ p \in Keys
  <2>1. n # Nil /\ n \in Node
    BY <1>3, FieldType
  <2>2. n \in Keys
    BY <2>1, KeyFacts
  <2>3. p \in Node
    BY <1>3, <2>1, FieldType
  <2> QED
    BY <1>3, <2>2, <2>3, ParentIsOther, KeyFacts
<1>5. t.kid[s][n] = x
  OBVIOUS
<1> HIDE DEF n
<1>6. /\ y \in Node /\ o \in Sides /\ f \in Sides
      /\ (y # Nil => t.parent[y] = x)
      /\ t.kid[f][p] = n
      /\ p # n /\ p # x /\ y # x /\ y # n /\ y # p
      /\ \A m \in Keys : u.parent[m] = IF m = x THEN p ELSE IF m = n THEN x
                                       ELSE IF m = y THEN n ELSE t.parent[m]
      /\ \A m \in Keys, z \in Sides :
            u.kid[z][m] = IF m = n /\ z = s THEN y ELSE IF m = x /\ z = o THEN n
                          ELSE IF m = p /\ z = f THEN x ELSE t.kid[z][m]
  BY <1>3, <1>4, <1>5, RotateFields
<1>7. \A m \in Node : u.color[m] = t.color[m]
  BY <1>3, <1>4, RotateColor, KeyFacts
<1>8. t.color[n] = "R" /\ t.color[x] = "R" /\ t.color[p] = "B" /\ t.color[y] = "B"
  <2>1. t.color[n] = "R" /\ t.color[x] = "R"
    BY <1>3 DEF OneRed, n
  <2>2. t.color[p] = "B"
    BY <1>3, <1>4, <2>1 DEF OneRed
  <2>3. t.color[y] = "B"
    <3>1. t.color[y] \in Colors
      BY <1>3, <1>6, FieldType
    <3> QED
      BY <1>3, <1>6, <2>1, <3>1, KeyFacts DEF OneRed, Colors
  <2> QED
    BY <2>1, <2>2, <2>3
<1> HIDE DEF p, o, y, f, u
<1>9. \E E : Sorted(u, E, S)
  BY <1>1, <1>3, <1>4, <1>5, RotateSorted DEF u
<1>10. Even(u, H)
  <2>1. /\ H \in [Node -> Nat] /\ H[Nil] = 0
        /\ \A m \in Keys, z \in Sides : H[m] = H[t.kid[z][m]] + Weight(t, m)
    BY <1>2 DEF Even
  <2>2. \A m \in Keys : Weight(u, m) = Weight(t, m)
    BY <1>7, KeyFacts DEF Weight
  <2>3. H[n] = H[x] /\ H[y] = H[x]
    <3>1. H[n] = H[x] + 0 /\ H[x] = H[y] + 0
      BY <1>4, <1>5, <1>6, <1>8, <2>1 DEF Weight, y
    <3>2. H[x] \in Nat /\ H[y] \in Nat
      BY <1>3, <1>6, <2>1
    <3> QED
      BY <3>1, <3>2
  <2>4. ASSUME NEW m \in Keys, NEW z \in Sides PROVE H[u.kid[z][m]] = H[t.kid[z][m]]
    <3>1. CASE m = n /\ z = s
      BY <1>5, <1>6, <2>3, <3>1
    <3>2. CASE m = x /\ z = o
      BY <1>4, <1>6, <2>3, <3>2 DEF y
    <3>3. CASE m = p /\ z = f
      BY <1>6, <2>3, <3>3
    <3> QED
      BY <1>6, <3>1, <3>2, <3>3
  <2> QED
    BY <2>1, <2>2, <2>4 DEF Even
<1>11. OneRed(u, n)
  <2>1. ASSUME NEW m \in Keys \ {n}, u.color[m] = "R" PROVE u.color[u.parent[m]] = "B"
    <3>1. m \in Node /\ m # Nil /\ t.color[m] = "R" /\ m # y
      BY <1>7, <1>8, <2>1, KeyFacts
    <3>2. CASE m = x
      BY <1>3, <1>4, <1>6, <1>7, <1>8, <3>2, KeyFacts
    <3>3. CASE m # x
      <4>1. u.parent[m] = t.parent[m] /\ t.color[t.parent[m]] = "B" /\ t.parent[m] \in Node
        BY <1>3, <1>6, <2>1, <3>1, <3>3, FieldType DEF OneRed
      <4> QED
        BY <1>7, <4>1
    <3> QED
      BY <3>2, <3>3
  <2> QED
    BY <1>4, <1>7, <1>8, <2>1, KeyFacts DEF OneRed
<1>12. Fresh(u, S)
  BY <1>3, <1>7, KeyFacts DEF Fresh
<1> QED
  BY <1>9, <1>10, <1>11, <1>12 DEF Balanced, u, n

\* The grandparent g of d goes down below the red parent p, which takes its color.
LEMMA RotateBlack ==
    ASSUME NEW t, NEW S, NEW d \in Keys, Balanced(t, S, d), NEW s \in Sides,
           NEW p \in Keys, NEW g \in Keys,
           t.parent[d] = p, t.parent[p] = g, t.kid[s][p] = d, t.kid[s][g] = p,
           t.color[p] = "R", t.color[t.kid[Other(s)][g]] = "B"
    PROVE  Balanced(Rotate(Painted(Painted(t, p, "B"), g, "R"), g, s), S, d)
<1> DEFINE v1 == Painted(t, p, "B")
           v == Painted(v1, g, "R")
           u == Rotate(v, g, s)
           o == Other(s)
           y == t.kid[o][p]
           w == t.kid[o][g]
           q == t.parent[g]
           f == SideOf(v, q, g)
<1>1. PICK D : Sorted(t, D, S)
  BY DEF Balanced
<1>2. PICK H : Even(t, H)
  BY DEF Balanced
<1>3. /\ IsTree(t) /\ Forest(t) /\ p \in Node /\ g \in Node /\ d \in Node
      /\ Nil \in Node /\ Nil \notin Keys /\ t.color[Nil] = "B"
      /\ OneRed(t, d) /\ Fresh(t, S) /\ "R" \in Colors /\ "B" \in Colors /\ o \in Sides
      /\ o # s /\ Sides = {s, o} /\ p # Nil /\ g # Nil
  BY <1>1, SortedForest, KeyFacts, OtherType DEF Forest, IsTree, Balanced, Colors, Other, Sides
<1>4. d # p /\ g # p /\ d # g
  <2>1. PICK e \in [Node -> Nat] : \A m \in Keys : t.parent[m] # Nil => e[t.parent[m]] < e[m]
    BY <1>3 DEF Forest, Rising
  <2>2. e[p] < e[d] /\ e[g] < e[p] /\ e[d] \in Nat /\ e[p] \in Nat /\ e[g] \in Nat
    BY <1>3, <2>1
  <2> QED
    BY <2>2
<1>5. IsTree(v1) /\ Sorted(v1, D, S) /\ v1.kid = t.kid /\ v1.parent = t.parent
      /\ \A m \in Node : v1.color[m] = IF m = p THEN "B" ELSE t.color[m]
  <2>1. IsTree(v1) /\ Sorted(v1, D, S)
    BY <1>1, <1>3, PaintedType, PaintedSorted
  <2> QED
    BY <1>3, <2>1, PaintedFields
<1> HIDE DEF v1
<1>6. IsTree(v) /\ Sorted(v, D, S) /\ v.kid = t.kid /\ v.parent = t.parent
      /\ \A m \in Node : v.color[m] = IF m = g THEN "R" ELSE v1.color[m]
  <2>1. IsTree(v) /\ Sorted(v, D, S)
    BY <1>3, <1>5, PaintedType, PaintedSorted
  <2>2. v.kid = v1.kid /\ v.parent = v1.parent
        /\ \A m \in Node : v.color[m] = IF m = g /\ g # Nil THEN "R" ELSE v1.color[m]
    BY <1>3, <1>5, PaintedFields
  <2> QED
    BY <1>3, <1>5, <2>1, <2>2
<1>7. \A m \in Node : v.color[m] = IF m = g THEN "R" ELSE IF m = p THEN "B" ELSE t.color[m]
  BY <1>5, <1>6
<1> HIDE DEF v
<1>8. Forest(v) /\ v.kid[s][g] = p /\ p # Nil
  BY <1>3, <1>6, SortedForest
<1>9. /\ y \in Node /\ f \in Sides /\ q \in Node
      /\ (y # Nil => t.parent[y] = p)
      /\ (q # Nil => t.kid[f][q] = g)
      /\ q # g /\ q # p /\ y # p /\ y # g /\ (q # Nil => y # q)
      /\ \A m \in Keys : u.parent[m] = IF m = p THEN q ELSE IF m = g THEN p
                                       ELSE IF m = y THEN g ELSE t.parent[m]
      /\ \A m \in Keys, z \in Sides :
            u.kid[z][m] = IF m = g /\ z = s THEN y ELSE IF m = p /\ z = o THEN g
                          ELSE IF m = q /\ z = f THEN p ELSE t.kid[z][m]
  <2>1. y = v.kid[o][p] /\ q = v.parent[g] /\ p = v.kid[s][g]
    BY <1>6, <1>8
  <2> HIDE DEF y, q, o, f, u
  <2>2. v.kid[s][g] # Nil
    BY <1>8
  <2>3. /\ y \in Node /\ f \in Sides /\ q \in Node
        /\ (y # Nil => v.parent[y] = p)
        /\ (q # Nil => v.kid[f][q] = g)
        /\ q # g /\ q # p /\ y # p /\ y # g /\ (q # Nil => y # q)
        /\ \A m \in Keys : u.parent[m] = IF m = p THEN q ELSE IF m = g THEN p
                                         ELSE IF m = y THEN g ELSE v.parent[m]
        /\ \A m \in Keys, z \in Sides :
              u.kid[z][m] = IF m = g /\ z = s THEN y ELSE IF m = p /\ z = o THEN g
                            ELSE IF m = q /\ z = f THEN p ELSE v.kid[z][m]
    BY <1>8, <2>1, <2>2, RotateFields DEF o, f, u
  <2> QED
    BY <1>6, <2>3
<1>10. \A m \in Node : u.color[m] = IF m = g THEN "R" ELSE IF m = p THEN "B" ELSE t.color[m]
  <2>1. \A m \in Node : u.color[m] = IF p # Nil /\ v.parent[g] = Nil /\ m = p
                                     THEN "B" ELSE v.color[m]
    BY <1>3, <1>6, <1>8, RotateColor
  <2> QED
    BY <1>4, <1>7, <2>1
<1>11. w \in Node /\ t.color[w] = "B"
  BY <1>3, FieldType
<1>12. t.color[g] = "B" /\ t.color[d] = "R" /\ t.color[y] = "B" /\ y # d
  <2>1. t.color[g] = "B" /\ t.color[d] = "R"
    BY <1>3, <1>4 DEF OneRed
  <2>2. y # d
    <3>1. t.kid[o][p] = t.kid[s][p] => t.kid[s][p] = Nil
      BY <1>1, <1>3, Unfolded
    <3> QED
      BY <1>3, <3>1
  <2>3. t.color[y] = "B"
    <3>1. t.color[y] \in Colors
      BY <1>3, <1>9, FieldType
    <3> QED
      BY <1>3, <1>9, <2>2, <3>1, KeyFacts DEF OneRed, Colors
  <2> QED
    BY <2>1, <2>2, <2>3
<1>13. y = t.kid[o][p] /\ w = t.kid[o][g]
  OBVIOUS
<1> HIDE DEF y, w, q, f, o, u
<1>14. \E E : Sorted(u, E, S)
  BY <1>3, <1>6, <1>8, RotateSorted DEF u
<1>15. \E K : Even(u, K)
  <2>1. /\ H \in [Node -> Nat] /\ H[Nil] = 0
        /\ \A m \in Keys, z \in Sides : H[m] = H[t.kid[z][m]] + Weight(t, m)
    BY <1>2 DEF Even
  <2>2. /\ H[g] = H[p] + 1 /\ H[g] = H[w] + 1 /\ H[p] = H[d] /\ H[p] = H[y]
        /\ H[p] \in Nat /\ H[g] \in Nat /\ H[w] \in Nat /\ H[y] \in Nat /\ H[d] \in Nat
    <3>1. Weight(t, g) = 1 /\ Weight(t, p) = 0
      BY <1>12 DEF Weight
    <3>2. /\ H[g] = H[p] + 1 /\ H[g] = H[w] + 1 /\ H[p] = H[d] + 0 /\ H[p] = H[y] + 0
      BY <1>3, <1>13, <2>1, <3>1
    <3>3. H[p] \in Nat /\ H[g] \in Nat /\ H[w] \in Nat /\ H[y] \in Nat /\ H[d] \in Nat
      BY <1>3, <1>9, <1>11, <2>1
    <3> QED
      BY <3>2, <3>3
  <2> DEFINE K == [m \in Node |-> IF m = g THEN H[p] ELSE IF m = p THEN H[g] ELSE H[m]]
  <2>3. K \in [Node -> Nat] /\ K[Nil] = 0 /\ K[g] = H[p] /\ K[p] = H[g]
        /\ \A m \in Node : m # g /\ m # p => K[m] = H[m]
    BY <1>3, <1>4, <2>1, <2>2
  <2> HIDE DEF K
  <2>4. w # g /\ w # p
    <3>1. t.kid[s][g] = t.kid[o][g] => t.kid[s][g] = Nil
      BY <1>1, <1>3, Unfolded DEF o
    <3>2. t.kid[o][g] # g
      BY <1>1, <1>3, Unfolded
    <3> QED
      BY <1>8, <1>13, <3>1, <3>2
  <2>5. ASSUME NEW m \in Keys, NEW z \in Sides
        PROVE  K[m] = K[u.kid[z][m]] + Weight(u, m)
    <3>1. m \in Node /\ t.kid[z][m] \in Node /\ H[t.kid[z][m]] \in Nat
      BY <1>3, <2>1, FieldType, KeyFacts
    <3>2. CASE m = g
      <4>1. Weight(u, m) = 0 /\ K[m] = H[p]
        BY <1>3, <1>10, <2>3, <3>2 DEF Weight
      <4>2. u.kid[z][m] = IF z = s THEN y ELSE w
        BY <1>3, <1>4, <1>9, <1>13, <3>2
      <4>3. K[u.kid[z][m]] = H[p]
        <5>1. K[y] = H[y] /\ K[w] = H[w] /\ H[w] = H[p]
          BY <1>9, <1>11, <2>2, <2>3, <2>4
        <5> QED
          BY <2>2, <4>2, <5>1
      <4> QED
        BY <2>2, <4>1, <4>3
    <3>3. CASE m = p
      <4>1. Weight(u, m) = 1 /\ K[m] = H[g]
        BY <1>3, <1>4, <1>10, <2>3, <3>3 DEF Weight
      <4>2. u.kid[z][m] = IF z = s THEN d ELSE g
        BY <1>3, <1>4, <1>9, <3>3
      <4>3. K[u.kid[z][m]] = H[p]
        <5>1. K[d] = H[d] /\ K[g] = H[p]
          BY <1>3, <1>4, <2>3
        <5> QED
          BY <2>2, <4>2, <5>1
      <4> QED
        BY <2>2, <4>1, <4>3
    <3>4. CASE m # g /\ m # p
      <4>1. Weight(u, m) = Weight(t, m) /\ K[m] = H[m]
        BY <1>10, <2>3, <3>1, <3>4 DEF Weight
      <4>2. K[u.kid[z][m]] = H[t.kid[z][m]]
        <5>1. CASE m = q /\ z = f
          <6>1. u.kid[z][m] = p /\ t.kid[z][m] = g
            BY <1>3, <1>9, <3>4, <5>1
          <6> QED
            BY <2>3, <6>1
        <5>2. CASE ~(m = q /\ z = f)
          <6>1. u.kid[z][m] = t.kid[z][m]
            BY <1>9, <3>4, <5>2
          <6>2. t.kid[z][m] # p
            <7>1. t.kid[z][m] # Nil => t.parent[t.kid[z][m]] = m
              BY <1>1, Unfolded
            <7> QED
              BY <1>8, <3>4, <7>1
          <6>3. t.kid[z][m] # g
            <7>1. SUFFICES ASSUME t.kid[z][m] = g PROVE FALSE
              OBVIOUS
            <7>2. m = q /\ q # Nil
              BY <1>1, <1>3, <7>1, Unfolded DEF q
            <7>3. z # f /\ t.kid[f][m] = g
              BY <1>9, <5>2, <7>2
            <7>4. t.kid[s][m] = t.kid[o][m]
              BY <1>3, <1>9, <7>1, <7>3
            <7>5. t.kid[s][m] = Nil
              BY <1>1, <1>3, <7>4, Unfolded DEF o
            <7> QED
              BY <1>3, <7>1, <7>4, <7>5
          <6> QED
            BY <2>3, <3>1, <6>1, <6>2, <6>3
        <5> QED
          BY <5>1, <5>2
      <4>3. H[m] = H[t.kid[z][m]] + Weight(t, m)
        BY <2>1
      <4> QED
        BY <4>1, <4>2, <4>3
    <3> QED
      BY <3>2, <3>3, <3>4
  <2>6. Even(u, K)
    BY <2>3, <2>5 DEF Even
  <2> QED
    BY <2>6
<1>16. OneRed(u, d)
  <2>1. ASSUME NEW m \in Keys \ {d}, u.color[m] = "R" PROVE u.color[u.parent[m]] = "B"
    <3>1. m \in Node /\ m # Nil /\ (m # g => t.color[m] = "R") /\ m # p
      BY <1>10, <2>1, KeyFacts
    <3>2. CASE m = g
      BY <1>3, <1>4, <1>9, <1>10, <3>2
    <3>3. CASE m # g
      <4>1. m # y /\ u.parent[m] = t.parent[m] /\ t.color[t.parent[m]] = "B"
            /\ t.parent[m] \in Node
        BY <1>3, <1>9, <1>12, <2>1, <3>1, <3>3, FieldType DEF OneRed
      <4>2. t.parent[m] # g
        <5>1. SUFFICES ASSUME t.parent[m] = g PROVE FALSE
          OBVIOUS
        <5>2. PICK z \in Sides : t.kid[z][g] = m
          BY <1>1, <1>3, <5>1, Unfolded
        <5>3. m = w
          BY <1>3, <1>13, <3>1, <5>2
        <5> QED
          BY <1>11, <3>1, <3>3, <5>3
      <4> QED
        BY <1>10, <4>1, <4>2
    <3> QED
      BY <3>2, <3>3
  <2> QED
    BY <1>3, <1>4, <1>10, <1>12, <2>1 DEF OneRed
<1>17. Fresh(u, S)
  <2>1. p \in S /\ g \in S
    BY <1>1, <1>3, <1>8, SortedLinks
  <2> QED
    BY <1>3, <1>10, <2>1, KeyFacts DEF Fresh
<1> QED
  BY <1>14, <1>15, <1>16, <1>17 DEF Balanced, u, v, v1

\* Both children of g are red: they become black, and g red in their place.
LEMMA PaintReds ==
    ASSUME NEW t, NEW S, NEW d \in Keys, Balanced(t, S, d), NEW s \in Sides,
           NEW p \in Keys, NEW g \in Keys, NEW w \in Node,
           t.parent[d] = p, t.parent[p] = g, t.kid[s][g] = p, w = t.kid[Other(s)][g],
           t.color[p] = "R", t.color[w] = "R"
    PROVE  Balanced(Painted(Painted(Painted(t, p, "B"), w, "B"), g, "R"), S, g)
<1> DEFINE v1 == Painted(t, p, "B")
           v2 == Painted(v1, w, "B")
           v == Painted(v2, g, "R")
           o == Other(s)
<1>1. PICK D : Sorted(t, D, S)
  BY DEF Balanced
<1>2. PICK H : Even(t, H)
  BY DEF Balanced
<1>3. /\ IsTree(t) /\ Forest(t) /\ p \in Node /\ g \in Node /\ d \in Node
      /\ Nil \in Node /\ Nil \notin Keys /\ t.color[Nil] = "B"
      /\ OneRed(t, d) /\ Fresh(t, S) /\ "R" \in Colors /\ "B" \in Colors /\ o \in Sides
      /\ o # s /\ Sides = {s, o} /\ p # Nil /\ g # Nil
  BY <1>1, SortedForest, KeyFacts, OtherType DEF Forest, IsTree, Balanced, Colors, Other, Sides
<1>4. w # Nil /\ w \in Keys /\ t.parent[w] = g /\ w # p /\ w # g /\ p # g /\ d # p
  <2>1. w # Nil /\ w \in Keys
    BY <1>3, KeyFacts
  <2>2. t.parent[w] = g /\ w # g
    BY <1>1, <1>3, <2>1, Unfolded
  <2>3. w # p
    <3>1. t.kid[s][g] = t.kid[o][g] => t.kid[s][g] = Nil
      BY <1>1, <1>3, Unfolded
    <3> QED
      BY <1>3, <3>1
  <2> QED
    BY <1>3, <2>1, <2>2, <2>3, ParentIsOther
<1>5. Sorted(v, D, S) /\ v.kid = t.kid /\ v.parent = t.parent
      /\ \A m \in Node : v.color[m] = IF m = g THEN "R" ELSE IF m \in {p, w} THEN "B"
                                      ELSE t.color[m]
  <2>1. Sorted(v1, D, S) /\ IsTree(v1)
    BY <1>1, <1>3, PaintedSorted, PaintedType
  <2>2. v1.kid = t.kid /\ v1.parent = t.parent
        /\ \A m \in Node : v1.color[m] = IF m = p /\ p # Nil THEN "B" ELSE t.color[m]
    BY <1>3, PaintedFields
  <2> HIDE DEF v1
  <2>3. Sorted(v2, D, S) /\ IsTree(v2)
    BY <1>3, <2>1, PaintedSorted, PaintedType
  <2>4. v2.kid = v1.kid /\ v2.parent = v1.parent
        /\ \A m \in Node : v2.color[m] = IF m = w /\ w # Nil THEN "B" ELSE v1.color[m]
    BY <1>3, <2>1, PaintedFields
  <2> HIDE DEF v2
  <2>5. Sorted(v, D, S)
    BY <1>3, <2>3, PaintedSorted
  <2>6. v.kid = v2.kid /\ v.parent = v2.parent
        /\ \A m \in Node : v.color[m] = IF m = g /\ g # Nil THEN "R" ELSE v2.color[m]
    BY <1>3, <2>3, PaintedFields
  <2> HIDE DEF v
  <2> QED
    BY <1>3, <1>4, <2>2, <2>4, <2>5, <2>6
<1>6. t.color[g] = "B" /\ t.color[d] = "R"
  BY <1>3, <1>4 DEF OneRed
<1> HIDE DEF v, v1, v2, o
<1>7. \E K : Even(v, K)
  <2>1. /\ H \in [Node -> Nat] /\ H[Nil] = 0
        /\ \A m \in Keys, z \in Sides : H[m] = H[t.kid[z][m]] + Weight(t, m)
    BY <1>2 DEF Even
  <2> DEFINE K == [m \in Node |-> IF m \in {p, w} THEN H[m] + 1 ELSE H[m]]
  <2>2. K \in [Node -> Nat] /\ K[Nil] = 0
        /\ \A m \in Node : K[m] = IF m \in {p, w} THEN H[m] + 1 ELSE H[m]
    BY <1>3, <1>4, <2>1
  <2> HIDE DEF K
  <2>3. ASSUME NEW m \in Keys, NEW z \in Sides
        PROVE  K[m] = K[t.kid[z][m]] + Weight(v, m)
    <3> DEFINE k == t.kid[z][m]
    <3>1. m \in Node /\ k \in Node /\ H[k] \in Nat /\ H[m] \in Nat
      BY <1>3, <2>1, FieldType, KeyFacts
    <3>2. H[m] = H[k] + Weight(t, m)
      BY <2>1
    <3>3. k # Nil => t.parent[k] = m
      BY <1>1, Unfolded
    <3> HIDE DEF k
    <3>4. CASE m = g
      <4>1. k \in {p, w} /\ Weight(t, m) = 1 /\ Weight(v, m) = 0
        BY <1>3, <1>5, <1>6, <3>1, <3>4 DEF k, Weight, o
      <4> QED
        BY <1>4, <2>2, <3>1, <3>2, <3>4, <4>1 DEF k
    <3>5. CASE m \in {p, w}
      <4>1. k \notin {p, w} /\ Weight(t, m) = 0 /\ Weight(v, m) = 1
        BY <1>3, <1>4, <1>5, <3>1, <3>3, <3>5 DEF Weight
      <4> QED
        BY <1>4, <2>2, <3>1, <3>2, <3>5, <4>1 DEF k
    <3>6. CASE m \notin {g, p, w}
      <4>1. k \notin {p, w} /\ Weight(t, m) = Weight(v, m)
        BY <1>3, <1>4, <1>5, <3>1, <3>3, <3>6 DEF Weight
      <4> QED
        BY <2>2, <3>1, <3>2, <3>6, <4>1 DEF k
    <3> QED
      BY <3>4, <3>5, <3>6
  <2>4. Even(v, K)
    BY <1>5, <2>2, <2>3 DEF Even
  <2> QED
    BY <2>4
<1>8. OneRed(v, g)
  <2>1. ASSUME NEW m \in Keys \ {g}, v.color[m] = "R" PROVE v.color[v.parent[m]] = "B"
    <3>1. m \in Node /\ t.color[m] = "R" /\ m \notin {p, w} /\ v.parent[m] = t.parent[m]
          /\ t.parent[m] \in Node
      BY <1>3, <1>5, <2>1, FieldType, KeyFacts
    <3>2. t.parent[m] # g
      <4>1. SUFFICES ASSUME t.parent[m] = g PROVE FALSE
        OBVIOUS
      <4>2. PICK z \in Sides : t.kid[z][g] = m
        BY <1>1, <1>3, <4>1, Unfolded
      <4> QED
        BY <1>3, <3>1, <4>2 DEF o
    <3>3. m # d => t.color[t.parent[m]] = "B"
      BY <1>3, <2>1, <3>1 DEF OneRed
    <3> QED
      BY <1>3, <1>5, <3>1, <3>2, <3>3
  <2> QED
    BY <1>3, <1>5, <2>1 DEF OneRed
<1>9. Fresh(v, S)
  <2>1. p \in S /\ w \in S
    BY <1>1, <1>3, <1>4, SortedLinks
  <2> QED
    BY <1>3, <1>5, <2>1, KeyFacts DEF Fresh
<1> QED
  BY <1>5, <1>7, <1>8, <1>9 DEF Balanced, v, v1, v2

LEMMA FixInsertBalanced ==
    ASSUME NEW S, Balanced(tree, S, c), TypeOK, FixInsert, Top(tree) = "B" \/ c = tree.entry
    PROVE  Balanced(tree', S, c')
<1> DEFINE p == tree.parent[c]
           g == tree.parent[p]
           s == SideOf(tree, g, p)
           o == Other(s)
           w == tree.kid[o][g]
           d == IF c = tree.kid[o][p] THEN p ELSE c
           t == IF d = p THEN Rotate(tree, p, o) ELSE tree
<1>1. PICK D : Sorted(tree, D, S)
  BY DEF Balanced
<1>2. /\ c \in Keys /\ p \in Keys /\ g \in Keys /\ tree.kid[s][g] = p
      /\ tree.color[p] = "R"
  <2>1. Search(tree, S) /\ TwoReds
    BY <1>1 DEF Search, FixInsert
  <2> QED
    BY <2>1, TwoRedsLinks DEF TwoReds
<1>3. /\ s \in Sides /\ o \in Sides /\ o # s /\ Other(o) = s /\ Sides = {s, o}
      /\ IsTree(tree) /\ Forest(tree) /\ w \in Node /\ c # Nil /\ p # Nil /\ g # Nil
      /\ p \in Node /\ g \in Node /\ c \in Node
  <2>1. s \in Sides /\ o \in Sides /\ o # s /\ Other(o) = s
    BY SideType, OtherType
  <2>2. IsTree(tree) /\ Forest(tree)
    BY <1>1, SortedForest DEF Forest
  <2>3. Sides = {s, o}
    BY <2>1 DEF Sides, Other
  <2> HIDE DEF s, o
  <2> QED
    BY <1>2, <2>1, <2>2, <2>3, FieldType, KeyFacts
<1>4. \/ /\ tree.color[w] = "R"
         /\ tree' = Painted(Painted(Painted(tree, p, "B"), w, "B"), g, "R") /\ c' = g
      \/ /\ tree.color[w] = "B"
         /\ tree' = Rotate(Painted(Painted(t, t.parent[d], "B"), g, "R"), g, s) /\ c' = d
  BY DEF FixInsert
<1> HIDE DEF s
<1>5. CASE /\ tree.color[w] = "R"
           /\ tree' = Painted(Painted(Painted(tree, p, "B"), w, "B"), g, "R") /\ c' = g
  <2>1. tree.parent[c] = p /\ tree.parent[p] = g /\ w = tree.kid[Other(s)][g]
    OBVIOUS
  <2> HIDE DEF p, g, w
  <2> QED
    BY <1>2, <1>3, <1>5, <2>1, PaintReds
<1>6. CASE /\ tree.color[w] = "B"
           /\ tree' = Rotate(Painted(Painted(t, t.parent[d], "B"), g, "R"), g, s) /\ c' = d
  <2>1. CASE c = tree.kid[o][p]
    <3>1. d = p /\ t = Rotate(tree, p, o)
      BY <2>1
    <3> HIDE DEF d, t
    <3>2. tree.parent[c] = p /\ tree.parent[p] = g /\ w = tree.kid[Other(s)][g]
      OBVIOUS
    <3>3. Balanced(t, S, p)
      <4> HIDE DEF o
      <4> QED
        BY <1>2, <1>3, <2>1, <3>1, RotateReds
    <3> HIDE DEF p, g, w, o
    <3>4. p # c /\ g # p /\ g # c
      <4>1. PICK e \in [Node -> Nat] :
              \A m \in Keys : tree.parent[m] # Nil => e[tree.parent[m]] < e[m]
        BY <1>3 DEF Forest, Rising
      <4>2. e[p] < e[c] /\ e[g] < e[p] /\ e[c] \in Nat /\ e[p] \in Nat /\ e[g] \in Nat
        BY <1>2, <1>3, <3>2, <4>1
      <4> QED
        BY <4>2
    <3> DEFINE y == tree.kid[Other(o)][c]
               f == SideOf(tree, g, p)
    <3>5. f = s /\ y \in Node /\ (y # Nil => tree.parent[y] = c)
      BY <1>1, <1>2, <1>3, Unfolded DEF s
    <3>6. /\ \A m \in Keys : t.parent[m] = IF m = c THEN g ELSE IF m = p THEN c
                                           ELSE IF m = y THEN p ELSE tree.parent[m]
          /\ \A m \in Keys, z \in Sides :
                t.kid[z][m] = IF m = p /\ z = o THEN y ELSE IF m = c /\ z = s THEN p
                              ELSE IF m = g /\ z = f THEN c ELSE tree.kid[z][m]
      <4>1. tree.kid[o][p] = c /\ tree.kid[o][p] # Nil
        BY <1>3, <2>1
      <4> DEFINE v == Rotate(tree, p, o)
      <4>2. /\ \A m \in Keys : v.parent[m] = IF m = c THEN g ELSE IF m = p THEN c
                                             ELSE IF m = y THEN p ELSE tree.parent[m]
            /\ \A m \in Keys, z \in Sides :
                  v.kid[z][m] = IF m = p /\ z = o THEN y ELSE IF m = c /\ z = Other(o) THEN p
                                ELSE IF m = g /\ z = f THEN c ELSE tree.kid[z][m]
        BY <1>2, <1>3, <3>2, <4>1, RotateFields
      <4> HIDE DEF v, y, f
      <4>3. v = t /\ Other(o) = s
        BY <1>3, <3>1 DEF v
      <4> QED
        BY <4>2, <4>3
    <3>7. \A m \in Node : t.color[m] = tree.color[m]
      BY <1>2, <1>3, <3>1, <3>2, RotateColor
    <3>8. /\ t.parent[p] = c /\ t.parent[c] = g /\ t.kid[s][c] = p /\ t.kid[s][g] = c
          /\ t.kid[o][g] = w
      BY <1>2, <1>3, <3>2, <3>4, <3>5, <3>6 DEF o
    <3>9. t.color[c] = "R" /\ t.color[t.kid[Other(s)][g]] = "B"
      <4>1. tree.color[c] = "R"
        BY <1>3 DEF Balanced, OneRed
      <4> QED
        BY <1>3, <1>6, <3>7, <3>8, <4>1 DEF o
    <3>10. Balanced(Rotate(Painted(Painted(t, c, "B"), g, "R"), g, s), S, p)
      BY <1>2, <1>3, <3>3, <3>8, <3>9, RotateBlack
    <3> QED
      BY <1>6, <3>1, <3>8, <3>10
  <2>2. CASE c # tree.kid[o][p]
    <3>1. c # p
      BY <1>2, <1>3, ParentIsOther
    <3>2. d = c /\ t = tree /\ t.parent[d] = p
      BY <2>2, <3>1
    <3> HIDE DEF d, t
    <3>3. tree.parent[c] = p /\ tree.parent[p] = g /\ w = tree.kid[Other(s)][g]
      OBVIOUS
    <3> HIDE DEF p, g, w, o
    <3>4. tree.kid[s][p] = c
      <4>1. \E z \in Sides : tree.kid[z][p] = c
        BY <1>1, <1>2, <1>3, <3>3, Unfolded
      <4> QED
        BY <1>3, <2>2, <4>1
    <3>5. Balanced(Rotate(Painted(Painted(tree, p, "B"), g, "R"), g, s), S, c)
      BY <1>2, <1>3, <1>6, <3>3, <3>4, RotateBlack
    <3> QED
      BY <1>6, <3>2, <3>5
  <2> QED
    BY <2>1, <2>2
<1> QED
  BY <1>4, <1>5, <1>6

\* The root is painted black.
LEMMA InsertEndBalanced ==
    ASSUME NEW S, Balanced(tree, S, c), TypeOK, InsertEnd
    PROVE  Balanced(tree', S, Nil)
<1> DEFINE e == tree.entry
           u == Painted(tree, e, "B")
<1>1. PICK D : Sorted(tree, D, S)
  BY DEF Balanced
<1>2. PICK H : Even(tree, H)
  BY DEF Balanced
<1>3. /\ IsTree(tree) /\ e \in Node /\ Nil \in Node /\ Nil \notin Keys
      /\ tree.color[Nil] = "B" /\ tree.kid = u.kid /\ tree.parent = u.parent
      /\ OneRed(tree, c) /\ Fresh(tree, S) /\ "B" \in Colors /\ c \in Node
  BY PaintedFields, KeyFacts DEF TypeOK, IsTree, Balanced, Colors
<1>4. \A m \in Node : u.color[m] = IF m = e /\ e # Nil THEN "B" ELSE tree.color[m]
  BY <1>3, PaintedFields
<1>5. Sorted(u, D, S)
  BY <1>1, <1>3, PaintedSorted
<1>6. tree' = u /\ (c = Nil \/ tree.color[tree.parent[c]] # "R")
  BY DEF InsertEnd, TwoReds
<1> HIDE DEF u
<1>7. \E K : Even(u, K)
  <2>1. /\ H \in [Node -> Nat] /\ H[Nil] = 0
        /\ \A m \in Keys, z \in Sides : H[m] = H[tree.kid[z][m]] + Weight(tree, m)
    BY <1>2 DEF Even
  <2> DEFINE K == [m \in Node |-> IF m = e /\ e # Nil /\ tree.color[e] # "B" THEN H[m] + 1
                                  ELSE H[m]]
  <2>2. K \in [Node -> Nat] /\ K[Nil] = 0
        /\ \A m \in Node : K[m] = IF m = e /\ e # Nil /\ tree.color[e] # "B" THEN H[m] + 1
                                  ELSE H[m]
    BY <1>3, <2>1
  <2> HIDE DEF K
  <2>3. ASSUME NEW m \in Keys, NEW z \in Sides
        PROVE  K[m] = K[tree.kid[z][m]] + Weight(u, m)
    <3> DEFINE k == tree.kid[z][m]
    <3>1. m \in Node /\ k \in Node /\ H[k] \in Nat /\ H[m] \in Nat
      BY <1>3, <2>1, FieldType, KeyFacts
    <3>2. H[m] = H[k] + Weight(tree, m)
      BY <2>1
    <3>3. e # Nil => k # e
      <4>1. /\ k # Nil => tree.parent[k] = m
            /\ tree.parent[e] = Nil
        BY <1>1, Unfolded
      <4> QED
        BY <1>3, <4>1
    <3> HIDE DEF k
    <3>4. K[k] = H[k]
      BY <2>2, <3>1, <3>3
    <3>5. CASE m = e /\ e # Nil /\ tree.color[e] # "B"
      <4>1. Weight(tree, m) = 0 /\ Weight(u, m) = 1
        BY <1>4, <3>1, <3>5 DEF Weight
      <4> QED
        BY <2>2, <3>1, <3>2, <3>4, <3>5, <4>1 DEF k
    <3>6. CASE ~(m = e /\ e # Nil /\ tree.color[e] # "B")
      <4>1. Weight(tree, m) = Weight(u, m) /\ K[m] = H[m]
        BY <1>4, <2>2, <3>1, <3>6 DEF Weight
      <4> QED
        BY <3>2, <3>4, <4>1 DEF k
    <3> QED
      BY <3>5, <3>6
  <2>4. Even(u, K)
    BY <1>3, <2>2, <2>3 DEF Even
  <2> QED
    BY <2>4
<1>8. OneRed(u, Nil)
  <2>1. ASSUME NEW m \in Keys, u.color[m] = "R" PROVE u.color[u.parent[m]] = "B"
    <3>1. m \in Node /\ tree.color[m] = "R" /\ tree.parent[m] \in Node
          /\ tree.color[tree.parent[m]] \in Colors
      BY <1>3, <1>4, <2>1, FieldType, KeyFacts
    <3>2. tree.color[tree.parent[m]] = "B"
      BY <1>3, <1>6, <2>1, <3>1 DEF OneRed, Colors
    <3> QED
      BY <1>3, <1>4, <3>1, <3>2
  <2> QED
    BY <2>1 DEF OneRed
<1>9. Fresh(u, S)
  <2>1. e # Nil => e \in S
    BY <1>1, SortedLinks
  <2> QED
    BY <1>3, <1>4, <2>1, KeyFacts DEF Fresh
<1> QED
  BY <1>5, <1>6, <1>7, <1>8, <1>9 DEF Balanced

LEMMA BlankBalanced ==
    /\ Balanced(Blank, {}, Nil)
    /\ \A k \in Keys : Balanced([Blank EXCEPT !.entry = k, !.color[k] = "B"], {k}, Nil)
<1>1. Balanced(Blank, {}, Nil)
  <2> DEFINE H == [m \in Node |-> 0]
  <2>1. Even(Blank, H)
    <3>1. \A m \in Keys : m \in Node /\ m # Nil /\ Blank.color[m] = "R"
      BY KeyFacts DEF Blank
    <3>2. \A m \in Keys, s \in Sides : Blank.kid[s][m] \in Node
      BY KeyFacts DEF Blank
    <3>3. H \in [Node -> Nat] /\ \A m \in Node : H[m] = 0
      OBVIOUS
    <3> HIDE DEF H
    <3> QED
      BY <3>1, <3>2, <3>3, KeyFacts DEF Even, Weight
  <2>2. OneRed(Blank, Nil) /\ Fresh(Blank, {})
    BY KeyFacts DEF OneRed, Fresh, Blank
  <2> HIDE DEF H
  <2> QED
    BY <2>1, <2>2, BlankSearch DEF Balanced, Search
<1>2. ASSUME NEW k \in Keys
      PROVE  Balanced([Blank EXCEPT !.entry = k, !.color[k] = "B"], {k}, Nil)
  <2> DEFINE u == [Blank EXCEPT !.entry = k, !.color[k] = "B"]
             H == [m \in Node |-> IF m = k THEN 1 ELSE 0]
  <2>1. /\ \A m \in Node : u.color[m] = IF m \in {k, Nil} THEN "B" ELSE "R"
        /\ \A m \in Node, s \in Sides : u.kid[s][m] = Nil /\ u.parent[m] = Nil
    BY KeyFacts DEF Blank
  <2>2. H \in [Node -> Nat] /\ \A m \in Node : H[m] = IF m = k THEN 1 ELSE 0
    OBVIOUS
  <2>3. Search(u, {k})
    BY BlankSearch
  <2> HIDE DEF u, H
  <2>4. Even(u, H)
    <3>1. \A m \in Keys, s \in Sides : H[u.kid[s][m]] = 0 /\ H[m] = Weight(u, m)
      BY <2>1, <2>2, KeyFacts DEF Weight
    <3>2. \A m \in Keys : Weight(u, m) \in Nat
      BY DEF Weight
    <3> QED
      BY <2>2, <3>1, <3>2, KeyFacts DEF Even
  <2>5. OneRed(u, Nil) /\ Fresh(u, {k})
    <3>1. \A m \in Keys : m \in Node /\ m # Nil /\ u.parent[m] = Nil
      BY <2>1, KeyFacts DEF Sides
    <3>2. Nil \in Node /\ u.color[Nil] = "B"
      BY <2>1, KeyFacts
    <3>3. \A m \in Keys \ {k} : u.color[m] = "R"
      BY <2>1, <3>1
    <3> QED
      BY <3>1, <3>2, <3>3 DEF OneRed, Fresh
  <2>6. Balanced(u, {k}, Nil)
    BY <2>3, <2>4, <2>5 DEF Balanced, Search
  <2> QED
    BY <2>6 DEF u
<1> QED
  BY <1>1, <1>2

\* A new node is red: it adds no black to any way down.
LEMMA InsertBalanced ==
    ASSUME NEW S, Balanced(tree, S, Nil), TypeOK, NEW k \in Keys, Insert(k),
           Top(tree) = "B", c = Nil
    PROVE  Balanced(tree', S \cup {k}, c') /\ (pc' = "idle" => c' = Nil) /\ pc' # "delete"
<1>1. PICK D : Sorted(tree, D, S)
  BY DEF Balanced
<1>2. IsTree(tree)
  BY DEF TypeOK
<1>3. CASE tree.entry = Nil /\ tree' = [Blank EXCEPT !.entry = k, !.color[k] = "B"]
           /\ UNCHANGED <<pc, c>>
  <2>1. S = {}
    BY <1>1, <1>3, Unfolded
  <2> QED
    BY <1>3, <2>1, BlankBalanced DEF Insert
<1>4. CASE Find(tree, k) = k /\ UNCHANGED <<tree, pc, c>>
  <2>1. k \in S
    BY <1>1, <1>4, FindFacts
  <2>2. S \cup {k} = S
    BY <2>1
  <2> QED
    BY <1>4, <2>2 DEF Insert
<1>5. CASE /\ tree.entry # Nil /\ Find(tree, k) = Nil
           /\ \E p \in Keys : /\ p = LastOn(tree, k)
                              /\ tree' = Linked(tree, p, k, IF k < p THEN "l" ELSE "r")
           /\ pc' = "insert" /\ c' = k
  <2>1. PICK p \in Keys : p = LastOn(tree, k) /\ tree' = Linked(tree, p, k, Toward(k, p))
    BY <1>5 DEF Toward
  <2>2. k \in Keys \ S /\ p \in Places(tree, D, S, k) /\ Down(tree, k, p) = Nil
    BY <1>1, <1>5, <2>1, FindFacts, LastFacts
  <2>3. p # k
    BY <2>2 DEF Places
  <2> DEFINE s == Toward(k, p)
  <2>4. s \in Sides /\ tree.kid[s][p] = Nil
    BY <1>1, <2>2, <2>3, DownFacts
  <2>5. Search(tree, S)
    BY <1>1 DEF Search
  <2>6. \E E : Sorted(tree', E, S \cup {k})
    BY <1>1, <1>5, <2>5, InsertSearch DEF Search
  <2> HIDE DEF s
  <2>7. /\ k \in Node /\ k # Nil /\ p \in Node
        /\ tree'.color = tree.color
        /\ \A m \in Node : tree'.parent[m] = IF m = k THEN p ELSE tree.parent[m]
        /\ \A m \in Node, z \in Sides :
              tree'.kid[z][m] = IF m = p /\ z = s THEN k ELSE tree.kid[z][m]
    <3>1. tree' = Linked(tree, p, k, s)
      BY <2>1 DEF s
    <3>2. tree'.color = tree.color
      BY <1>2, <3>1 DEF Linked, IsTree
    <3> QED
      BY <1>2, <2>4, <3>1, <3>2, LinkedFields, KeyFacts
  <2>8. tree.color[k] = "R" /\ Loose(tree, S) /\ Fresh(tree, S) /\ OneRed(tree, Nil)
    BY <1>1, <2>2 DEF Balanced, Fresh, Sorted
  <2>9. PICK H : Even(tree, H)
    BY DEF Balanced
  <2>10. Even(tree', H)
    <3>1. /\ H \in [Node -> Nat] /\ H[Nil] = 0
          /\ \A m \in Keys, z \in Sides : H[m] = H[tree.kid[z][m]] + Weight(tree, m)
      BY <2>9 DEF Even
    <3>2. H[k] = 0
      <4>1. tree.kid[s][k] = Nil
        BY <2>2, <2>4, <2>8 DEF Loose
      <4>2. H[k] = H[Nil] + 0
        BY <2>4, <2>8, <3>1, <4>1 DEF Weight
      <4> QED
        BY <3>1, <4>2
    <3>3. \A m \in Keys, z \in Sides : H[tree'.kid[z][m]] = H[tree.kid[z][m]]
      BY <2>4, <2>7, <3>1, <3>2, KeyFacts
    <3> QED
      BY <2>7, <3>1, <3>3 DEF Even, Weight
  <2>11. OneRed(tree', k)
    BY <2>7, <2>8, KeyFacts DEF OneRed
  <2>12. Fresh(tree', S \cup {k})
    BY <2>7, <2>8 DEF Fresh
  <2> QED
    BY <1>5, <2>6, <2>10, <2>11, <2>12 DEF Balanced
<1> QED
  BY <1>3, <1>4, <1>5 DEF Insert

\* While Delete was not called: all that the loop of Insert leaves to be done is that
\* its node and the parent of that may both be red.
BalanceInv == /\ pc = "idle" => c = Nil
              /\ ~shrunk => pc # "delete" /\ Balanced(tree, members \cup kept, c)

LEMMA BalanceStep == ASSUME SearchInv, BalanceInv, [Next]_vars PROVE BalanceInv'
<1>1. PICK T : T = members \cup kept
  OBVIOUS
<1>2. TypeOK /\ (Top(tree) = "B" \/ (pc = "insert" /\ c = tree.entry))
  BY DEF SearchInv
<1>3. ASSUME NEW k \in Keys, Insert(k) PROVE BalanceInv'
  <2>1. pc = "idle" /\ c = Nil /\ shrunk' = shrunk /\ (members \cup kept)' = T \cup {k}
    BY <1>1, <1>3 DEF Insert, BalanceInv
  <2>2. CASE shrunk
    <3>1. pc' = "idle" => c' = Nil
      BY <1>3, <2>1 DEF Insert
    <3> QED
      BY <2>1, <2>2, <3>1 DEF BalanceInv
  <2>3. CASE ~shrunk
    <3>1. Balanced(tree, T, Nil) /\ Top(tree) = "B"
      BY <1>1, <1>2, <2>1, <2>3 DEF BalanceInv
    <3>2. Balanced(tree', T \cup {k}, c') /\ (pc' = "idle" => c' = Nil) /\ pc' # "delete"
      BY <1>2, <1>3, <2>1, <3>1, InsertBalanced
    <3> QED
      BY <2>1, <3>2 DEF BalanceInv
  <2> QED
    BY <2>2, <2>3
<1>4. ASSUME NEW k \in Keys, Delete(k) PROVE BalanceInv'
  <2>1. shrunk' = TRUE /\ (pc' = "idle" => c' = Nil)
    BY <1>4 DEF Delete
  <2> QED
    BY <2>1 DEF BalanceInv
<1>5. CASE FixInsert
  <2>1. pc = "insert" /\ pc' = pc /\ shrunk' = shrunk /\ (members \cup kept)' = T
    BY <1>1, <1>5 DEF FixInsert
  <2>2. ASSUME ~shrunk PROVE Balanced(tree', T, c')
    <3>1. Balanced(tree, T, c) /\ (Top(tree) = "B" \/ c = tree.entry)
      BY <1>1, <1>2, <2>1, <2>2 DEF BalanceInv
    <3> QED
      BY <1>2, <1>5, <3>1, FixInsertBalanced
  <2> QED
    BY <2>1, <2>2 DEF BalanceInv
<1>6. CASE InsertEnd
  <2>1. pc' = "idle" /\ c' = Nil /\ shrunk' = shrunk /\ (members \cup kept)' = T
    BY <1>1, <1>6 DEF InsertEnd
  <2>2. ASSUME ~shrunk PROVE Balanced(tree', T, Nil)
    <3>1. Balanced(tree, T, c)
      BY <1>1, <2>2 DEF BalanceInv
    <3> QED
      BY <1>2, <1>6, <3>1, InsertEndBalanced
  <2> QED
    BY <2>1, <2>2 DEF BalanceInv
<1>7. CASE FixDelete
  <2>1. pc = "delete" /\ pc' = pc /\ shrunk' = shrunk
    BY <1>7 DEF FixDelete
  <2> QED
    BY <2>1 DEF BalanceInv
<1>8. CASE DeleteEnd
  <2>1. pc = "delete" /\ c' = Nil /\ shrunk' = shrunk
    BY <1>8 DEF DeleteEnd
  <2> QED
    BY <2>1 DEF BalanceInv
<1>9. CASE Clear
  <2>1. pc = "idle" /\ c = Nil /\ pc' = pc /\ c' = c
    BY <1>9 DEF Clear, BalanceInv
  <2>2. tree' = Blank /\ (members \cup kept)' = {}
    BY <1>9 DEF Clear
  <2> QED
    BY <2>1, <2>2, BlankBalanced DEF BalanceInv
<1>10. CASE UNCHANGED vars
  BY <1>10 DEF vars, BalanceInv
<1> QED
  BY <1>3, <1>4, <1>5, <1>6, <1>7, <1>8, <1>9, <1>10 DEF Next, Loops

LEMMA BalanceInvariant == Spec => [](SearchInv /\ BalanceInv)
<1>1. Init => BalanceInv
  BY BlankBalanced DEF Init, BalanceInv
<1> QED
  BY <1>1, BalanceStep, SearchInvariant, PTL DEF Spec

LEMMA AboveIs ==
    ASSUME NEW t, IsTree(t), t = tree, NEW m \in Node
    PROVE  \E at : /\ Iterates(at, Node, m, [n \in Node |-> t.parent[n]], Far)
                   /\ Above(m) = {at[i] : i \in 0 .. Far} \ {Nil}
<1> DEFINE G == [n \in Node |-> t.parent[n]]
           B(h) == [i \in 0 .. Far |-> IF i = 0 THEN m ELSE t.parent[h[i - 1]]]
           W == CHOOSE x : x = B(x)
<1>1. Above(m) = {W[i] : i \in 0 .. Far} \ {Nil}
  BY DEF Above, Walk
<1>2. G \in [Node -> Node] /\ \A n \in Node : G[n] = t.parent[n]
  BY FieldType
<1> HIDE DEF G
<1>3. PICK h : /\ IsWalk(h) /\ h[0] = m
               /\ \A i \in 1 .. Far : h[i - 1] \in Node /\ h[i] = G[h[i - 1]]
  BY <1>2, WalkExists
<1>4. \A i \in 0 .. Far : h[i] = IF i = 0 THEN m ELSE t.parent[h[i - 1]]
  BY <1>2, <1>3, KeyFacts
<1>5. h = B(h)
  BY <1>3, <1>4 DEF IsWalk
<1>6. W = B(W)
  BY <1>5
<1> HIDE DEF W
<1>7. W[0] = m /\ \A i \in 1 .. Far : W[i] = t.parent[W[i - 1]]
  BY <1>6, KeyFacts
<1>8. IsWalk(W)
  BY <1>6 DEF IsWalk
<1>9. \A i \in 1 .. Far : W[i - 1] \in Node => W[i] = G[W[i - 1]]
  BY <1>2, <1>7
<1>10. Iterates(W, Node, m, G, Far)
  BY <1>2, <1>7, <1>8, <1>9, WalkStays
<1> QED
  BY <1>1, <1>10 DEF G

\* The walk up meets the nodes that have n below them, and no others.
LEMMA AboveFacts ==
    ASSUME NEW D, NEW S, Sorted(tree, D, S), NEW n \in S
    PROVE  Above(n) = {m \in Keys : n \in D[m]}
<1>1. /\ IsTree(tree) /\ Far \in Nat /\ D \in [Node -> SUBSET Keys] /\ D[Nil] = {}
      /\ n \in Keys /\ n \in Node /\ n # Nil /\ n \in D[n]
  BY Unfolded, SortedLinks, KeyFacts
<1> DEFINE G == [m \in Node |-> tree.parent[m]]
           A == {m \in Keys : n \in D[m]}
<1>2. PICK at : Iterates(at, Node, n, G, Far) /\ Above(n) = {at[i] : i \in 0 .. Far} \ {Nil}
  BY <1>1, AboveIs
<1>3. /\ at[0] = n
      /\ \A i \in 0 .. Far : at[i] \in Node
      /\ \A i \in 1 .. Far : i - 1 \in 0 .. Far /\ at[i] = tree.parent[at[i - 1]]
  <2>1. G \in [Node -> Node] /\ \A m \in Node : G[m] = tree.parent[m]
    BY <1>1, FieldType
  <2> HIDE DEF G
  <2>2. /\ at[0] = n
        /\ \A i \in 0 .. Far : at[i] \in Node
        /\ \A i \in 1 .. Far : i - 1 \in 0 .. Far /\ at[i - 1] \in Node
                               /\ at[i] = G[at[i - 1]]
    BY <1>1, <1>2, <2>1, IteratesFacts
  <2> QED
    BY <2>1, <2>2
<1> HIDE DEF G
\* One step up.
<1>4. ASSUME NEW m \in A, tree.parent[m] # Nil
      PROVE  /\ tree.parent[m] \in A
             /\ Cardinality(D[m]) < Cardinality(D[tree.parent[m]])
             /\ Cardinality(D[m]) \in 1 .. Far
  <2> DEFINE q == tree.parent[m]
  <2>1. q \in Keys
    BY <1>1, <1>4, FieldType, KeyFacts
  <2>2. PICK z \in Sides : tree.kid[z][q] = m
    BY <1>4, Unfolded
  <2>3. D[m] \subseteq D[q]
    BY <2>1, <2>2, BelowKids DEF Sorted
  <2>4. Cardinality(D[m]) < Cardinality(D[q]) /\ Cardinality(D[m]) \in 1 .. Far
    BY <2>1, <2>2, SmallerBelow
  <2> QED
    BY <2>1, <2>3, <2>4
<1> DEFINE Q == {i \in 0 .. Far : \/ at[i] = Nil
                                  \/ at[i] \in A /\ Cardinality(D[at[i]]) >= i + 1}
<1>5. 0 \in Q
  <2>1. Cardinality(D[n]) \in 1 .. Far /\ "l" \in Sides
    BY <1>1, SmallerBelow DEF Sides
  <2> QED
    BY <1>1, <1>3, <2>1
<1>6. ASSUME NEW i \in 1 .. Far, i - 1 \in Q PROVE i \in Q
  <2>1. PICK m : m = at[i - 1]
    OBVIOUS
  <2>2. at[i] = tree.parent[m]
    BY <1>3, <2>1
  <2>3. CASE m = Nil
    BY <1>1, <2>2, <2>3 DEF IsTree
  <2>4. CASE m # Nil /\ tree.parent[m] = Nil
    BY <2>2, <2>4
  <2>5. CASE m # Nil /\ tree.parent[m] # Nil
    <3>1. m \in A /\ Cardinality(D[m]) >= (i - 1) + 1
      BY <1>6, <2>1, <2>5
    <3> HIDE DEF A
    <3>2. /\ tree.parent[m] \in A /\ Cardinality(D[m]) < Cardinality(D[tree.parent[m]])
          /\ Cardinality(D[m]) \in 1 .. Far
      BY <1>4, <2>5, <3>1
    <3>3. Cardinality(D[tree.parent[m]]) \in 1 .. Far
      <4>1. tree.parent[m] \in Keys /\ "l" \in Sides
        BY <3>2 DEF A, Sides
      <4> QED
        BY <4>1, SmallerBelow
    <3>4. Cardinality(D[tree.parent[m]]) >= i + 1
      BY <3>1, <3>2, <3>3
    <3> QED
      BY <2>2, <3>2, <3>4
  <2> QED
    BY <2>3, <2>4, <2>5
<1> DEFINE I == [i \in 0 .. Far |-> i]
<1>7. \A i \in 0 .. Far : i \in Q
  <2>1. I[0] \in Q /\ \A i \in 1 .. Far : I[i - 1] \in Q => I[i] \in Q
    <3> HIDE DEF Q
    <3> QED
      BY <1>1, <1>5, <1>6
  <2>2. \A i \in 0 .. Far : I[i] \in Q
    <3> HIDE DEF Q, I
    <3> QED
      BY <1>1, <2>1, IteratesStay
  <2> HIDE DEF Q
  <2> QED
    BY <2>2
<1>8. at[Far] = Nil
  <2>1. SUFFICES ASSUME at[Far] # Nil PROVE FALSE
    OBVIOUS
  <2>2. at[Far] \in Keys /\ Cardinality(D[at[Far]]) >= Far + 1
    BY <1>1, <1>7, <2>1
  <2>3. Cardinality(D[at[Far]]) \in 1 .. Far
    <3>1. "l" \in Sides
      BY DEF Sides
    <3> QED
      BY <2>2, <3>1, SmallerBelow
  <2> QED
    BY <1>1, <2>2, <2>3
<1> DEFINE U == {at[i] : i \in 0 .. Far} \ {Nil}
<1>9. U \subseteq A
  BY <1>7
<1>10. n \in U /\ \A m \in U : tree.parent[m] # Nil => tree.parent[m] \in U
  <2>1. n \in U
    BY <1>1, <1>3
  <2>2. ASSUME NEW i \in 0 .. Far, at[i] # Nil, tree.parent[at[i]] # Nil
        PROVE  tree.parent[at[i]] \in U
    <3>1. i # Far /\ i + 1 \in 1 .. Far /\ (i + 1) - 1 = i
      BY <1>1, <1>8, <2>2
    <3>2. at[i + 1] = tree.parent[at[i]]
      BY <1>3, <3>1
    <3> QED
      BY <2>2, <3>1, <3>2
  <2> QED
    BY <2>1, <2>2
<1>11. A \subseteq U
  <2> DEFINE C == {m \in Keys : m \in A /\ m \notin U}
  <2> SUFFICES ASSUME C # {} PROVE FALSE
    OBVIOUS
  <2> HIDE DEF U
  <2>1. PICK m \in C : \A s \in Sides : tree.kid[s][m] \notin C
    <3>1. C \in SUBSET Keys
      OBVIOUS
    <3> HIDE DEF C
    <3> QED
      BY <3>1, LeastNode DEF Sorted
  <2>2. m \in Keys /\ n \in D[m] /\ m # n
    BY <1>10, <2>1
  <2>3. PICK z \in Sides : n \in D[tree.kid[z][m]]
    <3>1. D[m] = {m} \cup D[tree.kid["l"][m]] \cup D[tree.kid["r"][m]]
          /\ "l" \in Sides /\ "r" \in Sides
      BY <2>2 DEF Sorted, Subtrees, Sides
    <3> QED
      BY <2>2, <3>1
  <2>4. tree.kid[z][m] # Nil /\ tree.kid[z][m] \in Keys /\ tree.parent[tree.kid[z][m]] = m
    BY <1>1, <2>2, <2>3, Unfolded, KeyFacts
  <2>5. tree.kid[z][m] \in U
    BY <2>1, <2>3, <2>4
  <2>6. m \in U
    BY <1>1, <1>10, <2>2, <2>4, <2>5, KeyFacts
  <2> QED
    BY <2>1, <2>6
<1> QED
  BY <1>2, <1>9, <1>11

\* The blacks on the way from the root down to n.
LEMMA BlacksAbove ==
    ASSUME NEW D, NEW S, Sorted(tree, D, S), NEW H, Even(tree, H), NEW n \in S
    PROVE  /\ Cardinality({m \in Above(n) : tree.color[m] = "B"})
                 = H[tree.entry] - H[n] + Weight(tree, n)
           /\ H[tree.entry] \in Nat /\ H[n] \in Nat
<1> DEFINE e == tree.entry
           B(m) == {k \in Keys : m \in D[k] /\ tree.color[k] = "B"}
           Right(m) == Cardinality(B(m)) = H[e] - H[m] + Weight(tree, m)
           C == {m \in S : ~Right(m)}
<1>1. /\ IsTree(tree) /\ S \in SUBSET Keys /\ e \in Node /\ D \in [Node -> SUBSET Keys]
      /\ \A m \in S : m \in Node /\ m \in Keys /\ m # Nil /\ m \in D[m]
      /\ Forest(tree) /\ tree.parent[e] = Nil /\ D[e] = S /\ Nil \notin Keys
  BY Unfolded, SortedLinks, KeyFacts
<1>2. /\ H \in [Node -> Nat]
      /\ \A m \in Keys, z \in Sides : H[m] = H[tree.kid[z][m]] + Weight(tree, m)
  BY DEF Even
<1>3. \A m \in S : IsFiniteSet(B(m)) /\ Cardinality(B(m)) \in Nat
  <2>1. \A m \in S : B(m) \in SUBSET Keys
    OBVIOUS
  <2> HIDE DEF B
  <2> QED
    BY <2>1, KeyFacts
<1>4. \A m \in S : H[m] \in Nat /\ Weight(tree, m) \in {0, 1} /\ H[e] \in Nat
  BY <1>1, <1>2 DEF Weight
<1>5. e \in S => Right(e)
  <2> SUFFICES ASSUME e \in S PROVE Right(e)
    OBVIOUS
  <2>1. \A k \in Keys : e \in D[k] => k = e
    <3> SUFFICES ASSUME NEW k \in Keys, e \in D[k], k # e PROVE FALSE
      OBVIOUS
    <3>1. k \in Node
      BY KeyFacts
    <3>2. tree.parent[e] \in D[k]
      BY <3>1, ParentBelow DEF Sorted
    <3> QED
      BY <1>1, <3>1, <3>2
  <2>2. B(e) = IF tree.color[e] = "B" THEN {e} ELSE {}
    BY <1>1, <2>1
  <2>3. Cardinality(B(e)) = Weight(tree, e)
    BY <2>2, FS_Singleton, FS_EmptySet DEF Weight
  <2> HIDE DEF B
  <2> QED
    BY <1>4, <2>3
<1>6. ASSUME NEW m \in S, m # e, Right(tree.parent[m]) PROVE Right(m)
  <2> DEFINE q == tree.parent[m]
  <2>1. q \in S /\ q \in Keys /\ q # Nil
    BY <1>1, <1>6, SortedLinks
  <2>2. PICK z \in Sides : tree.kid[z][q] = m
    BY <1>1, <2>1, Unfolded
  <2>3. H[q] = H[m] + Weight(tree, q)
    BY <1>2, <2>1, <2>2
  <2>4. D[m] \subseteq D[q] /\ q \notin D[m] /\ q \in D[q]
    <3>1. /\ D[q] = {q} \cup D[tree.kid[z][q]] \cup D[tree.kid[Other(z)][q]]
          /\ q \notin D[tree.kid[z][q]]
      BY <2>1, <2>2, Unfolded
    <3> QED
      BY <2>2, <3>1
  <2>5. \A k \in Keys : m \in D[k] <=> k = m \/ q \in D[k]
    <3>1. ASSUME NEW k \in Keys, m \in D[k], k # m PROVE q \in D[k]
      BY <1>1, <3>1, ParentBelow, KeyFacts DEF Sorted
    <3>2. ASSUME NEW k \in Keys, q \in D[k] PROVE m \in D[k]
      <4>1. D[q] \subseteq D[k]
        BY <1>1, <3>2, BelowBelow, KeyFacts DEF Sorted
      <4> QED
        BY <1>1, <2>4, <4>1
    <3> QED
      BY <1>1, <3>1, <3>2
  <2> HIDE DEF q
  <2>6. B(m) = IF tree.color[m] = "B" THEN B(q) \cup {m} ELSE B(q)
    BY <1>1, <2>5
  <2>7. m \notin B(q)
    BY <2>4
  <2>8. IsFiniteSet(B(q)) /\ Cardinality(B(q)) \in Nat
    BY <1>3, <2>1
  <2> HIDE DEF B
  <2>9. Cardinality(B(m)) = Cardinality(B(q)) + Weight(tree, m)
    <3>1. CASE tree.color[m] = "B"
      BY <2>6, <2>7, <2>8, <3>1, FS_AddElement DEF Weight
    <3>2. CASE tree.color[m] # "B"
      BY <2>6, <2>8, <3>2 DEF Weight
    <3> QED
      BY <3>1, <3>2
  <2>10. Cardinality(B(q)) = H[e] - H[q] + Weight(tree, q)
    BY <1>6 DEF q
  <2>11. /\ H[e] \in Nat /\ H[m] \in Nat /\ H[q] \in Nat
         /\ Weight(tree, m) \in {0, 1} /\ Weight(tree, q) \in {0, 1}
    BY <1>4, <2>1
  <2> QED
    BY <2>3, <2>8, <2>9, <2>10, <2>11
<1>7. C = {}
  <2> SUFFICES ASSUME C # {} PROVE FALSE
    OBVIOUS
  <2> HIDE DEF Right
  <2>1. PICK d \in [Node -> Nat] :
          \A m \in Keys : tree.parent[m] # Nil => d[tree.parent[m]] < d[m]
    BY <1>1 DEF Forest, Rising
  <2> DEFINE Depths == {d[m] : m \in C}
  <2>2. Depths \in SUBSET Nat /\ Depths # {}
    BY <1>1
  <2>3. PICK i \in Depths : \A j \in Depths : i <= j
    <3> HIDE DEF Depths
    <3> QED
      BY <2>2, LeastNumber
  <2>4. PICK m \in C : \A k \in C : d[m] <= d[k]
    BY <2>3
  <2>5. m \in S /\ ~Right(m) /\ m # e
    BY <1>5, <2>4
  <2>6. tree.parent[m] \in S
    BY <2>5, SortedLinks
  <2>7. d[tree.parent[m]] < d[m] /\ d[m] \in Nat /\ d[tree.parent[m]] \in Nat
    BY <1>1, <2>1, <2>5, <2>6
  <2>8. tree.parent[m] \notin C
    BY <2>4, <2>7
  <2> QED
    BY <1>6, <2>5, <2>6, <2>8
<1>8. {m \in Above(n) : tree.color[m] = "B"} = B(n)
  BY AboveFacts
<1>9. Right(n)
  BY <1>7
<1> QED
  BY <1>4, <1>8, <1>9

\* Until Delete is called the tree is a red-black tree after each call, for any finite
\* set of keys in any order: the rotations and paintings of AdjustTreeOnInsert
\* (RBTree.lua) leave no two reds in a row and as many blacks on each way down.
THEOREM BalancedByInsertAlways == Spec => []BalancedByInsert
<1>1. SearchInv /\ BalanceInv => BalancedByInsert
  <2> SUFFICES ASSUME SearchInv, BalanceInv, pc = "idle", ~shrunk
               PROVE  LET blacks(n) == Cardinality({m \in Above(n) : tree.color[m] = "B"})
                          ends == {n \in Below(tree.entry) :
                                     \E s \in Sides : tree.kid[s][n] = Nil}
                      IN  RedsApart /\ \A n, m \in ends : blacks(n) = blacks(m)
    BY DEF BalancedByInsert
  <2>1. PICK S : S = members \cup kept
    OBVIOUS
  <2>2. Balanced(tree, S, Nil)
    BY <2>1 DEF BalanceInv
  <2>3. PICK D : Sorted(tree, D, S)
    BY <2>2 DEF Balanced
  <2>4. PICK H : Even(tree, H)
    BY <2>2 DEF Balanced
  <2>5. /\ Below(tree.entry) = S /\ S \in SUBSET Keys
        /\ \A n \in S : n \in Keys /\ n # Nil
    BY <2>3, BelowFacts, SortedLinks, Unfolded, KeyFacts
  <2>6. RedsApart
    BY <2>2, <2>5 DEF RedsApart, Balanced, OneRed
  <2>7. ASSUME NEW n \in S, NEW s \in Sides, tree.kid[s][n] = Nil
        PROVE  Cardinality({m \in Above(n) : tree.color[m] = "B"}) = H[tree.entry]
    <3>1. H[n] = Weight(tree, n)
      <4>1. H[n] = H[Nil] + Weight(tree, n) /\ H[Nil] = 0
        BY <2>4, <2>5, <2>7 DEF Even
      <4>2. Weight(tree, n) \in Nat
        BY DEF Weight
      <4> QED
        BY <4>1, <4>2
    <3>2. /\ Cardinality({m \in Above(n) : tree.color[m] = "B"})
                = H[tree.entry] - H[n] + Weight(tree, n)
          /\ H[tree.entry] \in Nat /\ H[n] \in Nat
      BY <2>3, <2>4, BlacksAbove
    <3> QED
      BY <3>1, <3>2
  <2> QED
    BY <2>5, <2>6, <2>7
<1> QED
  BY <1>1, BalanceInvariant, PTL
==============================================================================
