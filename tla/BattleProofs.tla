----------------------------- MODULE BattleProofs -----------------------------
(***************************************************************************)
(* The registry of a battle, for any battlers: the arrays and the indices  *)
(* their members carry agree through every series of calls, and so do the  *)
(* arrays of one battler and the counts of types; the weights of walls     *)
(* follow their three writers.  The heap of its search, for any costs and  *)
(* any length.  The search: its answers lead where they say, on any map.   *)
(***************************************************************************)
EXTENDS BattleMap, HeapQ, BattleSearch, Least, FunctionTheorems, TLAPS

-----------------------------------------------------------------------------
(* The arrays. *)

Shown(r, b) == r.at[b] # 0

(* addObj: b is in, nobody else comes or goes.                             *)
LEMMA AddObjIndexed ==
  ASSUME NEW r, Indexed(r), NEW b \in Battlers
  PROVE  LET s == AddObj(r, b)
         IN /\ Indexed(s) /\ Shown(s, b)
            /\ \A c \in Battlers \ {b} : Shown(s, c) <=> Shown(r, c)
<1>1. CASE r.at[b] # 0
  BY <1>1 DEF AddObj, Shown
<1>2. CASE r.at[b] = 0
  <2> DEFINE s == AddObj(r, b)
             n == Len(r.seq)
  <2>1. s = [seq |-> Append(r.seq, b), at |-> [r.at EXCEPT ![b] = n + 1]]
    BY <1>2 DEF AddObj
  <2>2. r.seq \in Seq(Battlers) /\ r.at \in [Battlers -> Nat] /\ n \in Nat
    BY DEF Indexed
  <2>3. s \in [seq : Seq(Battlers), at : [Battlers -> Nat]] /\ Len(s.seq) = n + 1
    BY <2>1, <2>2
  <2>4. \A i \in 1..n : r.seq[i] \in Battlers /\ r.seq[i] # b /\ s.seq[i] = r.seq[i]
    BY <1>2, <2>1, <2>2 DEF Indexed
  <2>5. s.seq[n + 1] = b /\ s.at[b] = n + 1
    BY <2>1, <2>2
  <2>6. \A c \in Battlers \ {b} : s.at[c] = r.at[c]
    BY <2>1, <2>2
  <2>7. ASSUME NEW i \in 1..Len(s.seq) PROVE s.at[s.seq[i]] = i
    <3>1. i \in 1..n \/ i = n + 1
      BY <2>2, <2>3
    <3> QED
      BY <2>4, <2>5, <2>6, <3>1 DEF Indexed
  <2>8. ASSUME NEW c \in Battlers, s.at[c] # 0
        PROVE  s.at[c] <= Len(s.seq) /\ s.seq[s.at[c]] = c
    <3>1. CASE c = b
      BY <2>2, <2>3, <2>5, <3>1
    <3>2. CASE c # b
      <4>1. r.at[c] # 0 /\ r.at[c] \in Nat /\ r.at[c] <= n /\ r.seq[r.at[c]] = c
        BY <2>2, <2>6, <2>8, <3>2 DEF Indexed
      <4>2. r.at[c] \in 1..n /\ s.at[c] = r.at[c]
        BY <2>2, <2>6, <3>2, <4>1
      <4>3. s.seq[r.at[c]] = c
        BY <2>4, <4>1, <4>2
      <4> QED
        BY <2>2, <2>3, <4>2, <4>3
    <3> QED
      BY <3>1, <3>2
  <2> QED
    BY <2>2, <2>3, <2>5, <2>6, <2>7, <2>8 DEF Indexed, Shown
<1> QED
  BY <1>1, <1>2

(* removeObj: b is out, whoever takes its place is found there, and nobody *)
(* else comes or goes.                                                     *)
LEMMA RemoveObjIndexed ==
  ASSUME NEW r, Indexed(r), NEW b \in Battlers
  PROVE  LET s == RemoveObj(r, b)
         IN /\ Indexed(s) /\ ~Shown(s, b)
            /\ \A c \in Battlers \ {b} : Shown(s, c) <=> Shown(r, c)
<1>1. CASE r.at[b] = 0
  BY <1>1 DEF RemoveObj, Shown
<1>2. CASE r.at[b] # 0
  <2> DEFINE s == RemoveObj(r, b)
             n == Len(r.seq)
             p == r.at[b]
             last == r.seq[n]
  <2>1. /\ s.seq = [i \in 1..n - 1 |-> IF i = p THEN last ELSE r.seq[i]]
        /\ s.at = [c \in Battlers |-> IF c = b THEN 0 ELSE IF c = last THEN p ELSE r.at[c]]
        /\ s = [seq |-> s.seq, at |-> s.at]
    BY <1>2 DEF RemoveObj
  <2>2. r.seq \in Seq(Battlers) /\ r.at \in [Battlers -> Nat] /\ n \in Nat
    BY DEF Indexed
  <2>3. p \in 1..n /\ r.seq[p] = b
    BY <1>2, <2>2 DEF Indexed
  <2>4. last \in Battlers /\ r.at[last] = n
    BY <2>2, <2>3 DEF Indexed
  <2>5. s.seq \in Seq(Battlers) /\ Len(s.seq) = n - 1
    BY <2>1, <2>2, <2>3, <2>4
  <2>6. s.at \in [Battlers -> Nat]
    BY <2>1, <2>2, <2>3
  <2>7. ASSUME NEW i \in 1..Len(s.seq) PROVE s.at[s.seq[i]] = i
    <3>1. i \in 1..n - 1 /\ i \in 1..n /\ i # n
      BY <2>2, <2>5
    <3>2. r.at[r.seq[i]] = i /\ r.seq[i] \in Battlers
      BY <2>2, <3>1 DEF Indexed
    <3>3. CASE i = p
      <4>1. last # b
        BY <2>3, <2>4, <3>1, <3>3
      <4> QED
        BY <2>1, <2>4, <3>1, <3>3, <4>1
    <3>4. CASE i # p
      <4>1. r.seq[i] # b /\ r.seq[i] # last
        BY <2>4, <3>1, <3>2, <3>4
      <4> QED
        BY <2>1, <3>1, <3>2, <3>4, <4>1
    <3> QED
      BY <3>3, <3>4
  <2>8. ASSUME NEW c \in Battlers, s.at[c] # 0
        PROVE  s.at[c] <= Len(s.seq) /\ s.seq[s.at[c]] = c
    <3>1. c # b
      BY <2>1, <2>8
    <3>2. CASE c = last
      <4>1. s.at[c] = p /\ p # n
        BY <2>1, <2>3, <3>1, <3>2
      <4> QED
        BY <2>1, <2>2, <2>3, <2>5, <3>2, <4>1
    <3>3. CASE c # last
      <4>1. s.at[c] = r.at[c]
        BY <2>1, <3>1, <3>3
      <4>2. r.at[c] \in 1..n /\ r.seq[r.at[c]] = c
        BY <2>2, <2>8, <4>1 DEF Indexed
      <4>3. r.at[c] # n /\ r.at[c] # p
        BY <2>3, <3>1, <3>3, <4>2
      <4> QED
        BY <2>1, <2>2, <2>5, <4>1, <4>2, <4>3
    <3> QED
      BY <3>2, <3>3
  <2>9. ~Shown(s, b) /\ \A c \in Battlers \ {b} : Shown(s, c) <=> Shown(r, c)
    BY <1>2, <2>1, <2>3, <2>4 DEF Shown
  <2>10. s \in [seq : Seq(Battlers), at : [Battlers -> Nat]]
    BY <2>1, <2>5, <2>6
  <2> QED
    BY <2>7, <2>8, <2>9, <2>10 DEF Indexed
<1> QED
  BY <1>1, <1>2

(* removeAllObj forgets every index, since every index is that of a member *)
(* of the array.                                                           *)
LEMMA RemoveAllObjIndexed ==
  ASSUME NEW r, Indexed(r)
  PROVE  LET s == RemoveAllObj(r)
         IN Indexed(s) /\ \A b \in Battlers : ~Shown(s, b)
<1> DEFINE s == RemoveAllObj(r)
<1>1. s = [seq |-> <<>>, at |-> [b \in Battlers |-> IF b \in Range(r.seq) THEN 0 ELSE r.at[b]]]
  BY DEF RemoveAllObj
<1>2. ASSUME NEW b \in Battlers PROVE s.at[b] = 0
  <2>1. CASE r.at[b] = 0
    BY <1>1, <2>1
  <2>2. CASE r.at[b] # 0
    <3>1. r.at[b] \in DOMAIN r.seq /\ r.seq[r.at[b]] = b
      BY <2>2 DEF Indexed
    <3>2. b \in Range(r.seq)
      BY <3>1 DEF Range
    <3> QED
      BY <1>1, <3>2
  <2> QED
    BY <2>1, <2>2
<1>3. s \in [seq : Seq(Battlers), at : [Battlers -> Nat]]
  <2>1. s.seq = <<>> /\ s.at \in [Battlers -> Nat]
    BY <1>1, <1>2
  <2> QED
    BY <1>1, <2>1
<1>4. Len(s.seq) = 0
  BY <1>1
<1> QED
  BY <1>2, <1>3, <1>4 DEF Indexed, Shown

(* What a call does to one array: those of L take b in, or let it go.      *)
LEMMA AddToIndexed ==
  ASSUME NEW ls, NEW l \in Lists, Indexed(ls[l]), NEW L, NEW b \in Battlers
  PROVE  LET ns == AddTo(ls, L, b)
         IN /\ Indexed(ns[l])
            /\ Shown(ns[l], b) <=> l \in L \/ Shown(ls[l], b)
            /\ \A c \in Battlers \ {b} : Shown(ns[l], c) <=> Shown(ls[l], c)
BY AddObjIndexed DEF AddTo

LEMMA RemoveFromIndexed ==
  ASSUME NEW ls, NEW l \in Lists, Indexed(ls[l]), NEW L, NEW b \in Battlers
  PROVE  LET ns == RemoveFrom(ls, L, b)
         IN /\ Indexed(ns[l])
            /\ Shown(ns[l], b) <=> l \notin L /\ Shown(ls[l], b)
            /\ \A c \in Battlers \ {b} : Shown(ns[l], c) <=> Shown(ls[l], c)
BY RemoveObjIndexed DEF RemoveFrom

(* ListsIndexed, said of any arrays.                                       *)
Agree(ls) ==
  /\ \A l \in Lists : Indexed(ls[l])
  /\ \A b \in Battlers \ Decor : \A l \in Lists \ {Grave(b)} :
       Shown(ls[l], b) <=> l \in Home(b) /\ Shown(ls["battlerAll"], b)

LEMMA HomeIsNoGrave ==
  ASSUME NEW b \in Battlers
  PROVE  /\ "battlerAll" \in Home(b) \ {Grave(b)} /\ "battlerAll" \in Lists
         /\ \A c \in Battlers : Grave(b) \notin Home(c)
<1>1. \A c \in Battlers : Counted(c) \subseteq Types
  BY DEF Counted, Types
<1>2. \A f \in Types : TypeList[f] \in {"build", "fav1", "fav2", "fav5"}
  BY DEF TypeList, Types
<1>3. \A c \in Battlers : Home(c) \subseteq
        {"battlerAll", "battler", "mer", "hero", "build", "fav1", "fav2", "fav5"}
  BY <1>1, <1>2 DEF Home
<1>4. Grave(b) \in {"diedHero", "diedMer"}
  BY DEF Grave
<1> QED
  BY <1>3, <1>4 DEF Home, Lists

LEMMA AddAgrees ==
  ASSUME NEW ls, Agree(ls), NEW b \in Battlers
  PROVE  Agree(AddTo(ls, Home(b), b))
<1> DEFINE ns == AddTo(ls, Home(b), b)
<1>1. \A l \in Lists : Indexed(ns[l])
  BY AddToIndexed DEF Agree
<1>2. \A l \in Lists : Shown(ns[l], b) <=> l \in Home(b) \/ Shown(ls[l], b)
  BY AddToIndexed DEF Agree
<1>3. \A l \in Lists : \A c \in Battlers \ {b} : Shown(ns[l], c) <=> Shown(ls[l], c)
  BY AddToIndexed DEF Agree
<1>4. ASSUME NEW c \in Battlers \ Decor, NEW l \in Lists \ {Grave(c)}
      PROVE  Shown(ns[l], c) <=> l \in Home(c) /\ Shown(ns["battlerAll"], c)
  <2>1. Shown(ls[l], c) <=> l \in Home(c) /\ Shown(ls["battlerAll"], c)
    BY <1>4 DEF Agree
  <2> QED
    BY <1>2, <1>3, <1>4, <2>1, HomeIsNoGrave
<1> QED
  BY <1>1, <1>4 DEF Agree

LEMMA RemoveAgrees ==
  ASSUME NEW ls, Agree(ls), NEW b \in Battlers
  PROVE  Agree(RemoveFrom(ls, Home(b), b))
<1> DEFINE ns == RemoveFrom(ls, Home(b), b)
<1>1. \A l \in Lists : Indexed(ns[l])
  BY RemoveFromIndexed DEF Agree
<1>2. \A l \in Lists : Shown(ns[l], b) <=> l \notin Home(b) /\ Shown(ls[l], b)
  BY RemoveFromIndexed DEF Agree
<1>3. \A l \in Lists : \A c \in Battlers \ {b} : Shown(ns[l], c) <=> Shown(ls[l], c)
  BY RemoveFromIndexed DEF Agree
<1>4. ASSUME NEW c \in Battlers \ Decor, NEW l \in Lists \ {Grave(c)}
      PROVE  Shown(ns[l], c) <=> l \in Home(c) /\ Shown(ns["battlerAll"], c)
  <2>1. Shown(ls[l], c) <=> l \in Home(c) /\ Shown(ls["battlerAll"], c)
    BY <1>4 DEF Agree
  <2> QED
    BY <1>2, <1>3, <1>4, <2>1, HomeIsNoGrave
<1> QED
  BY <1>1, <1>4 DEF Agree

(* The arrays of the dead are no home: who is recorded there is not shown. *)
LEMMA GraveAgrees ==
  ASSUME NEW ls, Agree(ls), NEW b \in Battlers
  PROVE  Agree(AddTo(ls, {Grave(b)}, b))
<1> DEFINE ns == AddTo(ls, {Grave(b)}, b)
<1>1. \A l \in Lists : Indexed(ns[l])
  BY AddToIndexed DEF Agree
<1>2. \A l \in Lists \ {Grave(b)} : Shown(ns[l], b) <=> Shown(ls[l], b)
  BY AddToIndexed DEF Agree
<1>3. \A l \in Lists : \A c \in Battlers \ {b} : Shown(ns[l], c) <=> Shown(ls[l], c)
  BY AddToIndexed DEF Agree
<1>4. ASSUME NEW c \in Battlers \ Decor, NEW l \in Lists \ {Grave(c)}
      PROVE  Shown(ns[l], c) <=> l \in Home(c) /\ Shown(ns["battlerAll"], c)
  <2>1. Shown(ls[l], c) <=> l \in Home(c) /\ Shown(ls["battlerAll"], c)
    BY <1>4 DEF Agree
  <2>2. "battlerAll" \in Lists \ {Grave(b)}
    BY HomeIsNoGrave
  <2> QED
    BY <1>2, <1>3, <1>4, <2>1, <2>2
<1> QED
  BY <1>1, <1>4 DEF Agree

(* Decoration that is removed is left out of the agreement.                *)
LEMMA DecorAgrees ==
  ASSUME NEW ls, Agree(ls), NEW b \in Decor, NEW L
  PROVE  Agree(RemoveFrom(ls, L, b))
<1> DEFINE ns == RemoveFrom(ls, L, b)
<1>1. b \in Battlers
  BY BattleAssumption DEF Battlers
<1>2. \A l \in Lists : Indexed(ns[l])
  BY <1>1, RemoveFromIndexed DEF Agree
<1>3. \A l \in Lists : \A c \in Battlers \ {b} : Shown(ns[l], c) <=> Shown(ls[l], c)
  BY <1>1, RemoveFromIndexed DEF Agree
<1>4. "battlerAll" \in Lists
  BY DEF Lists
<1> QED
  BY <1>2, <1>3, <1>4 DEF Agree

(* However battlers are shown, hidden, added and removed and battles begin *)
(* again, the arrays of BattleMap.lua:164-202 stay without holes, every    *)
(* index is that of its battler, and each battler is in all the arrays     *)
(* that fit it or in none (:204-364).                                      *)
THEOREM ListsStayIndexed == BattleSpec => []ListsIndexed
<1>1. ListsIndexed <=> Agree(lists)
  BY DEF ListsIndexed, Agree, Shown, Registered
<1>2. ListsIndexed' <=> Agree(lists')
  BY DEF ListsIndexed, Agree, Shown, Registered
<1>3. BattleInit => ListsIndexed
  <2> SUFFICES ASSUME BattleInit PROVE Agree(lists)
    BY <1>1
  <2>1. \A l \in Lists : lists[l] = Empty
    BY DEF BattleInit
  <2>2. Indexed(Empty) /\ \A b \in Battlers : ~Shown(Empty, b)
    <3>1. Empty.seq = <<>> /\ Len(Empty.seq) = 0 /\ \A b \in Battlers : Empty.at[b] = 0
      BY DEF Empty
    <3>2. Empty \in [seq : Seq(Battlers), at : [Battlers -> Nat]]
      BY DEF Empty
    <3> QED
      BY <3>1, <3>2 DEF Indexed, Shown
  <2> QED
    BY <2>1, <2>2, HomeIsNoGrave DEF Agree
<1>4. ListsIndexed /\ [BattleNext]_battleVars => ListsIndexed'
  <2> SUFFICES ASSUME Agree(lists), [BattleNext]_battleVars PROVE Agree(lists')
    BY <1>1, <1>2
  <2>1. ASSUME NEW b \in Battlers, ShowBattler(b) \/ AddBattler(b) PROVE Agree(lists')
    BY <2>1, AddAgrees DEF ShowBattler, AddBattler
  <2>2. ASSUME NEW b \in Battlers, HideBattler(b) \/ DestroyBuild(b) PROVE Agree(lists')
    BY <2>2, RemoveAgrees DEF HideBattler, DestroyBuild
  <2>3. ASSUME NEW b \in Battlers, RemoveAvatar(b) PROVE Agree(lists')
    <3> DEFINE gone == RemoveFrom(lists, Home(b), b)
    <3>1. Agree(gone)
      BY RemoveAgrees
    <3>2. lists' = gone \/ lists' = AddTo(gone, {Grave(b)}, b)
      BY <2>3 DEF RemoveAvatar
    <3> QED
      BY <3>1, <3>2, GraveAgrees
  <2>4. ASSUME NEW b \in Battlers, RemoveDecor(b) PROVE Agree(lists')
    BY <2>4, DecorAgrees DEF RemoveDecor
  <2>5. CASE NewBattle
    <3>1. \A l \in Lists : lists'[l] = RemoveAllObj(lists[l])
      BY <2>5 DEF NewBattle
    <3>2. \A l \in Lists : Indexed(lists'[l]) /\ \A b \in Battlers : ~Shown(lists'[l], b)
      BY <3>1, RemoveAllObjIndexed DEF Agree
    <3> QED
      BY <3>2, HomeIsNoGrave DEF Agree
  <2>6. CASE \E w \in Walls : SetGrid(w) \/ ClearGrid(w) \/ ChooseWall(w)
    BY <2>6 DEF SetGrid, ClearGrid, ChooseWall
  <2>7. CASE UNCHANGED battleVars
    BY <2>7 DEF battleVars
  <2> QED
    BY <2>1, <2>2, <2>3, <2>4, <2>5, <2>6, <2>7 DEF BattleNext, RemoveBattler
<1> QED
  BY <1>3, <1>4, PTL DEF BattleSpec

-----------------------------------------------------------------------------
(* The counts of types.                                                    *)

LEMMA AddObjLength ==
  ASSUME NEW r, Indexed(r), NEW b \in Battlers
  PROVE  Len(AddObj(r, b).seq) = Len(r.seq) + IF Shown(r, b) THEN 0 ELSE 1
<1>1. r.seq \in Seq(Battlers) /\ Len(r.seq) \in Nat
  BY DEF Indexed
<1>2. CASE Shown(r, b)
  BY <1>1, <1>2 DEF AddObj, Shown
<1>3. CASE ~Shown(r, b)
  <2>1. AddObj(r, b).seq = Append(r.seq, b)
    BY <1>3 DEF AddObj, Shown
  <2> QED
    BY <1>1, <1>3, <2>1
<1> QED
  BY <1>2, <1>3

LEMMA RemoveObjLength ==
  ASSUME NEW r, Indexed(r), NEW b \in Battlers
  PROVE  Len(RemoveObj(r, b).seq) = Len(r.seq) - IF Shown(r, b) THEN 1 ELSE 0
<1>1. r.seq \in Seq(Battlers) /\ Len(r.seq) \in Nat
  BY DEF Indexed
<1>2. CASE Shown(r, b)
  <2> DEFINE n == Len(r.seq)
             q == [i \in 1..n - 1 |-> IF i = r.at[b] THEN r.seq[n] ELSE r.seq[i]]
  <2>1. RemoveObj(r, b).seq = q
    BY <1>2 DEF RemoveObj, Shown
  <2>2. n >= 1
    BY <1>1, <1>2 DEF Indexed, Shown
  <2>3. q \in Seq(Battlers) /\ Len(q) = n - 1
    BY <1>1, <2>2
  <2> QED
    BY <1>2, <2>1, <2>3
<1>3. CASE ~Shown(r, b)
  BY <1>1, <1>3 DEF RemoveObj, Shown
<1> QED
  BY <1>2, <1>3

LEMMA TypeLists ==
  ASSUME NEW f \in Types
  PROVE  TypeList[f] \in Lists \ {"battlerAll", "battler", "diedHero", "diedMer"}
BY DEF TypeList, Types, Lists

(* A building counts for a type exactly if it belongs into its array.      *)
LEMMA HomeOfType ==
  ASSUME NEW b \in Battlers, NEW f \in Types
  PROVE  /\ TypeList[f] \in Lists
         /\ TypeList[f] \in Home(b) <=> f \in Counted(b)
         /\ TypeList[f] \notin {"battlerAll", "battler", "diedHero", "diedMer"}
<1>1. Counted(b) \subseteq Types
  BY DEF Counted, Types
<1>2. /\ TypeList[0] = "build" /\ TypeList[1] = "fav1"
      /\ TypeList[2] = "fav2" /\ TypeList[5] = "fav5"
  BY DEF TypeList, Types
<1>3. \A g \in Types : TypeList[f] = TypeList[g] => f = g
  BY <1>2 DEF Types
<1>4. TypeList[f] \in {"build", "fav1", "fav2", "fav5"}
  BY <1>2 DEF Types
<1>5. TypeList[f] \in Home(b) => TypeList[f] \in {TypeList[g] : g \in Counted(b)}
  <2> DEFINE T == {TypeList[g] : g \in Counted(b)}
  <2> HIDE DEF T
  <2> QED
    BY <1>4 DEF Home, T
<1> QED
  BY <1>1, <1>3, <1>4, <1>5 DEF Home, Lists

(* Decoration that is removed leaves the general arrays alone, so that the *)
(* arrays of its types still agree.                                        *)
Together == \A b \in Battlers : \A f, g \in Counted(b) :
              Shown(lists[TypeList[f]], b) <=> Shown(lists[TypeList[g]], b)

Of(f) == {b \in Builds : f \in Counted(b)}

CountInv == /\ \A l \in Lists : Indexed(lists[l])
            /\ Together
            /\ types \in [Types -> Int] /\ extra \in [Builds -> Int]
            /\ \A f \in Types : types[f] = Len(lists[TypeList[f]].seq) + SumOf(extra, Of(f))

LEMMA CountedTypes == \A b \in Battlers : Counted(b) \subseteq Types /\ (b \notin Builds => Counted(b) = {})
BY DEF Counted, Types

Tally(b, redundant, d) ==
  extra' = IF b \in Builds /\ redundant THEN [extra EXCEPT ![b] = @ + d] ELSE extra

(* A call for b that adds d to the counts, and to the arrays of its types  *)
(* or else to the history.                                                 *)
LEMMA CountMoves ==
  ASSUME CountInv, NEW b \in Battlers, NEW d \in Int, NEW redundant \in BOOLEAN,
         \A f \in Counted(b) : Len(lists'[TypeList[f]].seq)
                               = Len(lists[TypeList[f]].seq) + IF redundant THEN 0 ELSE d,
         \A f \in Types \ Counted(b) : lists'[TypeList[f]] = lists[TypeList[f]],
         types' = Count(b, d), Tally(b, redundant, d)
  PROVE  /\ types' \in [Types -> Int] /\ extra' \in [Builds -> Int]
         /\ \A f \in Types : types'[f] = Len(lists'[TypeList[f]].seq) + SumOf(extra', Of(f))
<1>1. types' \in [Types -> Int] /\ extra' \in [Builds -> Int]
  BY DEF CountInv, Count, Tally
<1>2. ASSUME NEW f \in Types
      PROVE  types'[f] = Len(lists'[TypeList[f]].seq) + SumOf(extra', Of(f))
  <2>1. types[f] = Len(lists[TypeList[f]].seq) + SumOf(extra, Of(f))
    BY DEF CountInv
  <2>2. /\ IsFiniteSet(Of(f)) /\ \A c \in Of(f) : extra[c] \in Int
    <3>1. Of(f) \subseteq Builds
      BY DEF Of
    <3> QED
      BY <3>1, FS_Subset, BattleAssumption DEF CountInv
  <2>3. Len(lists[TypeList[f]].seq) \in Int
    <3>1. lists[TypeList[f]].seq \in Seq(Battlers)
      BY HomeOfType DEF CountInv, Indexed
    <3> QED
      BY <3>1
  <2> DEFINE sum == SumOf(extra, Of(f))
             sum2 == SumOf(extra', Of(f))
  <2>4. CASE f \notin Counted(b)
    <3>1. b \notin Of(f) /\ \A c \in Of(f) : extra'[c] = extra[c]
      BY <2>4 DEF Of, CountInv, Tally
    <3>2. sum2 = sum
      BY <2>2, <3>1, SumSame
    <3>3. types'[f] = types[f] /\ lists'[TypeList[f]] = lists[TypeList[f]]
      BY <2>4 DEF Count
    <3> HIDE DEF sum, sum2
    <3> QED
      BY <2>1, <3>2, <3>3 DEF sum, sum2
  <2>5. CASE f \in Counted(b)
    <3>1. b \in Of(f) /\ b \in Builds
      BY <2>5, CountedTypes DEF Of
    <3>2. types'[f] = types[f] + d
      BY <2>5 DEF Count
    <3>5. sum \in Int
      BY <2>2, SumIsInt
    <3> DEFINE n == Len(lists[TypeList[f]].seq)
               n2 == Len(lists'[TypeList[f]].seq)
    <3>6. types[f] = n + sum /\ n \in Int
      BY <2>1, <2>3
    <3>3. CASE redundant
      <4>1. extra'[b] = extra[b] + d /\ \A c \in Of(f) \ {b} : extra'[c] = extra[c]
        BY <3>1, <3>3 DEF CountInv, Of, Tally
      <4>2. extra'[b] \in Int /\ \A c \in Of(f) : extra'[c] \in Int
        BY <2>2, <3>1, <4>1
      <4>3. sum2 - sum = extra'[b] - extra[b]
        BY <2>2, <3>1, <4>1, <4>2, SumChanges
      <4>4. sum2 \in Int
        BY <2>2, <4>2, SumIsInt
      <4>5. n2 = n
        BY <2>3, <2>5, <3>3
      <4> HIDE DEF sum, sum2, n, n2
      <4>6. sum2 = sum + d
        BY <2>2, <3>1, <3>5, <4>1, <4>3, <4>4
      <4>7. types'[f] = n2 + sum2
        BY <3>2, <3>5, <3>6, <4>5, <4>6
      <4> QED
        BY <4>7 DEF sum2, n2
    <3>4. CASE ~redundant
      <4>1. sum2 = sum
        BY <3>4 DEF Tally
      <4>2. n2 = n + d
        BY <2>5, <3>4
      <4> HIDE DEF sum, sum2, n, n2
      <4>3. types'[f] = n2 + sum2
        BY <3>2, <3>5, <3>6, <4>1, <4>2
      <4> QED
        BY <4>3 DEF sum2, n2
    <3> QED
      BY <3>3, <3>4
  <2> QED
    BY <2>4, <2>5
<1> QED
  BY <1>1, <1>2

(* Showing b, again or not.                                                *)
LEMMA CountAdds ==
  ASSUME CountInv, NEW b \in Battlers, lists' = AddTo(lists, Home(b), b),
         types' = Count(b, 1), Redundant(b, Listed(b), 1)
  PROVE  CountInv'
<1>1. \A l \in Lists : /\ Indexed(lists'[l])
                       /\ Shown(lists'[l], b) <=> l \in Home(b) \/ Shown(lists[l], b)
                       /\ \A c \in Battlers \ {b} : Shown(lists'[l], c) <=> Shown(lists[l], c)
  BY AddToIndexed DEF CountInv
<1>2. Together'
  <2>1. \A c \in Battlers : \A f \in Counted(c) : f \in Types /\ TypeList[f] \in Lists \cap Home(c)
    BY HomeOfType, CountedTypes
  <2> QED
    BY <1>1, <2>1 DEF Together, CountInv
<1>3. \A f \in Counted(b) : Len(lists'[TypeList[f]].seq)
                            = Len(lists[TypeList[f]].seq) + IF Listed(b) THEN 0 ELSE 1
  <2>1. ASSUME NEW f \in Counted(b)
        PROVE  Len(lists'[TypeList[f]].seq)
               = Len(lists[TypeList[f]].seq) + IF Listed(b) THEN 0 ELSE 1
    <3>1. f \in Types /\ TypeList[f] \in Lists /\ TypeList[f] \in Home(b)
      BY HomeOfType, CountedTypes
    <3>2. lists'[TypeList[f]] = AddObj(lists[TypeList[f]], b) /\ Indexed(lists[TypeList[f]])
      BY <3>1 DEF AddTo, CountInv
    <3>3. Listed(b) <=> Shown(lists[TypeList[f]], b)
      BY DEF Listed, Shown, CountInv, Together
    <3> QED
      BY <3>2, <3>3, AddObjLength
  <2> QED
    BY <2>1
<1>4. \A f \in Types \ Counted(b) : lists'[TypeList[f]] = lists[TypeList[f]]
  BY HomeOfType DEF AddTo
<1>5. /\ Tally(b, Listed(b), 1)
      /\ Listed(b) \in BOOLEAN /\ 1 \in Int
  BY DEF Redundant, Tally, Listed
<1>6. /\ types' \in [Types -> Int] /\ extra' \in [Builds -> Int]
      /\ \A f \in Types : types'[f] = Len(lists'[TypeList[f]].seq) + SumOf(extra', Of(f))
  BY <1>3, <1>4, <1>5, CountMoves
<1> QED
  BY <1>1, <1>2, <1>6 DEF CountInv

(* Hiding or destroying b, again or not.                                   *)
LEMMA CountRemoves ==
  ASSUME CountInv, NEW b \in Battlers, lists' = RemoveFrom(lists, Home(b), b),
         types' = Count(b, -1), Redundant(b, ~Listed(b), -1)
  PROVE  CountInv'
<1>1. \A l \in Lists : /\ Indexed(lists'[l])
                       /\ Shown(lists'[l], b) <=> l \notin Home(b) /\ Shown(lists[l], b)
                       /\ \A c \in Battlers \ {b} : Shown(lists'[l], c) <=> Shown(lists[l], c)
  BY RemoveFromIndexed DEF CountInv
<1>2. Together'
  <2>1. \A c \in Battlers : \A f \in Counted(c) : f \in Types /\ TypeList[f] \in Lists \cap Home(c)
    BY HomeOfType, CountedTypes
  <2> QED
    BY <1>1, <2>1 DEF Together, CountInv
<1>3. \A f \in Counted(b) : Len(lists'[TypeList[f]].seq)
                            = Len(lists[TypeList[f]].seq) + IF ~Listed(b) THEN 0 ELSE -1
  <2>1. ASSUME NEW f \in Counted(b)
        PROVE  Len(lists'[TypeList[f]].seq)
               = Len(lists[TypeList[f]].seq) + IF ~Listed(b) THEN 0 ELSE -1
    <3>1. f \in Types /\ TypeList[f] \in Lists /\ TypeList[f] \in Home(b)
      BY HomeOfType, CountedTypes
    <3>2. lists'[TypeList[f]] = RemoveObj(lists[TypeList[f]], b) /\ Indexed(lists[TypeList[f]])
      BY <3>1 DEF RemoveFrom, CountInv
    <3>3. Listed(b) <=> Shown(lists[TypeList[f]], b)
      BY DEF Listed, Shown, CountInv, Together
    <3>4. Len(lists[TypeList[f]].seq) \in Nat
      BY <3>2 DEF Indexed
    <3>5. CASE Listed(b)
      BY <3>2, <3>3, <3>4, <3>5, RemoveObjLength
    <3>6. CASE ~Listed(b)
      <4>1. lists'[TypeList[f]] = lists[TypeList[f]]
        BY <3>2, <3>3, <3>6 DEF RemoveObj, Shown
      <4> QED
        BY <3>4, <3>6, <4>1
    <3> QED
      BY <3>5, <3>6
  <2> QED
    BY <2>1
<1>4. \A f \in Types \ Counted(b) : lists'[TypeList[f]] = lists[TypeList[f]]
  BY HomeOfType DEF RemoveFrom
<1>5. /\ Tally(b, ~Listed(b), -1)
      /\ (~Listed(b)) \in BOOLEAN /\ -1 \in Int
  BY DEF Redundant, Tally, Listed
<1>6. /\ types' \in [Types -> Int] /\ extra' \in [Builds -> Int]
      /\ \A f \in Types : types'[f] = Len(lists'[TypeList[f]].seq) + SumOf(extra', Of(f))
  BY <1>3, <1>4, <1>5, CountMoves
<1> QED
  BY <1>1, <1>2, <1>6 DEF CountInv

(* A call that changes no array of a type.                                 *)
LEMMA CountStays ==
  ASSUME CountInv, \A l \in Lists : Indexed(lists'[l]),
         \A f \in Types : lists'[TypeList[f]] = lists[TypeList[f]], UNCHANGED <<types, extra>>
  PROVE  CountInv'
<1>1. Together'
  BY CountedTypes DEF CountInv, Together
<1> QED
  BY <1>1 DEF CountInv

LEMMA CountRestarts ==
  ASSUME \A l \in Lists : Indexed(lists'[l]) /\ lists'[l].seq = <<>>
                          /\ \A b \in Battlers : ~Shown(lists'[l], b),
         types' = [f \in Types |-> 0], extra' = [b \in Builds |-> 0]
  PROVE  CountInv'
<1>1. Together'
  BY CountedTypes, TypeLists DEF Together
<1>2. ASSUME NEW f \in Types
      PROVE  types'[f] = Len(lists'[TypeList[f]].seq) + SumOf(extra', Of(f))
  <2>1. /\ IsFiniteSet(Of(f)) /\ \A c \in Of(f) : extra'[c] = 0
    <3>1. Of(f) \subseteq Builds
      BY DEF Of
    <3> QED
      BY <3>1, FS_Subset, BattleAssumption
  <2>2. SumOf(extra', Of(f)) = 0
    BY <2>1, SumOfZeros
  <2>3. Len(lists'[TypeList[f]].seq) = 0
    <3>1. TypeList[f] \in Lists
      BY TypeLists
    <3> QED
      BY <3>1
  <2> QED
    BY <2>2, <2>3
<1> QED
  BY <1>1, <1>2 DEF CountInv

(* A count of types, which hasType asks alone (BattleMap.lua:367-380), is  *)
(* off by exactly the calls that showBattler, hideBattler, addBattler and  *)
(* destroyBuild (:204-364) got for what was already so.                    *)
THEOREM TypesAreCounted == BattleSpec => []TypesCount
<1>1. BattleInit => CountInv
  <2> SUFFICES ASSUME BattleInit PROVE CountInv
    OBVIOUS
  <2>1. \A l \in Lists : lists[l] = Empty
    BY DEF BattleInit
  <2>2. Empty.seq = <<>> /\ \A b \in Battlers : Empty.at[b] = 0
    BY DEF Empty
  <2>3. Indexed(Empty)
    <3>1. Empty \in [seq : Seq(Battlers), at : [Battlers -> Nat]] /\ Len(Empty.seq) = 0
      BY DEF Empty
    <3> QED
      BY <2>2, <3>1 DEF Indexed
  <2>4. types = [f \in Types |-> 0] /\ extra = [b \in Builds |-> 0]
    BY DEF BattleInit
  <2>5. Together
    BY <2>1, <2>2, CountedTypes, HomeOfType DEF Together, Shown
  <2>6. ASSUME NEW f \in Types
        PROVE  types[f] = Len(lists[TypeList[f]].seq) + SumOf(extra, Of(f))
    <3>1. /\ IsFiniteSet(Of(f)) /\ \A c \in Of(f) : extra[c] = 0
      <4>1. Of(f) \subseteq Builds
        BY DEF Of
      <4> QED
        BY <2>4, <4>1, FS_Subset, BattleAssumption
    <3>2. SumOf(extra, Of(f)) = 0
      BY <3>1, SumOfZeros
    <3>3. Len(lists[TypeList[f]].seq) = 0
      <4>1. lists[TypeList[f]].seq = <<>>
        BY <2>1, <2>2, TypeLists
      <4> QED
        BY <4>1
    <3> QED
      BY <2>4, <3>2, <3>3
  <2> QED
    BY <2>1, <2>3, <2>4, <2>5, <2>6 DEF CountInv
<1>2. CountInv /\ [BattleNext]_battleVars => CountInv'
  <2> SUFFICES ASSUME CountInv, [BattleNext]_battleVars PROVE CountInv'
    OBVIOUS
  <2>1. ASSUME NEW b \in Battlers, ShowBattler(b) \/ AddBattler(b) PROVE CountInv'
    BY <2>1, CountAdds DEF ShowBattler, AddBattler
  <2>2. ASSUME NEW b \in Battlers, HideBattler(b) \/ DestroyBuild(b) PROVE CountInv'
    BY <2>2, CountRemoves DEF HideBattler, DestroyBuild
  <2>3. ASSUME NEW b \in Battlers, RemoveAvatar(b) PROVE CountInv'
    <3> DEFINE gone == RemoveFrom(lists, Home(b), b)
    <3>1. \A l \in Lists : Indexed(gone[l]) /\ Indexed(AddTo(gone, {Grave(b)}, b)[l])
      BY RemoveFromIndexed, AddToIndexed DEF CountInv
    <3>2. /\ lists' = gone \/ lists' = AddTo(gone, {Grave(b)}, b)
          /\ UNCHANGED <<types, extra>>
      BY <2>3 DEF RemoveAvatar
    <3>3. \A f \in Types : TypeList[f] \in Lists \ Home(b) /\ TypeList[f] # Grave(b)
      BY <2>3, HomeOfType, CountedTypes, BattleAssumption DEF RemoveAvatar, Grave
    <3>4. \A f \in Types : /\ gone[TypeList[f]] = lists[TypeList[f]]
                           /\ AddTo(gone, {Grave(b)}, b)[TypeList[f]] = gone[TypeList[f]]
      BY <3>3 DEF RemoveFrom, AddTo
    <3> HIDE DEF gone
    <3> QED
      BY <3>1, <3>2, <3>4, CountStays
  <2>4. ASSUME NEW b \in Battlers, RemoveDecor(b) PROVE CountInv'
    <3>1. /\ lists' = RemoveFrom(lists, {"battlerAll", "battler"}, b)
          /\ UNCHANGED <<types, extra>>
      BY <2>4 DEF RemoveDecor
    <3>2. \A l \in Lists : Indexed(lists'[l])
      BY <3>1, RemoveFromIndexed DEF CountInv
    <3>3. \A f \in Types : lists'[TypeList[f]] = lists[TypeList[f]]
      BY <3>1, HomeOfType DEF RemoveFrom
    <3> QED
      BY <3>1, <3>2, <3>3, CountStays
  <2>5. CASE NewBattle
    <3>1. /\ \A l \in Lists : lists'[l] = RemoveAllObj(lists[l])
          /\ types' = [f \in Types |-> 0] /\ extra' = [b \in Builds |-> 0]
      BY <2>5 DEF NewBattle
    <3>2. \A l \in Lists : /\ Indexed(lists'[l]) /\ lists'[l].seq = <<>>
                           /\ \A b \in Battlers : ~Shown(lists'[l], b)
      <4>1. \A r : RemoveAllObj(r).seq = <<>>
        BY DEF RemoveAllObj
      <4> QED
        BY <3>1, <4>1, RemoveAllObjIndexed DEF CountInv
    <3> QED
      BY <3>1, <3>2, CountRestarts
  <2>6. CASE \E w \in Walls : SetGrid(w) \/ ClearGrid(w) \/ ChooseWall(w)
    BY <2>6, CountStays DEF SetGrid, ClearGrid, ChooseWall, CountInv
  <2>7. CASE UNCHANGED battleVars
    BY <2>7, CountStays DEF battleVars, CountInv
  <2> QED
    BY <2>1, <2>2, <2>3, <2>4, <2>5, <2>6, <2>7 DEF BattleNext, RemoveBattler
<1>3. CountInv => TypesCount
  <2> SUFFICES ASSUME CountInv, NEW f \in Types
               PROVE  types[f] = Len(lists[TypeList[f]].seq)
                        + FoldFunctionOnSet(+, 0, extra, {b \in Builds : f \in Counted(b)})
    BY DEF TypesCount
  <2>1. SumOf(extra, Of(f)) = FoldFunctionOnSet(+, 0, extra, {b \in Builds : f \in Counted(b)})
    BY DEF SumOf, Of
  <2> QED
    BY <2>1 DEF CountInv
<1> QED
  BY <1>1, <1>2, <1>3, PTL DEF BattleSpec

-----------------------------------------------------------------------------
(* The weights. *)

(* The weight of a wall's cell, which the registry (:299-313), the grid    *)
(* (GameMap.lua:50-66) and the search (:611-616) write, is never that of a *)
(* wall where there is none, nor none where both have one.                 *)
THEOREM WallsKeepWeight == BattleSpec => []WallsWeigh
<1> DEFINE Inv == weight \in [Walls -> Nat] /\ WallsWeigh
<1>1. BattleInit => Inv
  BY DEF BattleInit, WallsWeigh
<1>2. Inv /\ [BattleNext]_battleVars => Inv'
  <2> SUFFICES ASSUME Inv, [BattleNext]_battleVars PROVE Inv'
    OBVIOUS
  <2>1. ASSUME NEW b \in Battlers, AddBattler(b) PROVE Inv'
    BY <2>1 DEF AddBattler, WallsWeigh
  <2>2. ASSUME NEW b \in Battlers, DestroyBuild(b) PROVE Inv'
    BY <2>2 DEF DestroyBuild, WallsWeigh
  <2>3. CASE NewBattle
    BY <2>3 DEF NewBattle, WallsWeigh
  <2>4. ASSUME NEW w \in Walls, SetGrid(w) PROVE Inv'
    BY <2>4 DEF SetGrid, WallsWeigh
  <2>5. ASSUME NEW w \in Walls, ClearGrid(w) PROVE Inv'
    BY <2>5 DEF ClearGrid, WallsWeigh
  <2>6. ASSUME NEW w \in Walls, ChooseWall(w) PROVE Inv'
    BY <2>6 DEF ChooseWall, WallsWeigh
  <2>7. ASSUME NEW b \in Battlers,
               ShowBattler(b) \/ HideBattler(b) \/ RemoveAvatar(b) \/ RemoveDecor(b)
        PROVE  Inv'
    BY <2>7 DEF ShowBattler, HideBattler, RemoveAvatar, RemoveDecor, WallsWeigh
  <2>8. CASE UNCHANGED battleVars
    BY <2>8 DEF battleVars, WallsWeigh
  <2> QED
    BY <2>1, <2>2, <2>3, <2>4, <2>5, <2>6, <2>7, <2>8 DEF BattleNext, RemoveBattler
<1>3. Inv => WallsWeigh
  OBVIOUS
<1> QED
  BY <1>1, <1>2, <1>3, PTL DEF BattleSpec

-----------------------------------------------------------------------------
(* The heap.  While a loop runs, one place of the heap is out of order; a  *)
(* parent above it and the children below it are still in order with each  *)
(* other, and the exchange moves the disorder one place on.  Order from    *)
(* parents to children makes the root a least item.                        *)

LEMMA ParentIsAbove ==
  ASSUME NEW i \in Nat, i >= 2
  PROVE  i \div 2 \in 1..i - 1
OBVIOUS

LEMMA ItemsAreNumbers ==
  ASSUME NEW l \in Seq(Costs), NEW i \in 1..Len(l)
  PROVE  l[i] \in Int
<1>1. l[i] \in Costs
  OBVIOUS
<1> QED
  BY <1>1, CostsAssumption

(* In a heap that is in order nothing is less than the root.               *)
LEMMA RootIsLeast ==
  ASSUME NEW l \in Seq(Int), \A i \in 2..Len(l) : l[i \div 2] <= l[i],
         NEW j \in 1..Len(l)
  PROVE  l[1] <= l[j]
<1> DEFINE Less == {i \in 1..Len(l) : l[i] < l[1]}
<1> SUFFICES ASSUME Less # {} PROVE FALSE
  <2>1. j \notin Less => l[1] <= l[j]
    OBVIOUS
  <2> QED
    BY <2>1
<1>1. PICK m \in Less : \A k \in Less : m <= k
  <2>1. Less \in SUBSET Nat
    OBVIOUS
  <2> HIDE DEF Less
  <2> QED
    BY <2>1, LeastNumber
<1>2. m \in 2..Len(l)
  OBVIOUS
<1>3. m \div 2 \in 1..m - 1 /\ l[m \div 2] <= l[m]
  BY <1>2, ParentIsAbove
<1>4. m \div 2 \in Less
  BY <1>2, <1>3
<1> QED
  BY <1>1, <1>3, <1>4

-----------------------------------------------------------------------------
HeapTypeOK ==
  /\ heap \in Seq(Costs)
  /\ curPos \in Nat \ {0}
  /\ sift \in {"up", "down", "none"}

(* The place p is the only one whose link in or out may be out of order.   *)
SettledAround(l, p) ==
  \A i \in 2..Len(l) : i \div 2 = p /\ p > 1 => l[p \div 2] <= l[i]

UpInv ==
  sift = "up" => /\ curPos <= Len(heap)
                 /\ \A i \in 2..Len(heap) : i # curPos => heap[i \div 2] <= heap[i]
                 /\ SettledAround(heap, curPos)

DownInv ==
  sift = "down" => /\ curPos > 1 => curPos <= Len(heap)
                   /\ \A i \in 2..Len(heap) : i \div 2 # curPos => heap[i \div 2] <= heap[i]
                   /\ SettledAround(heap, curPos)

HeapInv == HeapTypeOK /\ HeapOrdered /\ UpInv /\ DownInv

LEMMA SwapItems ==
  ASSUME NEW l \in Seq(Costs), NEW i \in 1..Len(l), NEW j \in 1..Len(l), i # j
  PROVE  /\ Swap(l, i, j) \in Seq(Costs)
         /\ Len(Swap(l, i, j)) = Len(l)
         /\ Swap(l, i, j)[i] = l[j] /\ Swap(l, i, j)[j] = l[i]
         /\ \A k \in 1..Len(l) : k # i /\ k # j => Swap(l, i, j)[k] = l[k]
BY DEF Swap

(* The turns of the loop of heappushArray.                                 *)
LEMMA SiftUpKeeps ==
  ASSUME HeapInv, SiftUp
  PROVE  HeapInv'
<1> DEFINE p == curPos
           q == curPos \div 2
           n == Len(heap)
<1>1. /\ heap \in Seq(Costs) /\ p \in Nat \ {0} /\ n \in Nat /\ p \in 1..n
      /\ \A i \in 1..n : heap[i] \in Int
      /\ \A i \in 2..n : i # p => heap[i \div 2] <= heap[i]
      /\ \A i \in 2..n : i \div 2 = p /\ p > 1 => heap[q] <= heap[i]
  <2>1. heap \in Seq(Costs) /\ p \in Nat \ {0} /\ n \in Nat /\ UpInv /\ sift = "up"
    BY DEF SiftUp, HeapInv, HeapTypeOK
  <2>2. p \in 1..n
    BY <2>1 DEF UpInv
  <2>3. \A i \in 1..n : heap[i] \in Int
    BY <2>1, ItemsAreNumbers
  <2> QED
    BY <2>1, <2>2, <2>3 DEF UpInv, SettledAround
<1>2. CASE q > 0 /\ heap[p] < heap[q]
  <2> DEFINE h == Swap(heap, p, q)
  <2>1. heap' = h /\ curPos' = q /\ sift' = "up"
    BY <1>2 DEF SiftUp
  <2>2. p >= 2 /\ q \in 1..n /\ q < p
    BY <1>1, <1>2
  <2>3. /\ h \in Seq(Costs) /\ Len(h) = n /\ h[p] = heap[q] /\ h[q] = heap[p]
        /\ \A k \in 1..n : k # p /\ k # q => h[k] = heap[k]
    <3>1. p # q
      BY <1>1, <2>2
    <3> QED
      BY <1>1, <2>2, <3>1, SwapItems
  <2> HIDE DEF h
  <2>4. ASSUME NEW i \in 2..n, i # q PROVE h[i \div 2] <= h[i]
    <3>1. i \div 2 \in 1..n /\ i \div 2 # i
      BY <1>1, ParentIsAbove
    <3>2. CASE i = p
      BY <1>1, <1>2, <2>2, <2>3, <3>2
    <3>3. CASE i # p
      <4>1. h[i] = heap[i] /\ heap[i \div 2] <= heap[i]
        BY <1>1, <2>3, <2>4, <3>3
      <4>2. CASE i \div 2 = p
        BY <1>1, <2>2, <2>3, <4>1, <4>2
      <4>3. CASE i \div 2 = q
        BY <1>1, <1>2, <2>2, <2>3, <4>1, <4>3
      <4>4. CASE i \div 2 # p /\ i \div 2 # q
        BY <2>3, <3>1, <4>1, <4>4
      <4> QED
        BY <4>2, <4>3, <4>4
    <3> QED
      BY <3>2, <3>3
  <2>5. ASSUME NEW i \in 2..n, i \div 2 = q, q > 1 PROVE h[q \div 2] <= h[i]
    <3>1. q \div 2 \in 1..n /\ q \div 2 # q /\ q \div 2 # p /\ i # q
      BY <1>1, <2>2, <2>5, ParentIsAbove
    <3>2. h[q \div 2] = heap[q \div 2] /\ heap[q \div 2] <= heap[q]
      BY <1>1, <2>2, <2>3, <2>5, <3>1
    <3>3. CASE i = p
      BY <2>3, <3>2, <3>3
    <3>4. CASE i # p
      <4>1. h[i] = heap[i] /\ heap[q] <= heap[i]
        <5>1. heap[i \div 2] <= heap[i]
          BY <1>1, <3>4
        <5>2. h[i] = heap[i]
          BY <1>1, <2>3, <3>1, <3>4
        <5> QED
          BY <2>5, <5>1, <5>2
      <4>2. q \in 1..n /\ i \in 1..n /\ q \div 2 \in 1..n
        BY <1>1, <2>2, <3>1
      <4> QED
        BY <1>1, <3>2, <4>1, <4>2
    <3> QED
      BY <3>3, <3>4
  <2> QED
    BY <1>1, <2>1, <2>2, <2>3, <2>4, <2>5
    DEF HeapInv, HeapTypeOK, HeapOrdered, UpInv, DownInv, SettledAround
<1>3. CASE ~(q > 0 /\ heap[p] < heap[q])
  <2>1. UNCHANGED <<heap, curPos>> /\ sift' = "none"
    BY <1>3 DEF SiftUp
  <2>2. p >= 2 => q \in 1..n /\ heap[q] <= heap[p]
    BY <1>1, <1>3
  <2>3. \A i \in 2..n : heap[i \div 2] <= heap[i]
    BY <1>1, <2>2
  <2> QED
    BY <1>1, <2>1, <2>3 DEF HeapInv, HeapTypeOK, HeapOrdered, UpInv, DownInv
<1> QED
  BY <1>2, <1>3

(* The children of a place are 2 i and 2 i + 1; LesserChild picks one that *)
(* the item and both children are no less than.                            *)
LEMMA LeastOfThree ==
  ASSUME NEW l \in Seq(Costs), NEW p \in 1..Len(l)
  PROVE  LET m == LesserChild(l, p)
         IN /\ m = p \/ (m \in p + 1..Len(l) /\ m \div 2 = p /\ l[m] < l[p])
            /\ l[m] <= l[p]
            /\ \A i \in 2..Len(l) : i \div 2 = p => l[m] <= l[i]
<1>1. \A i \in 1..Len(l) : l[i] \in Int
  BY ItemsAreNumbers
<1>2. p \in Nat \ {0} /\ Len(l) \in Nat
  OBVIOUS
<1>3. \A i \in 2..Len(l) : i \div 2 = p => i = 2 * p \/ i = 2 * p + 1
  BY <1>2
<1>4. (2 * p) \div 2 = p /\ (2 * p + 1) \div 2 = p
  BY <1>2
<1>5. 2 * p \in p + 1..2 * p /\ 2 * p + 1 \in p + 1..2 * p + 1
  BY <1>2
<1> DEFINE m == IF 2 * p <= Len(l) /\ l[p] > l[2 * p] THEN 2 * p ELSE p
           r == IF 2 * p + 1 <= Len(l) /\ l[m] > l[2 * p + 1] THEN 2 * p + 1 ELSE m
<1>6. LesserChild(l, p) = r
  BY DEF LesserChild
<1>7. /\ m = p \/ (m = 2 * p /\ m <= Len(l) /\ l[m] < l[p])
      /\ m \in 1..Len(l)
      /\ l[m] <= l[p] /\ (2 * p <= Len(l) => l[m] <= l[2 * p])
  BY <1>1, <1>2
<1>8. /\ r = m \/ (r = 2 * p + 1 /\ r <= Len(l) /\ l[r] < l[m])
      /\ r \in 1..Len(l)
      /\ l[r] <= l[m] /\ (2 * p + 1 <= Len(l) => l[r] <= l[2 * p + 1])
  BY <1>1, <1>2, <1>7
<1> HIDE DEF m, r
<1>9. l[r] <= l[p] /\ (2 * p <= Len(l) => l[r] <= l[2 * p])
  BY <1>1, <1>2, <1>7, <1>8
<1>10. r = p \/ (r \in {2 * p, 2 * p + 1} /\ r <= Len(l) /\ l[r] < l[p])
  BY <1>1, <1>2, <1>7, <1>8
<1>11. \A i \in 2..Len(l) : i \div 2 = p => l[r] <= l[i]
  BY <1>3, <1>8, <1>9
<1> QED
  BY <1>2, <1>4, <1>5, <1>6, <1>9, <1>10, <1>11

(* The turns of the loop of heappopArray.                                  *)
LEMMA SiftDownKeeps ==
  ASSUME HeapInv, SiftDown
  PROVE  HeapInv'
<1> DEFINE p == curPos
           n == Len(heap)
           m == LesserChild(heap, curPos)
<1>1. /\ heap \in Seq(Costs) /\ p \in Nat \ {0} /\ n \in Nat
      /\ \A i \in 1..n : heap[i] \in Int
      /\ \A i \in 2..n : i \div 2 # p => heap[i \div 2] <= heap[i]
      /\ \A i \in 2..n : i \div 2 = p /\ p > 1 => heap[p \div 2] <= heap[i]
      /\ p > 1 => p <= n
  <2>1. heap \in Seq(Costs) /\ p \in Nat \ {0} /\ n \in Nat /\ DownInv /\ sift = "down"
    BY DEF SiftDown, HeapInv, HeapTypeOK
  <2>2. \A i \in 1..n : heap[i] \in Int
    BY <2>1, ItemsAreNumbers
  <2> QED
    BY <2>1, <2>2 DEF DownInv, SettledAround
<1>2. CASE p <= n /\ m # p
  <2> DEFINE h == Swap(heap, p, m)
  <2>1. heap' = h /\ curPos' = m /\ sift' = "down"
    BY <1>2 DEF SiftDown
  <2>2. /\ p \in 1..n /\ m \in p + 1..n /\ m \div 2 = p /\ heap[m] < heap[p]
        /\ \A i \in 2..n : i \div 2 = p => heap[m] <= heap[i]
    BY <1>1, <1>2, LeastOfThree
  <2>3. m \in 2..n /\ p \in 1..n /\ m # p
    BY <1>1, <2>2
  <2>4. /\ h \in Seq(Costs) /\ Len(h) = n /\ h[p] = heap[m] /\ h[m] = heap[p]
        /\ \A k \in 1..n : k # p /\ k # m => h[k] = heap[k]
    <3> HIDE DEF m
    <3> QED
      BY <1>1, <2>3, SwapItems
  <2> HIDE DEF h, m
  <2>5. ASSUME NEW i \in 2..n, i \div 2 # m PROVE h[i \div 2] <= h[i]
    <3>1. i \div 2 \in 1..n /\ i \div 2 # i /\ i \in 1..n
      BY <1>1, ParentIsAbove
    <3>2. CASE i = m
      BY <1>1, <2>2, <2>3, <2>4, <3>2
    <3>3. CASE i = p
      <4>1. h[i \div 2] = heap[i \div 2] /\ heap[i \div 2] <= heap[m]
        BY <1>1, <2>2, <2>3, <2>4, <2>5, <3>1, <3>3
      <4> QED
        BY <2>4, <3>3, <4>1
    <3>4. CASE i # m /\ i # p
      <4>1. h[i] = heap[i]
        BY <2>4, <3>1, <3>4
      <4>2. CASE i \div 2 = p
        BY <2>2, <2>4, <4>1, <4>2
      <4>3. CASE i \div 2 # p
        BY <1>1, <2>4, <2>5, <3>1, <4>1, <4>3
      <4> QED
        BY <4>2, <4>3
    <3> QED
      BY <3>2, <3>3, <3>4
  <2>6. ASSUME NEW i \in 2..n, i \div 2 = m PROVE h[m \div 2] <= h[i]
    <3>1. i \in 1..n /\ i # m /\ i # p
      BY <1>1, <2>2, <2>3, <2>6, ParentIsAbove
    <3>2. h[i] = heap[i] /\ heap[m] <= heap[i]
      BY <1>1, <2>3, <2>4, <2>6, <3>1
    <3> QED
      BY <2>2, <2>4, <3>2
  <2> QED
    BY <1>1, <2>1, <2>3, <2>4, <2>5, <2>6
    DEF HeapInv, HeapTypeOK, HeapOrdered, UpInv, DownInv, SettledAround
<1>3. CASE ~(p <= n /\ m # p)
  <2>1. UNCHANGED <<heap, curPos>> /\ sift' = "none"
    BY <1>3 DEF SiftDown
  <2>2. ASSUME NEW i \in 2..n PROVE heap[i \div 2] <= heap[i]
    <3>1. i \div 2 \in 1..n
      BY <1>1, ParentIsAbove
    <3>2. CASE i \div 2 = p
      <4>1. p \in 1..n /\ m = p
        BY <1>1, <1>3, <3>1, <3>2
      <4> QED
        BY <1>1, <3>2, <4>1, LeastOfThree
    <3> QED
      BY <1>1, <3>2
  <2> QED
    BY <1>1, <2>1, <2>2 DEF HeapInv, HeapTypeOK, HeapOrdered, UpInv, DownInv
<1> QED
  BY <1>2, <1>3

LEMMA HeapPushKeeps ==
  ASSUME HeapInv, NEW c \in Costs, HeapPush(c)
  PROVE  HeapInv'
<1> DEFINE n == Len(heap)
<1>1. /\ heap \in Seq(Costs) /\ n \in Nat
      /\ \A i \in 2..n : heap[i \div 2] <= heap[i]
      /\ heap' = Append(heap, c) /\ curPos' = n + 1 /\ sift' = "up"
  BY DEF HeapPush, HeapInv, HeapTypeOK, HeapOrdered
<1>2. /\ heap' \in Seq(Costs) /\ Len(heap') = n + 1
      /\ \A i \in 1..n : heap'[i] = heap[i]
  BY <1>1
<1>3. ASSUME NEW i \in 2..n + 1, i # n + 1 PROVE heap'[i \div 2] <= heap'[i]
  <2>1. i \in 2..n /\ i \in 1..n /\ i \div 2 \in 1..n
    BY <1>1, <1>3, ParentIsAbove
  <2> QED
    BY <1>1, <1>2, <2>1
<1>4. \A i \in 2..n + 1 : i \div 2 # n + 1
  BY <1>1, ParentIsAbove
<1> QED
  BY <1>1, <1>2, <1>3, <1>4
  DEF HeapInv, HeapTypeOK, HeapOrdered, UpInv, DownInv, SettledAround

LEMMA HeapPopKeeps ==
  ASSUME HeapInv, HeapPop
  PROVE  HeapInv'
<1> DEFINE n == Len(heap)
<1>1. /\ heap \in Seq(Costs) /\ n \in Nat \ {0}
      /\ \A i \in 2..n : heap[i \div 2] <= heap[i]
      /\ heap' = [i \in 1..n - 1 |-> IF i = 1 THEN heap[n] ELSE heap[i]]
      /\ curPos' = 1 /\ sift' = "down"
  BY DEF HeapPop, HeapInv, HeapTypeOK, HeapOrdered
<1>2. heap' \in Seq(Costs) /\ Len(heap') = n - 1
  BY <1>1
<1>3. ASSUME NEW i \in 2..n - 1, i \div 2 # 1 PROVE heap'[i \div 2] <= heap'[i]
  <2>1. i \in 2..n /\ i \in 1..n - 1 /\ i \div 2 \in 1..n - 1
    BY <1>1, <1>3, ParentIsAbove
  <2> QED
    BY <1>1, <1>3, <2>1
<1> QED
  BY <1>1, <1>2, <1>3
  DEF HeapInv, HeapTypeOK, HeapOrdered, UpInv, DownInv, SettledAround

(* Between two calls of heappushArray and heappopArray (heapq.lua:54-103)  *)
(* no item of the heap costs less than its parent, whatever was pushed and *)
(* popped before.                                                          *)
THEOREM HeapStaysOrdered == HeapSpec => []HeapInv
<1>1. HeapInit => HeapInv
  BY DEF HeapInit, HeapInv, HeapTypeOK, HeapOrdered, UpInv, DownInv
<1>2. HeapInv /\ [HeapNext]_heapVars => HeapInv'
  <2> SUFFICES ASSUME HeapInv, [HeapNext]_heapVars PROVE HeapInv'
    OBVIOUS
  <2>1. CASE UNCHANGED heapVars
    BY <2>1 DEF heapVars, HeapInv, HeapTypeOK, HeapOrdered, UpInv, DownInv, SettledAround
  <2> QED
    BY <2>1, HeapPushKeeps, SiftUpKeeps, HeapPopKeeps, SiftDownKeeps DEF HeapNext
<1> QED
  BY <1>1, <1>2, PTL DEF HeapSpec

-----------------------------------------------------------------------------
(* How many items cost c, and where they are.                              *)
Places(l, c) == {i \in DOMAIN l : l[i] = c}
HowMany(l, c) == Cardinality(Places(l, c))

LEMMA PlacesFinite ==
  ASSUME NEW l \in Seq(Costs), NEW c
  PROVE  /\ IsFiniteSet(Places(l, c)) /\ HowMany(l, c) \in Nat
         /\ Places(l, c) \subseteq 1..Len(l)
         /\ HowMany(l, c) > 0 <=> \E i \in 1..Len(l) : l[i] = c
<1>1. Places(l, c) \in SUBSET (1..Len(l)) /\ Len(l) \in Nat
  BY DEF Places
<1>2. IsFiniteSet(Places(l, c))
  <2>1. IsFiniteSet(1..Len(l))
    BY <1>1, FS_Interval
  <2> QED
    BY <1>1, <2>1, FS_Subset
<1>3. HowMany(l, c) \in Nat /\ (HowMany(l, c) = 0 <=> Places(l, c) = {})
  BY <1>2, FS_CardinalityType, FS_EmptySet DEF HowMany
<1>4. Places(l, c) # {} <=> \E i \in 1..Len(l) : l[i] = c
  BY DEF Places
<1> QED
  BY <1>1, <1>2, <1>3, <1>4

(* An exchange moves items and costs none.                                 *)
LEMMA SwapCounts ==
  ASSUME NEW l \in Seq(Costs), NEW i \in 1..Len(l), NEW j \in 1..Len(l), i # j, NEW c
  PROVE  HowMany(Swap(l, i, j), c) = HowMany(l, c)
<1> DEFINE s == Swap(l, i, j)
           S == Places(l, c)
           T == Places(s, c)
           move == [k \in S |-> IF k = i THEN j ELSE IF k = j THEN i ELSE k]
<1>1. /\ s \in Seq(Costs) /\ Len(s) = Len(l) /\ s[i] = l[j] /\ s[j] = l[i]
      /\ \A k \in 1..Len(l) : k # i /\ k # j => s[k] = l[k]
  BY SwapItems
<1> HIDE DEF s
<1>2. \A k \in 1..Len(l) : (k \in S <=> l[k] = c) /\ (k \in T <=> s[k] = c)
  BY <1>1 DEF Places
<1>3. S \subseteq 1..Len(l) /\ T \subseteq 1..Len(l) /\ IsFiniteSet(S)
  BY <1>1, PlacesFinite
<1> HIDE DEF S, T
<1>4. move \in [S -> T]
  BY <1>1, <1>2, <1>3
<1>5. \A a, b \in S : move[a] = move[b] => a = b
  BY <1>3
<1>6. ASSUME NEW t \in T PROVE \E k \in S : move[k] = t
  <2>1. CASE t = i
    BY <1>1, <1>2, <1>3, <2>1
  <2>2. CASE t = j
    BY <1>1, <1>2, <1>3, <2>2
  <2>3. CASE t # i /\ t # j
    BY <1>1, <1>2, <1>3, <2>3
  <2> QED
    BY <2>1, <2>2, <2>3
<1>7. ExistsBijection(S, T)
  BY <1>4, <1>5, <1>6, Fun_IsBij DEF ExistsBijection
<1>8. Cardinality(T) = Cardinality(S)
  BY <1>3, <1>7, FS_Bijection
<1> QED
  BY <1>8 DEF HowMany, S, T, s

LEMMA AppendCounts ==
  ASSUME NEW l \in Seq(Costs), NEW x \in Costs, NEW c
  PROVE  HowMany(Append(l, x), c) = IF c = x THEN HowMany(l, c) + 1 ELSE HowMany(l, c)
<1> DEFINE n == Len(l)
           a == Append(l, x)
<1>1. n \in Nat /\ DOMAIN l = 1..n /\ DOMAIN a = 1..n + 1 /\ a[n + 1] = x
      /\ \A i \in 1..n : a[i] = l[i]
  OBVIOUS
<1>2. n + 1 \notin Places(l, c) /\ IsFiniteSet(Places(l, c))
  <2>1. IsFiniteSet(Places(l, c)) /\ Places(l, c) \subseteq 1..n
    BY PlacesFinite
  <2> QED
    BY <1>1, <2>1
<1>3. CASE c = x
  <2>1. Places(a, c) = Places(l, c) \cup {n + 1}
    BY <1>1, <1>3 DEF Places
  <2> QED
    BY <1>2, <1>3, <2>1, FS_AddElement DEF HowMany
<1>4. CASE c # x
  <2>1. Places(a, c) = Places(l, c)
    BY <1>1, <1>4 DEF Places
  <2> QED
    BY <1>4, <2>1 DEF HowMany
<1> QED
  BY <1>3, <1>4

LEMMA Shorter ==
  ASSUME NEW n \in Nat, NEW k
  PROVE  k \in 2..n /\ k # n <=> k \in 1..n - 1 /\ k # 1
OBVIOUS

(* When the last item takes the place of the first, the first is gone.     *)
LEMMA PopCounts ==
  ASSUME NEW l \in Seq(Costs), l # <<>>, NEW c
  PROVE  LET r == [i \in 1..Len(l) - 1 |-> IF i = 1 THEN l[Len(l)] ELSE l[i]]
         IN HowMany(r, c) = IF c = l[1] THEN HowMany(l, c) - 1 ELSE HowMany(l, c)
<1> DEFINE n == Len(l)
           r == [i \in 1..n - 1 |-> IF i = 1 THEN l[n] ELSE l[i]]
           S == Places(l, c) \ {1}
           T == Places(r, c)
           move == [k \in S |-> IF k = n THEN 1 ELSE k]
<1>1. n \in Nat \ {0} /\ DOMAIN l = 1..n /\ DOMAIN r = 1..n - 1
  OBVIOUS
<1>2. \A k \in 1..n - 1 : r[k] = IF k = 1 THEN l[n] ELSE l[k]
  OBVIOUS
<1> HIDE DEF r
<1>3. /\ S \subseteq 2..n /\ \A k \in 2..n : k \in S <=> l[k] = c
      /\ T \subseteq 1..n - 1 /\ \A k \in 1..n - 1 : k \in T <=> r[k] = c
  BY <1>1 DEF Places
<1>4. /\ IsFiniteSet(Places(l, c)) /\ IsFiniteSet(S) /\ HowMany(l, c) \in Nat
      /\ Cardinality(S) = IF 1 \in Places(l, c) THEN HowMany(l, c) - 1 ELSE HowMany(l, c)
  BY PlacesFinite, FS_RemoveElement DEF HowMany
<1>5. 1 \in Places(l, c) <=> c = l[1]
  BY <1>1 DEF Places
<1> HIDE DEF S, T
<1>6. move \in [S -> T]
  <2>1. ASSUME NEW k \in S PROVE (IF k = n THEN 1 ELSE k) \in T
    <3>1. k \in 2..n /\ l[k] = c
      BY <1>3
    <3>2. CASE k = n
      <4>1. 1 \in 1..n - 1 /\ r[1] = c
        BY <1>1, <1>2, <3>1, <3>2
      <4> QED
        BY <1>3, <3>2, <4>1
    <3>3. CASE k # n
      <4>1. k \in 1..n - 1 /\ k # 1
        BY <1>1, <3>1, <3>3, Shorter
      <4>2. r[k] = c
        BY <1>2, <3>1, <4>1
      <4> QED
        BY <1>3, <3>3, <4>1, <4>2
    <3> QED
      BY <3>2, <3>3
  <2> QED
    BY <2>1
<1>7. ASSUME NEW a \in S, NEW b \in S, move[a] = move[b] PROVE a = b
  <2>1. a # 1 /\ b # 1
    BY <1>1, <1>3
  <2>2. move[a] = IF a = n THEN 1 ELSE a
    OBVIOUS
  <2>3. move[b] = IF b = n THEN 1 ELSE b
    OBVIOUS
  <2> QED
    BY <1>7, <2>1, <2>2, <2>3
<1>8. ASSUME NEW t \in T PROVE \E k \in S : move[k] = t
  <2>1. CASE t = 1
    <3>1. n \in S
      BY <1>1, <1>2, <1>3, <2>1
    <3> QED
      BY <2>1, <3>1
  <2>2. CASE t # 1
    <3>1. t \in 1..n - 1 /\ r[t] = c
      BY <1>3
    <3>2. t \in 2..n /\ t # n
      BY <1>1, <2>2, <3>1, Shorter
    <3>3. l[t] = c
      BY <1>2, <2>2, <3>1
    <3>4. t \in S /\ t # n
      BY <1>3, <3>2, <3>3
    <3> QED
      BY <3>4
  <2> QED
    BY <2>1, <2>2
<1>9. ExistsBijection(S, T)
  BY <1>6, <1>7, <1>8, Fun_IsBij DEF ExistsBijection
<1>10. Cardinality(T) = Cardinality(S)
  BY <1>4, <1>9, FS_Bijection
<1> QED
  BY <1>4, <1>5, <1>10 DEF HowMany, T, r

(* Whatever is pushed and popped, heappopArray returns an item of least    *)
(* cost that was pushed and not yet returned (heapq.lua:54-103).           *)
THEOREM HeapImplementsQueue == HeapSpec => QueueKept
<1> DEFINE queued == [c \in Costs |-> HowMany(heap, c)]
<1>1. queued = [c \in Costs |-> Cardinality({i \in DOMAIN heap : heap[i] = c})]
  BY DEF HowMany, Places
<1>2. HeapInit => Queue!PQInit
  <2> SUFFICES ASSUME HeapInit PROVE Queue!PQInit
    OBVIOUS
  <2>1. heap \in Seq(Costs) /\ Len(heap) = 0 /\ popped = {}
    BY DEF HeapInit
  <2>2. \A c \in Costs : HowMany(heap, c) = 0
    <3>1. ~\E i \in 1..Len(heap) : TRUE
      BY <2>1
    <3>2. \A c \in Costs : HowMany(heap, c) \in Nat /\ ~(HowMany(heap, c) > 0)
      BY <2>1, <3>1, PlacesFinite
    <3> QED
      BY <3>2
  <2> QED
    BY <1>1, <2>1, <2>2 DEF Queue!PQInit
<1>3. HeapInv /\ [HeapNext]_heapVars => [Queue!PQNext]_<<queued, popped>>
  <2> SUFFICES ASSUME HeapInv, [HeapNext]_heapVars
               PROVE  [Queue!PQNext]_<<queued, popped>>
    OBVIOUS
  <2>1. heap \in Seq(Costs) /\ curPos \in Nat \ {0}
    BY DEF HeapInv, HeapTypeOK
  <2>2. ASSUME NEW c \in Costs, HeapPush(c) PROVE Queue!Put(c)
    <3>1. heap' = Append(heap, c) /\ popped' = popped
      BY <2>2 DEF HeapPush
    <3>2. \A d \in Costs : HowMany(heap', d) = IF d = c THEN HowMany(heap, d) + 1 ELSE HowMany(heap, d)
      BY <2>1, <3>1, AppendCounts
    <3>3. queued' = [queued EXCEPT ![c] = @ + 1]
      BY <3>2
    <3> QED
      BY <1>1, <3>1, <3>3 DEF Queue!Put, HowMany, Places
  <2>3. ASSUME HeapPop PROVE Queue!TakeLeast(heap[1]) /\ heap[1] \in Costs
    <3>1. /\ heap # <<>> /\ popped' = {heap[1]} /\ 1 \in 1..Len(heap) /\ heap[1] \in Costs
          /\ heap' = [i \in 1..Len(heap) - 1 |-> IF i = 1 THEN heap[Len(heap)] ELSE heap[i]]
          /\ \A i \in 2..Len(heap) : heap[i \div 2] <= heap[i]
      BY <2>1, <2>3 DEF HeapPop, HeapInv, HeapOrdered
    <3>2. heap \in Seq(Int)
      <4>1. \A i \in 1..Len(heap) : heap[i] \in Int
        BY <2>1, ItemsAreNumbers
      <4> QED
        BY <2>1, <4>1
    <3>3. \A i \in 1..Len(heap) : heap[1] <= heap[i]
      BY <3>1, <3>2, RootIsLeast
    <3>4. HowMany(heap, heap[1]) > 0
      BY <2>1, <3>1, PlacesFinite
    <3>5. \A d \in Costs : HowMany(heap, d) > 0 => heap[1] <= d
      BY <2>1, <3>3, PlacesFinite
    <3>6. \A d \in Costs : HowMany(heap', d) = IF d = heap[1] THEN HowMany(heap, d) - 1
                                             ELSE HowMany(heap, d)
      BY <2>1, <3>1, PopCounts
    <3>7. queued' = [queued EXCEPT ![heap[1]] = @ - 1]
      BY <3>1, <3>6
    <3> QED
      BY <1>1, <3>1, <3>4, <3>5, <3>7 DEF Queue!TakeLeast, HowMany, Places
  <2>4. CASE SiftUp
    <3>1. \A d \in Costs : HowMany(heap', d) = HowMany(heap, d)
      <4>1. CASE heap' = heap
        BY <4>1
      <4>2. CASE heap' # heap
        <5>1. heap' = Swap(heap, curPos, curPos \div 2) /\ curPos \div 2 > 0 /\ curPos <= Len(heap)
          BY <2>4, <4>2 DEF SiftUp, HeapInv, UpInv
        <5>2. curPos >= 2 /\ curPos \in 1..Len(heap) /\ curPos \div 2 \in 1..Len(heap)
              /\ curPos # curPos \div 2
          BY <2>1, <5>1, ParentIsAbove
        <5> QED
          BY <2>1, <5>1, <5>2, SwapCounts
      <4> QED
        BY <4>1, <4>2
    <3> QED
      BY <2>4, <3>1 DEF SiftUp
  <2>5. CASE SiftDown
    <3> DEFINE m == LesserChild(heap, curPos)
    <3>1. \A d \in Costs : HowMany(heap', d) = HowMany(heap, d)
      <4>1. CASE heap' = heap
        BY <4>1
      <4>2. CASE heap' # heap
        <5>1. heap' = Swap(heap, curPos, m) /\ curPos <= Len(heap) /\ m # curPos
          BY <2>5, <4>2 DEF SiftDown
        <5>2. curPos \in 1..Len(heap)
          BY <2>1, <5>1
        <5>3. m \in 1..Len(heap)
          BY <2>1, <5>1, <5>2, LeastOfThree
        <5> HIDE DEF m
        <5> QED
          BY <2>1, <5>1, <5>2, <5>3, SwapCounts
      <4> QED
        BY <4>1, <4>2
    <3> QED
      BY <2>5, <3>1 DEF SiftDown
  <2>6. CASE UNCHANGED heapVars
    BY <2>6 DEF heapVars
  <2> QED
    BY <2>2, <2>3, <2>4, <2>5, <2>6 DEF HeapNext, Queue!PQNext
<1>4. HeapSpec => []HeapInv
  BY HeapStaysOrdered
<1>5. [Queue!PQNext]_<<queued, popped>> <=>
      [Queue!PQNext]_<<[c \in Costs |-> Cardinality({i \in DOMAIN heap : heap[i] = c})], popped>>
  BY DEF HowMany, Places
<1> QED
  BY <1>2, <1>3, <1>4, <1>5, PTL DEF HeapSpec, QueueKept, Queue!PQSpec

-----------------------------------------------------------------------------
(* The cells. *)

\* Quotient and remainder.
LEMMA Divided ==
  ASSUME NEW a \in Int, NEW b \in Nat \ {0}
  PROVE  \E q \in Int, r \in 0..(b - 1) : a = q * b + r /\ q = a \div b /\ r = a % b
<1> DEFINE q == a \div b
           r == a % b
<1>1. r \in 0..(b - 1) /\ q \in Int /\ a = q * b + r
  OBVIOUS
<1>2. q = a \div b /\ r = a % b
  OBVIOUS
<1> HIDE DEF q, r
<1> QED
  BY <1>1, <1>2

(* Quotient and remainder are unique. *)
LEMMA DividedOnce ==
  ASSUME NEW b \in Nat \ {0}, NEW q \in Int, NEW p \in Int,
         NEW r \in 0..(b - 1), NEW s \in 0..(b - 1), q * b + r = p * b + s
  PROVE  q = p /\ r = s
<1>1. (q - p) * b = s - r
  OBVIOUS
<1>2. q - p = 0
  <2>1. CASE q - p >= 1
    <3>1. (q - p) * b >= b
      BY <2>1
    <3> QED
      BY <3>1, <1>1
  <2>2. CASE q - p <= -1
    <3>1. (q - p) * b <= -b
      BY <2>2
    <3> QED
      BY <3>1, <1>1
  <2> QED
    BY <2>1, <2>2
<1> QED
  BY <1>2

\* A multiple is divided without remainder.
LEMMA DividesExactly ==
  ASSUME NEW b \in Nat \ {0}, NEW q \in Int
  PROVE  (q * b) \div b = q
<1>1. q * b \in Int
  OBVIOUS
<1>2. PICK a : a = q * b
  OBVIOUS
<1>3. PICK p \in Int, s \in 0..(b - 1) : a = p * b + s /\ p = a \div b
  BY <1>1, <1>2, Divided
<1>4. 0 \in 0..(b - 1) /\ q * b + 0 = p * b + s
  BY <1>1, <1>2, <1>3
<1>5. q = p
  BY <1>4, DividedOnce
<1> QED
  BY <1>2, <1>3, <1>5

Last == astarSize - 1

\* getAstarXY and the key of a place are inverse to each other.
LEMMA CellFacts ==
  /\ Last \in Nat /\ Last >= 2 /\ astarSize = Last + 1
  /\ \A k \in Area : /\ k \in Int /\ X(k) \in 0..Last /\ Y(k) \in 0..Last
                     /\ k = X(k) + astarSize * Y(k) + 1
  /\ \A x \in 0..Last, y \in 0..Last :
       LET k == x + astarSize * y + 1 IN k \in Area /\ X(k) = x /\ Y(k) = y
<1>1. Last \in Nat /\ Last >= 2 /\ astarSize = Last + 1 /\ astarSize \in Nat \ {0}
  BY SearchAssumption DEF Last
<1>2. ASSUME NEW k \in Area
      PROVE  /\ k \in Int /\ X(k) \in 0..Last /\ Y(k) \in 0..Last
             /\ k = X(k) + astarSize * Y(k) + 1
  <2>1. k \in Int /\ k - 1 \in Int /\ k - 1 >= 0 /\ k - 1 < astarSize * astarSize
    BY <1>1 DEF Area
  <2>2. PICK q \in Int, r \in 0..(astarSize - 1) :
          k - 1 = q * astarSize + r /\ q = (k - 1) \div astarSize /\ r = (k - 1) % astarSize
    BY <1>1, <2>1, Divided
  <2>3. q >= 0
    <3>1. q <= -1 => q * astarSize <= -astarSize
      BY <1>1
    <3> QED
      BY <1>1, <2>1, <2>2, <3>1
  <2>4. q <= astarSize - 1
    <3>1. q >= astarSize => q * astarSize >= astarSize * astarSize
      BY <1>1
    <3> QED
      BY <1>1, <2>1, <2>2, <3>1
  <2>5. X(k) = r /\ Y(k) = q
    BY <2>2 DEF X, Y
  <2>6. q * astarSize = astarSize * q
    BY <1>1
  <2> QED
    BY <1>1, <2>1, <2>2, <2>3, <2>4, <2>5, <2>6 DEF Last
<1>3. ASSUME NEW x \in 0..Last, NEW y \in 0..Last
      PROVE  LET k == x + astarSize * y + 1 IN k \in Area /\ X(k) = x /\ Y(k) = y
  <2> DEFINE k == x + astarSize * y + 1
  <2>1. astarSize * y \in Int /\ astarSize * y >= 0 /\ astarSize * y = y * astarSize
        /\ astarSize * y + astarSize <= astarSize * astarSize
    <3>1. y + 1 <= astarSize /\ y \in Nat
      BY <1>1
    <3>2. astarSize * (y + 1) <= astarSize * astarSize
      BY <1>1, <3>1
    <3>3. astarSize * (y + 1) = astarSize * y + astarSize
      BY <1>1, <3>1
    <3>4. astarSize * y \in Int /\ astarSize * y >= 0 /\ astarSize * y = y * astarSize
      BY <1>1, <3>1
    <3> QED
      BY <3>2, <3>3, <3>4
  <2>2. k \in Area /\ k - 1 = y * astarSize + x /\ k - 1 \in Int /\ x \in 0..(astarSize - 1)
        /\ y \in Int
    BY <1>1, <2>1 DEF Area
  <2> HIDE DEF k
  <2>3. PICK q \in Int, r \in 0..(astarSize - 1) :
          k - 1 = q * astarSize + r /\ q = (k - 1) \div astarSize /\ r = (k - 1) % astarSize
    BY <1>1, <2>2, Divided
  <2>4. q = y /\ r = x
    <3>1. astarSize \in Nat \ {0} /\ x \in 0..(astarSize - 1) /\ y * astarSize + x = q * astarSize + r
            /\ r \in 0..(astarSize - 1) /\ y \in Int /\ q \in Int
      BY <1>1, <2>2, <2>3
    <3> QED
      BY <3>1, DividedOnce
  <2>5. X(k) = x /\ Y(k) = y
    BY <2>3, <2>4 DEF X, Y
  <2> QED
    BY <2>2, <2>5 DEF k
<1> QED
  BY <1>1, <1>2, <1>3

(* One step of a soldier, in any of the eight directions. *)
Aside(a, b) == a - b \in {-1, 0, 1}
Adjacent(k, m) == k # m /\ Aside(X(m), X(k)) /\ Aside(Y(m), Y(k))

(* The cell at a distance. *)
Units == {-1, 0, 1}

LEMMA CellAt ==
  ASSUME NEW k \in Area, NEW dx \in Units, NEW dy \in Units,
         X(k) + dx \in 0..Last, Y(k) + dy \in 0..Last,
         NEW m, m = k + dx + astarSize * dy
  PROVE  m \in Area /\ X(m) = X(k) + dx /\ Y(m) = Y(k) + dy
<1> DEFINE x == X(k) + dx
           y == Y(k) + dy
<1>1. /\ k \in Int /\ X(k) \in Int /\ Y(k) \in Int /\ k = X(k) + astarSize * Y(k) + 1
      /\ astarSize \in Int
  BY CellFacts
<1>0. dx \in Int /\ dy \in Int
  BY DEF Units
<1>2. astarSize * y = astarSize * Y(k) + astarSize * dy
  BY <1>0, <1>1
<1>3. astarSize * Y(k) \in Int /\ astarSize * dy \in Int
  BY <1>0, <1>1
<1>4. x + astarSize * y + 1 = k + dx + astarSize * dy
  BY <1>0, <1>1, <1>2, <1>3
<1>5. LET z == x + astarSize * y + 1 IN z \in Area /\ X(z) = x /\ Y(z) = y
  BY CellFacts
<1> QED
  BY <1>4, <1>5

(* Two cells differ by what their places differ. *)
LEMMA CellsApart ==
  ASSUME NEW k \in Area, NEW m \in Area
  PROVE  /\ m - k = (X(m) - X(k)) + astarSize * (Y(m) - Y(k))
         /\ X(m) - X(k) \in Int /\ Y(m) - Y(k) \in Int
<1>1. /\ k \in Int /\ X(k) \in Int /\ Y(k) \in Int /\ k = X(k) + astarSize * Y(k) + 1
      /\ m \in Int /\ X(m) \in Int /\ Y(m) \in Int /\ m = X(m) + astarSize * Y(m) + 1
      /\ astarSize \in Int
  BY CellFacts
<1>2. astarSize * (Y(m) - Y(k)) = astarSize * Y(m) - astarSize * Y(k)
  BY <1>1
<1>3. astarSize * Y(k) \in Int /\ astarSize * Y(m) \in Int
  BY <1>1
<1> QED
  BY <1>1, <1>2, <1>3

\* Two cells side by side are side by side both ways, and differ in a coordinate.
LEMMA AdjacentFacts ==
  /\ \A k, m \in Area : Adjacent(k, m) => Adjacent(m, k)
  /\ \A k, m \in Area : Adjacent(k, m) => X(m) # X(k) \/ Y(m) # Y(k)
<1>1. ASSUME NEW k \in Area, NEW m \in Area, Adjacent(k, m) PROVE Adjacent(m, k)
  <2>1. X(k) \in Int /\ X(m) \in Int /\ Y(k) \in Int /\ Y(m) \in Int
    BY CellFacts
  <2>2. X(k) - X(m) = -(X(m) - X(k)) /\ Y(k) - Y(m) = -(Y(m) - Y(k))
    BY <2>1
  <2>3. m # k /\ X(m) - X(k) \in {-1, 0, 1} /\ Y(m) - Y(k) \in {-1, 0, 1}
    BY <1>1 DEF Adjacent, Aside
  <2>4. X(k) - X(m) \in {-1, 0, 1} /\ Y(k) - Y(m) \in {-1, 0, 1}
    BY <2>2, <2>3
  <2> QED
    BY <2>3, <2>4 DEF Adjacent, Aside
<1>2. ASSUME NEW k \in Area, NEW m \in Area, Adjacent(k, m), X(m) = X(k), Y(m) = Y(k) PROVE FALSE
  <2>1. k = m
    BY <1>2, CellFacts
  <2> QED
    BY <1>2, <2>1 DEF Adjacent
<1> QED
  BY <1>1, <1>2

(* The twelve entries of the table, which goes round once and a half. *)
Step(i) == Directions[((i - 1) % 8) + 1]
LEMMA Steps ==
  /\ Step(1) = <<-1,-1,14>> /\ Step(2) = <<0,-1,10>> /\ Step(3) = <<1,-1,14>>
  /\ Step(4) = <<1,0,10>> /\ Step(5) = <<1,1,14>> /\ Step(6) = <<0,1,10>>
  /\ Step(7) = <<-1,1,14>> /\ Step(8) = <<-1,0,10>> /\ Step(9) = <<-1,-1,14>>
  /\ Step(10) = <<0,-1,10>> /\ Step(11) = <<1,-1,14>> /\ Step(12) = <<1,0,10>>
<1>1. /\ \A i \in 1..8 : ((i - 1) % 8) + 1 = i
      /\ \A i \in 9..12 : ((i - 1) % 8) + 1 = i - 8
  OBVIOUS
<1> QED
  BY <1>1 DEF Step, Directions

\* The neighbours by the table.
LEMMA NearIs == \A k, s : s \in Near(k) <=>
    \E i \in Edge(k) : s = <<k + Step(i)[1] + astarSize * Step(i)[2], Step(i)[3]>>
BY DEF Near, Step

(* On and beside the border checkAstarNeibor leaves the map in no direction,    *)
(* and it leaves out none that stays on it.                                     *)
LEMMA EdgeFacts ==
  ASSUME NEW k \in Area
  PROVE  /\ \A i \in Edge(k) : /\ i \in 1..12
                               /\ Step(i)[1] \in {-1, 0, 1} /\ Step(i)[2] \in {-1, 0, 1}
                               /\ Step(i)[1] # 0 \/ Step(i)[2] # 0
                               /\ X(k) + Step(i)[1] \in 0..Last /\ Y(k) + Step(i)[2] \in 0..Last
         /\ \A dx, dy \in {-1, 0, 1} :
              /\ dx # 0 \/ dy # 0
              /\ X(k) + dx \in 0..Last /\ Y(k) + dy \in 0..Last
              => \E i \in Edge(k) : Step(i)[1] = dx /\ Step(i)[2] = dy
<1>1. X(k) \in 0..Last /\ Y(k) \in 0..Last /\ Last \in Nat /\ Last >= 2 /\ Last = astarSize - 1
      /\ 0 # Last
  BY CellFacts DEF Last
<1> DEFINE inner == 1..Last - 1
<1>2. Edge(k) = CASE X(k) = 0 /\ Y(k) = 0            -> 4..6
                  [] X(k) = Last /\ Y(k) = 0         -> 6..8
                  [] X(k) = Last /\ Y(k) = Last      -> 8..10
                  [] X(k) = 0 /\ Y(k) = Last         -> 2..4
                  [] X(k) = 0 /\ Y(k) \in inner      -> 2..6
                  [] X(k) \in inner /\ Y(k) = 0      -> 4..8
                  [] X(k) = Last /\ Y(k) \in inner   -> 6..10
                  [] X(k) \in inner /\ Y(k) = Last   -> 8..12
                  [] X(k) \in inner /\ Y(k) \in inner -> 1..8
  BY <1>1 DEF Edge
<1> DEFINE Good(E) ==
         /\ \A i \in E : /\ i \in 1..12
                         /\ Step(i)[1] \in {-1, 0, 1} /\ Step(i)[2] \in {-1, 0, 1}
                         /\ Step(i)[1] # 0 \/ Step(i)[2] # 0
                         /\ X(k) + Step(i)[1] \in 0..Last /\ Y(k) + Step(i)[2] \in 0..Last
         /\ \A dx, dy \in {-1, 0, 1} :
              /\ dx # 0 \/ dy # 0
              /\ X(k) + dx \in 0..Last /\ Y(k) + dy \in 0..Last
              => \E i \in E : Step(i)[1] = dx /\ Step(i)[2] = dy
<1> SUFFICES Good(Edge(k))
  OBVIOUS
<1>3. CASE X(k) = 0 /\ Y(k) = 0
  <2>1. Edge(k) = {4, 5, 6}
    <3>1. Edge(k) = 4..6
      BY <1>1, <1>2, <1>3
    <3>2. 4..6 = {4, 5, 6}
      OBVIOUS
    <3> QED
      BY <3>1, <3>2
  <2>2. Good({4, 5, 6})
    BY <1>1, <1>3, Steps
  <2> QED
    BY <2>1, <2>2
<1>4. CASE X(k) = Last /\ Y(k) = 0
  <2>1. Edge(k) = {6, 7, 8}
    <3>1. Edge(k) = 6..8
      BY <1>1, <1>2, <1>4
    <3>2. 6..8 = {6, 7, 8}
      OBVIOUS
    <3> QED
      BY <3>1, <3>2
  <2>2. Good({6, 7, 8})
    BY <1>1, <1>4, Steps
  <2> QED
    BY <2>1, <2>2
<1>5. CASE X(k) = Last /\ Y(k) = Last
  <2>1. Edge(k) = {8, 9, 10}
    <3>1. Edge(k) = 8..10
      BY <1>1, <1>2, <1>5
    <3>2. 8..10 = {8, 9, 10}
      OBVIOUS
    <3> QED
      BY <3>1, <3>2
  <2>2. Good({8, 9, 10})
    BY <1>1, <1>5, Steps
  <2> QED
    BY <2>1, <2>2
<1>6. CASE X(k) = 0 /\ Y(k) = Last
  <2>1. Edge(k) = {2, 3, 4}
    <3>1. Edge(k) = 2..4
      BY <1>1, <1>2, <1>6
    <3>2. 2..4 = {2, 3, 4}
      OBVIOUS
    <3> QED
      BY <3>1, <3>2
  <2>2. Good({2, 3, 4})
    BY <1>1, <1>6, Steps
  <2> QED
    BY <2>1, <2>2
<1>7. CASE X(k) = 0 /\ Y(k) \in inner
  <2>1. Edge(k) = {2, 3, 4, 5, 6}
    BY <1>1, <1>2, <1>7
  <2>2. Good({2, 3, 4, 5, 6})
    BY <1>1, <1>7, Steps
  <2> QED
    BY <2>1, <2>2
<1>8. CASE Y(k) = 0 /\ X(k) \in inner
  <2>1. Edge(k) = {4, 5, 6, 7, 8}
    BY <1>1, <1>2, <1>8
  <2>2. Good({4, 5, 6, 7, 8})
    BY <1>1, <1>8, Steps
  <2> QED
    BY <2>1, <2>2
<1>9. CASE X(k) = Last /\ Y(k) \in inner
  <2>1. Edge(k) = {6, 7, 8, 9, 10}
    BY <1>1, <1>2, <1>9
  <2>2. Good({6, 7, 8, 9, 10})
    BY <1>1, <1>9, Steps
  <2> QED
    BY <2>1, <2>2
<1>10. CASE Y(k) = Last /\ X(k) \in inner
  <2>1. Edge(k) = {8, 9, 10, 11, 12}
    BY <1>1, <1>2, <1>10
  <2>2. Good({8, 9, 10, 11, 12})
    BY <1>1, <1>10, Steps
  <2> QED
    BY <2>1, <2>2
<1>11. CASE X(k) \in inner /\ Y(k) \in inner
  <2>1. Edge(k) = {1, 2, 3, 4, 5, 6, 7, 8}
    BY <1>1, <1>2, <1>11
  <2>2. Good({1, 2, 3, 4, 5, 6, 7, 8})
    BY <1>1, <1>11, Steps
  <2> QED
    BY <2>1, <2>2
<1>12. /\ X(k) = 0 \/ X(k) = Last \/ X(k) \in inner
       /\ Y(k) = 0 \/ Y(k) = Last \/ Y(k) \in inner
  BY <1>1
<1> QED
  <2> HIDE DEF Good
  <2> QED
    BY <1>3, <1>4, <1>5, <1>6, <1>7, <1>8, <1>9, <1>10, <1>11, <1>12

(* The cells checkAstarNeibor looks at are the adjacent ones. *)
LEMMA NearFacts ==
  ASSUME NEW k \in Area
  PROVE  /\ \A s \in Near(k) : s[1] \in Area /\ Adjacent(k, s[1])
         /\ \A m \in Area : Adjacent(k, m) => \E s \in Near(k) : s[1] = m
<1>1. ASSUME NEW s \in Near(k) PROVE s[1] \in Area /\ Adjacent(k, s[1])
  <2>1. PICK i \in Edge(k) : s = <<k + Step(i)[1] + astarSize * Step(i)[2], Step(i)[3]>>
    BY NearIs
  <2>2. PICK dx \in {-1, 0, 1}, dy \in {-1, 0, 1} :
          /\ dx = Step(i)[1] /\ dy = Step(i)[2] /\ (dx # 0 \/ dy # 0)
          /\ X(k) + dx \in 0..Last /\ Y(k) + dy \in 0..Last
    BY EdgeFacts
  <2>3. PICK m : m = s[1]
    OBVIOUS
  <2>4. m \in Area /\ X(m) = X(k) + dx /\ Y(m) = Y(k) + dy
    <3>1. m = k + dx + astarSize * dy
      BY <2>1, <2>2, <2>3
    <3>2. dx \in Units /\ dy \in Units
      BY DEF Units
    <3> QED
      BY <2>2, <3>1, <3>2, CellAt
  <2>5. X(k) \in Int /\ Y(k) \in Int
    BY CellFacts
  <2>6. X(m) - X(k) = dx /\ Y(m) - Y(k) = dy
    BY <2>4, <2>5
  <2>7. k # m
    BY <2>2, <2>5, <2>6
  <2> QED
    BY <2>3, <2>4, <2>6, <2>7 DEF Adjacent, Aside
<1>2. ASSUME NEW m \in Area, Adjacent(k, m) PROVE \E s \in Near(k) : s[1] = m
  <2>1. PICK dx \in {-1, 0, 1}, dy \in {-1, 0, 1} : dx = X(m) - X(k) /\ dy = Y(m) - Y(k)
    BY <1>2 DEF Adjacent, Aside
  <2>2. X(k) + dx \in 0..Last /\ Y(k) + dy \in 0..Last
    <3>1. /\ X(k) \in Int /\ X(m) \in 0..Last /\ Y(k) \in Int /\ Y(m) \in 0..Last
          /\ Last \in Nat
      BY CellFacts
    <3>2. X(k) + dx = X(m) /\ Y(k) + dy = Y(m)
      BY <2>1, <3>1
    <3> QED
      BY <3>1, <3>2
  <2>3. dx # 0 \/ dy # 0
    BY <1>2, <2>1, AdjacentFacts, CellFacts
  <2>4. PICK i \in Edge(k) : Step(i)[1] = dx /\ Step(i)[2] = dy
    BY <2>2, <2>3, EdgeFacts
  <2> DEFINE s == <<k + Step(i)[1] + astarSize * Step(i)[2], Step(i)[3]>>
  <2>5. s \in Near(k)
    BY NearIs
  <2>6. m - k = dx + astarSize * dy /\ m \in Int /\ k \in Int
    BY <2>1, CellsApart, CellFacts
  <2>7. astarSize * dy \in Int
    BY CellFacts
  <2>8. s[1] = m
    BY <2>4, <2>6, <2>7
  <2> QED
    BY <2>5, <2>8
<1> QED
  BY <1>1, <1>2

-----------------------------------------------------------------------------
(* Ways. *)

\* A way of cells from k to the start st, which it meets at its end only.
Way(w, k, st) ==
  /\ w \in Seq(Area) /\ Len(w) >= 2 /\ w[1] = k /\ w[Len(w)] = st
  /\ \A i \in 1..Len(w) - 1 : w[i] # st /\ Adjacent(w[i], w[i + 1])

\* w goes on as it came at m.
EvenAt(w, m) == w[m] - w[m - 1] = w[m + 1] - w[m]

\* A difference of cells side by side tells in which direction.
LEMMA OneDirection ==
  ASSUME NEW dx \in {-1, 0, 1}, NEW dy \in {-1, 0, 1},
         NEW ex \in {-1, 0, 1}, NEW ey \in {-1, 0, 1},
         dx + astarSize * dy = ex + astarSize * ey
  PROVE  dx = ex /\ dy = ey
<1>1. astarSize \in Int /\ astarSize >= 3
  BY SearchAssumption
<1> QED
  BY <1>1

\* One step more of the same length.
LEMMA OneMore ==
  ASSUME NEW v \in Int, NEW u \in Int, NEW c \in Int, NEW t \in Int, NEW d \in Int,
         v - u = d, u = c + (t - 1) * d
  PROVE  v = c + t * d
<1>1. PICK p \in Int : p = (t - 1) * d
  OBVIOUS
<1>2. t * d = p + d
  BY <1>1
<1> QED
  BY <1>1, <1>2

\* Cells with the same difference all along lie on the straight way between
\* the first and the last.
LEMMA Leg ==
  ASSUME NEW w \in Seq(Area), NEW a \in 1..Len(w), NEW b \in 1..Len(w), a < b,
         \A m \in a..b - 1 : Adjacent(w[m], w[m + 1]),
         \A m \in a + 1..b - 1 : EvenAt(w, m)
  PROVE  /\ Straight(w[b], w[a]) # {}
         /\ Straight(w[b], w[a]) \subseteq {w[m] : m \in a..b - 1}
<1> DEFINE n == b - a
           d == w[a + 1] - w[a]
           dx == X(w[a + 1]) - X(w[a])
           dy == Y(w[a + 1]) - Y(w[a])
<1>1. /\ \A m \in a..b : /\ w[m] \in Area /\ w[m] \in Int /\ X(w[m]) \in Int /\ Y(w[m]) \in Int
      /\ astarSize \in Int /\ astarSize >= 3 /\ n \in Nat \ {0} /\ a + 1 \in a..b /\ a \in a..b
      /\ b \in a..b /\ b = a + n
  <2>1. Len(w) \in Nat
    OBVIOUS
  <2>2. \A m \in a..b : m \in 1..Len(w)
    BY <2>1
  <2>3. \A m \in a..b : w[m] \in Area
    BY <2>2
  <2>4. /\ astarSize \in Int /\ astarSize >= 3 /\ n \in Nat \ {0} /\ a + 1 \in a..b /\ a \in a..b
        /\ b \in a..b /\ b = a + n
    BY SearchAssumption
  <2> HIDE DEF n
  <2>5. \A k \in Area : k \in Int /\ X(k) \in Int /\ Y(k) \in Int
    BY CellFacts
  <2> QED
    BY <2>3, <2>4, <2>5
<1>2. \A m \in a..b - 1 :
        /\ m \in a..b /\ m + 1 \in a..b
        /\ X(w[m + 1]) - X(w[m]) \in {-1, 0, 1} /\ Y(w[m + 1]) - Y(w[m]) \in {-1, 0, 1}
        /\ w[m + 1] - w[m] = (X(w[m + 1]) - X(w[m])) + astarSize * (Y(w[m + 1]) - Y(w[m]))
  <2> TAKE m \in a..b - 1
  <2>1. m \in a..b /\ m + 1 \in a..b
    OBVIOUS
  <2>2. w[m] \in Area /\ w[m + 1] \in Area
    BY <1>1, <2>1
  <2>3. Adjacent(w[m], w[m + 1])
    OBVIOUS
  <2> QED
    BY <2>1, <2>2, <2>3, CellsApart DEF Adjacent, Aside
<1>3. /\ dx \in {-1, 0, 1} /\ dy \in {-1, 0, 1} /\ d = dx + astarSize * dy
      /\ d \in Int /\ (dx # 0 \/ dy # 0)
  <2>1. a \in a..b - 1 /\ w[a] \in Area /\ w[a + 1] \in Area
    BY <1>1
  <2>2. Adjacent(w[a], w[a + 1])
    BY <2>1
  <2>3. X(w[a + 1]) # X(w[a]) \/ Y(w[a + 1]) # Y(w[a])
    BY <2>1, <2>2, AdjacentFacts
  <2>4. d = dx + astarSize * dy /\ dx \in {-1, 0, 1} /\ dy \in {-1, 0, 1}
    BY <1>2, <2>1
  <2>5. w[a + 1] \in Int /\ w[a] \in Int /\ X(w[a + 1]) \in Int /\ X(w[a]) \in Int
        /\ Y(w[a + 1]) \in Int /\ Y(w[a]) \in Int
    BY <1>1
  <2>6. d \in Int /\ (dx # 0 \/ dy # 0)
    BY <2>3, <2>5
  <2> HIDE DEF d, dx, dy
  <2> QED
    BY <2>4, <2>6
<1> HIDE DEF n, d, dx, dy
<1>4. \A t \in 0..n - 1 : w[a + t + 1] - w[a + t] = d
  <2> DEFINE P == {t \in Nat : t \in 0..n - 1 => w[a + t + 1] - w[a + t] = d}
  <2>1. 0 \in P
    BY DEF d
  <2>2. ASSUME NEW t \in 1..n - 1, t - 1 \in P PROVE t \in P
    <3>1. a + t \in a + 1..b - 1 /\ t - 1 \in 0..n - 1
          /\ a + (t - 1) = a + t - 1 /\ a + (t - 1) + 1 = a + t
      BY <1>1
    <3>2. w[a + t] - w[a + t - 1] = d
      BY <2>2, <3>1
    <3>3. EvenAt(w, a + t)
      BY <3>1
    <3> QED
      BY <3>2, <3>3 DEF EvenAt
  <2> HIDE DEF P
  <2>3. \A t \in 0..n - 1 : t \in P
    <3>1. n - 1 \in Nat
      BY <1>1
    <3>2. \A t \in 1..n - 1 : t - 1 \in P => t \in P
      BY <2>2
    <3> QED
      BY <2>1, <3>1, <3>2, UpTo
  <2> QED
    BY <2>3 DEF P
<1>5. \A t \in 0..n - 1 : /\ X(w[a + t + 1]) - X(w[a + t]) = dx
                          /\ Y(w[a + t + 1]) - Y(w[a + t]) = dy
  <2> TAKE t \in 0..n - 1
  <2>1. a + t \in a..b - 1
    BY <1>1
  <2>2. w[a + t + 1] - w[a + t] = dx + astarSize * dy
    BY <1>3, <1>4
  <2> DEFINE ex == X(w[a + t + 1]) - X(w[a + t])
             ey == Y(w[a + t + 1]) - Y(w[a + t])
  <2>3. ex \in {-1, 0, 1} /\ ey \in {-1, 0, 1} /\ w[a + t + 1] - w[a + t] = ex + astarSize * ey
    BY <1>2, <2>1
  <2> HIDE DEF ex, ey
  <2>4. ex = dx /\ ey = dy
    BY <1>3, <2>2, <2>3, OneDirection
  <2> QED
    BY <2>4 DEF ex, ey
<1>6. \A t \in 0..n : /\ w[a + t] = w[a] + t * d
                      /\ X(w[a + t]) = X(w[a]) + t * dx
                      /\ Y(w[a + t]) = Y(w[a]) + t * dy
  <2> DEFINE P == {t \in Nat : /\ w[a + t] = w[a] + t * d
                               /\ X(w[a + t]) = X(w[a]) + t * dx
                               /\ Y(w[a + t]) = Y(w[a]) + t * dy}
  <2>1. 0 \in P
    BY <1>1, <1>3
  <2>2. ASSUME NEW t \in 1..n, t - 1 \in P PROVE t \in P
    <3>1. /\ t - 1 \in 0..n - 1 /\ a + t \in a..b /\ a + (t - 1) \in a..b
          /\ a + (t - 1) + 1 = a + t
      BY <1>1, <1>3
    <3>3. /\ w[a + t] - w[a + (t - 1)] = d
          /\ X(w[a + t]) - X(w[a + (t - 1)]) = dx
          /\ Y(w[a + t]) - Y(w[a + (t - 1)]) = dy
      BY <1>4, <1>5, <3>1
    <3>4. PICK v \in Int, u \in Int, c \in Int : v = w[a + t] /\ u = w[a + (t - 1)] /\ c = w[a]
      BY <1>1, <3>1
    <3>5. PICK vx \in Int, ux \in Int, cx \in Int :
            vx = X(w[a + t]) /\ ux = X(w[a + (t - 1)]) /\ cx = X(w[a])
      BY <1>1, <3>1
    <3>6. PICK vy \in Int, uy \in Int, cy \in Int :
            vy = Y(w[a + t]) /\ uy = Y(w[a + (t - 1)]) /\ cy = Y(w[a])
      BY <1>1, <3>1
    <3>7. /\ u = c + (t - 1) * d /\ ux = cx + (t - 1) * dx /\ uy = cy + (t - 1) * dy
          /\ v - u = d /\ vx - ux = dx /\ vy - uy = dy
      BY <2>2, <3>3, <3>4, <3>5, <3>6
    <3>8. t \in Int /\ d \in Int /\ dx \in Int /\ dy \in Int
      BY <1>1, <1>3
    <3>9. v = c + t * d /\ vx = cx + t * dx /\ vy = cy + t * dy
      BY <3>7, <3>8, OneMore
    <3>10. /\ w[a + t] = w[a] + t * d
           /\ X(w[a + t]) = X(w[a]) + t * dx
           /\ Y(w[a + t]) = Y(w[a]) + t * dy
      BY <3>4, <3>5, <3>6, <3>9
    <3>11. t \in Nat
      OBVIOUS
    <3> QED
      BY <3>10, <3>11
  <2> HIDE DEF P
  <2>3. \A t \in 0..n : t \in P
    BY <1>1, <2>1, <2>2, UpTo
  <2> QED
    BY <2>3 DEF P
<1> DEFINE fx == X(w[a]) - X(w[b])
           fy == Y(w[a]) - Y(w[b])
           c == IF fx # 0 THEN Apart(X(w[b]), X(w[a])) ELSE Apart(Y(w[b]), Y(w[a]))
<1>7. n \in 0..n /\ a + n = b
  BY <1>1
<1>8. fx = -(n * dx) /\ fy = -(n * dy)
  <2>1. X(w[b]) = X(w[a]) + n * dx /\ Y(w[b]) = Y(w[a]) + n * dy
    BY <1>6, <1>7
  <2>2. n * dx \in Int /\ n * dy \in Int /\ X(w[a]) \in Int /\ Y(w[a]) \in Int
    BY <1>1, <1>3
  <2> QED
    BY <2>1, <2>2
<1>9. c = n /\ (fx = 0 \/ fy = 0 \/ Apart(X(w[b]), X(w[a])) = Apart(Y(w[b]), Y(w[a])))
  <2>1. \A p, q \in Int : Apart(p, q) = IF q - p >= 0 THEN q - p ELSE -(q - p)
    BY DEF Apart
  <2>2. /\ X(w[a]) \in Int /\ Y(w[a]) \in Int /\ X(w[b]) \in Int /\ Y(w[b]) \in Int
    BY <1>1
  <2>3. /\ Apart(X(w[b]), X(w[a])) = IF fx >= 0 THEN fx ELSE -fx
        /\ Apart(Y(w[b]), Y(w[a])) = IF fy >= 0 THEN fy ELSE -fy
    BY <2>1, <2>2
  <2> DEFINE ax == Apart(X(w[b]), X(w[a]))
             ay == Apart(Y(w[b]), Y(w[a]))
  <2> HIDE DEF fx, fy
  <2>7. (fx = 0 /\ ax = 0 /\ dx = 0) \/ (fx # 0 /\ ax = n /\ dx # 0)
    <3>1. CASE dx = 0
      BY <1>1, <1>8, <2>3, <3>1
    <3>2. CASE dx = 1
      BY <1>1, <1>8, <2>3, <3>2
    <3>3. CASE dx = -1
      BY <1>1, <1>8, <2>3, <3>3
    <3> QED
      BY <1>3, <3>1, <3>2, <3>3
  <2>8. (fy = 0 /\ ay = 0 /\ dy = 0) \/ (fy # 0 /\ ay = n /\ dy # 0)
    <3>1. CASE dy = 0
      BY <1>1, <1>8, <2>3, <3>1
    <3>2. CASE dy = 1
      BY <1>1, <1>8, <2>3, <3>2
    <3>3. CASE dy = -1
      BY <1>1, <1>8, <2>3, <3>3
    <3> QED
      BY <1>3, <3>1, <3>2, <3>3
  <2>4. /\ (fx = 0 /\ ax = 0 /\ dx = 0) \/ (fx # 0 /\ ax = n /\ dx # 0)
        /\ (fy = 0 /\ ay = 0 /\ dy = 0) \/ (fy # 0 /\ ay = n /\ dy # 0)
    BY <2>7, <2>8
  <2> HIDE DEF ax, ay
  <2>5. IF fx # 0 THEN ax = n ELSE ay = n
    BY <1>3, <2>4
  <2>6. fx = 0 \/ fy = 0 \/ ax = ay
    BY <2>4
  <2> QED
    BY <2>5, <2>6 DEF ax, ay
<1>10. fx + fy * astarSize = (-d) * n
  <2>1. (-d) * n = -(d * n) /\ d * n = dx * n + (astarSize * dy) * n
    BY <1>1, <1>3
  <2>2. (astarSize * dy) * n = (n * dy) * astarSize /\ dx * n = n * dx
    BY <1>1, <1>3
  <2> QED
    BY <1>1, <1>3, <1>8, <2>1, <2>2
<1>11. (fx + fy * astarSize) \div n = -d
  <2>1. -d \in Int
    BY <1>3
  <2>2. ((-d) * n) \div n = -d
    BY <1>1, <2>1, DividesExactly
  <2> QED
    BY <1>10, <2>2
<1>12. Straight(w[b], w[a]) = {w[b] + i * (-d) : i \in 1..n}
  BY <1>9, <1>11 DEF Straight
<1>13. ASSUME NEW i \in 1..n PROVE \E m \in a..b - 1 : w[b] + i * (-d) = w[m]
  <2>1. n - i \in 0..n /\ a + (n - i) \in a..b - 1
    BY <1>1
  <2>2. w[a + (n - i)] = w[a] + (n - i) * d /\ w[b] = w[a] + n * d
    BY <1>6, <1>7, <2>1
  <2>3. (n - i) * d = n * d + i * (-d)
    BY <1>1, <1>3
  <2>4. n * d \in Int /\ i * (-d) \in Int /\ w[a] \in Int
    BY <1>1, <1>3
  <2>5. w[a + (n - i)] = w[b] + i * (-d)
    BY <2>2, <2>3, <2>4
  <2> QED
    BY <2>1, <2>5
<1> QED
  <2>1. 1 \in 1..n
    BY <1>1
  <2> QED
    BY <1>12, <1>13, <2>1

\* The equation of Turns has a solution.
TurnsFrom(w, i, x) ==
  IF i = 1 THEN <<w[1]>>
  ELSE IF i < Len(w) /\ w[i] - w[i - 1] # w[i + 1] - w[i] THEN Append(x, w[i])
  ELSE x

\* The loop of searchPathUsingAstar over the route, round by round.
LEMMA TurnsStep ==
  ASSUME NEW w \in Seq(Area), Len(w) >= 1
  PROVE  \E f : /\ f \in [1..Len(w) -> Seq(Area)]
                /\ f[1] = <<w[1]>>
                /\ \A i \in 2..Len(w) : f[i] = TurnsFrom(w, i, f[i - 1])
                /\ Turns(w) = f[Len(w)]
<1> DEFINE L == Len(w)
           G == [i \in 1..L |-> [x \in Seq(Area) |-> TurnsFrom(w, i, x)]]
           Solves(f) == f = [i \in 1..L |->
             IF i = 1 THEN <<w[1]>>
             ELSE IF i < Len(w) /\ w[i] - w[i - 1] # w[i + 1] - w[i] THEN Append(f[i - 1], w[i])
             ELSE f[i - 1]]
<1>1. L \in Nat /\ L >= 1 /\ \A i \in 1..L : w[i] \in Area
  OBVIOUS
<1>2. \A i \in 1..L : \A x \in Seq(Area) : TurnsFrom(w, i, x) \in Seq(Area)
  BY <1>1 DEF TurnsFrom
<1>3. PICK g : StepByStep(g, <<>>, G, L)
  <2> HIDE DEF G, L
  <2> QED
    BY <1>1, StepsExist
<1>4. \A i \in 0..L : g[i] \in Seq(Area)
  <2> DEFINE P == {i \in Nat : g[i] \in Seq(Area)}
  <2>1. 0 \in P
    <3>1. g[0] = <<>> /\ <<>> \in Seq(Area)
      BY <1>3 DEF StepByStep
    <3> QED
      BY <3>1
  <2>2. ASSUME NEW i \in 1..L, i - 1 \in P PROVE i \in P
    <3>1. g[i] = G[i][g[i - 1]]
      <4> HIDE DEF G
      <4> QED
        BY <1>3 DEF StepByStep
    <3>2. g[i] = TurnsFrom(w, i, g[i - 1])
      BY <2>2, <3>1
    <3>3. g[i] \in Seq(Area)
      BY <1>2, <2>2, <3>2
    <3> QED
      BY <3>3
  <2> HIDE DEF P
  <2>3. \A i \in 0..L : i \in P
    BY <1>1, <2>1, <2>2, UpTo
  <2> QED
    BY <2>3 DEF P
<1> DEFINE h == [i \in 1..L |-> g[i]]
<1>5. Solves(h)
  <2>1. ASSUME NEW i \in 1..L PROVE h[i] = TurnsFrom(w, i, h[i - 1])
    <3>1. g[i] = G[i][g[i - 1]]
      <4> HIDE DEF G
      <4> QED
        BY <1>3 DEF StepByStep
    <3>2. i - 1 \in 0..L
      BY <1>1
    <3>3. g[i] = TurnsFrom(w, i, g[i - 1])
      BY <1>4, <3>1, <3>2
    <3>4. CASE i = 1
      BY <3>3, <3>4 DEF TurnsFrom
    <3>5. CASE i # 1
      <4>1. h[i - 1] = g[i - 1]
        BY <3>2, <3>5
      <4> QED
        BY <3>3, <4>1
    <3> QED
      BY <3>4, <3>5
  <2>2. h = [i \in 1..L |-> h[i]]
    OBVIOUS
  <2> HIDE DEF h
  <2> QED
    BY <2>1, <2>2 DEF TurnsFrom
<1> DEFINE t == CHOOSE f : Solves(f)
<1>6. Solves(t)
  <2> HIDE DEF h, Solves
  <2> QED
    BY <1>5
<1>7. Turns(w) = t[L]
  BY DEF Turns
<1> HIDE DEF t
<1>8. \A i \in 1..L : t[i] = TurnsFrom(w, i, t[i - 1])
  BY <1>6 DEF TurnsFrom
<1>9. \A i \in 1..L : t[i] \in Seq(Area)
  <2> DEFINE P == {i \in Nat : i = 0 \/ t[i] \in Seq(Area)}
  <2>1. 0 \in P
    OBVIOUS
  <2>2. ASSUME NEW i \in 1..L, i - 1 \in P PROVE i \in P
    <3>1. CASE i = 1
      <4>1. t[1] = <<w[1]>>
        BY <1>1, <1>8 DEF TurnsFrom
      <4>2. <<w[1]>> \in Seq(Area)
        BY <1>1
      <4>3. t[i] \in Seq(Area)
        BY <3>1, <4>1, <4>2
      <4> QED
        BY <4>3
    <3>2. CASE i # 1
      <4>1. t[i - 1] \in Seq(Area)
        BY <2>2, <3>2
      <4>2. t[i] \in Seq(Area)
        BY <1>2, <1>8, <4>1
      <4> QED
        BY <4>2
    <3> QED
      BY <3>1, <3>2
  <2> HIDE DEF P
  <2>3. \A i \in 0..L : i \in P
    BY <1>1, <2>1, <2>2, UpTo
  <2> QED
    BY <2>3 DEF P
<1>10. t = [i \in 1..L |-> t[i]]
  BY <1>6
<1>11. t \in [1..L -> Seq(Area)]
  BY <1>9, <1>10
<1>12. t[1] = <<w[1]>>
  BY <1>1, <1>8 DEF TurnsFrom
<1>13. \A i \in 2..L : i \in 1..L
  OBVIOUS
<1>14. /\ t \in [1..Len(w) -> Seq(Area)] /\ t[1] = <<w[1]>>
       /\ \A i \in 2..Len(w) : t[i] = TurnsFrom(w, i, t[i - 1])
       /\ Turns(w) = t[Len(w)]
  BY <1>7, <1>8, <1>11, <1>12, <1>13
<1> QED
  BY <1>14

\* The turns of a way: one leads straight to the next, backwards, and its end
\* straight to the last of them.
Led(w, p, e) ==
  /\ p \in Seq(Area) /\ Len(p) >= 1 /\ p[1] = w[1] /\ p[Len(p)] = w[e]
  /\ \A j \in 1..Len(p) - 1 : \E a, b \in 1..Len(w) - 1 :
       a < b /\ p[j] = w[a] /\ p[j + 1] = w[b] /\ \A m \in a + 1..b - 1 : EvenAt(w, m)

\* Turns yields such turns.
LEMMA TurnsLead ==
  ASSUME NEW w \in Seq(Area), Len(w) >= 2
  PROVE  \E e \in 1..Len(w) - 1 : /\ Led(w, Turns(w), e)
                                  /\ \A m \in e + 1..Len(w) - 1 : EvenAt(w, m)
<1>1. PICK f : /\ f \in [1..Len(w) -> Seq(Area)]
               /\ f[1] = <<w[1]>>
               /\ \A i \in 2..Len(w) : f[i] = TurnsFrom(w, i, f[i - 1])
               /\ Turns(w) = f[Len(w)]
  <2>1. Len(w) >= 1
    OBVIOUS
  <2> QED
    BY <2>1, TurnsStep
<1> DEFINE L == Len(w)
           Good(i) == \E e \in 1..L - 1 : /\ e <= i /\ Led(w, f[i], e)
                                          /\ \A m \in e + 1..L - 1 : m <= i => EvenAt(w, m)
           P == {i \in Nat : i = 0 \/ Good(i)}
<1>2. L \in Nat /\ L >= 2 /\ \A i \in 1..L : w[i] \in Area /\ f[i] \in Seq(Area)
  BY <1>1
<1>3. 0 \in P
  OBVIOUS
<1>4. ASSUME NEW i \in 1..L, i - 1 \in P PROVE i \in P
  <2>1. CASE i = 1
    <3>1. f[1] = <<w[1]>> /\ 1 \in 1..L - 1 /\ w[1] \in Area
      BY <1>1, <1>2
    <3>2. Led(w, f[1], 1)
      BY <3>1 DEF Led
    <3>3. Good(1)
      BY <3>1, <3>2
    <3> HIDE DEF Good
    <3> QED
      BY <2>1, <3>3
  <2>2. CASE i # 1
    <3>1. i \in 2..L /\ i - 1 \in 1..L /\ i - 1 # 0
      BY <2>2
    <3>2. PICK e \in 1..L - 1 : /\ e <= i - 1 /\ Led(w, f[i - 1], e)
                                /\ \A m \in e + 1..L - 1 : m <= i - 1 => EvenAt(w, m)
      BY <1>4, <3>1
    <3>3. f[i] = TurnsFrom(w, i, f[i - 1])
      BY <1>1, <3>1
    <3> DEFINE turn == i < L /\ w[i] - w[i - 1] # w[i + 1] - w[i]
    <3>4. CASE turn
      <4>1. f[i] = Append(f[i - 1], w[i]) /\ i \in 1..L - 1
        BY <3>1, <3>3, <3>4 DEF TurnsFrom
      <4> DEFINE p == f[i - 1]
                 q == f[i]
                 n == Len(p)
      <4>2. /\ p \in Seq(Area) /\ n \in Nat /\ n >= 1 /\ q = Append(p, w[i]) /\ w[i] \in Area
            /\ p[1] = w[1] /\ p[n] = w[e]
            /\ \A j \in 1..n - 1 : \E a, b \in 1..L - 1 :
                 a < b /\ p[j] = w[a] /\ p[j + 1] = w[b] /\ \A m \in a + 1..b - 1 : EvenAt(w, m)
        BY <1>2, <3>2, <4>1 DEF Led
      <4> HIDE DEF p, q, n
      <4>3. q \in Seq(Area) /\ Len(q) = n + 1 /\ q[n + 1] = w[i] /\ \A j \in 1..n : q[j] = p[j]
        BY <4>2 DEF n
      <4>4. ASSUME NEW j \in 1..Len(q) - 1
            PROVE  \E a, b \in 1..L - 1 :
                     a < b /\ q[j] = w[a] /\ q[j + 1] = w[b] /\ \A m \in a + 1..b - 1 : EvenAt(w, m)
        <5>1. CASE j = n
          <6>1. e < i /\ q[j] = w[e] /\ q[j + 1] = w[i]
            BY <3>2, <4>2, <4>3, <5>1
          <6>2. \A m \in e + 1..i - 1 : EvenAt(w, m)
            BY <3>2, <4>1
          <6> QED
            BY <4>1, <6>1, <6>2
        <5>2. CASE j # n
          <6>0. n \in Nat /\ j \in 1..(n + 1) - 1
            BY <4>2, <4>3
          <6>1. j \in 1..n - 1 /\ j \in 1..n /\ j + 1 \in 1..n
            BY <5>2, <6>0
          <6>2. q[j] = p[j] /\ q[j + 1] = p[j + 1]
            BY <4>3, <6>1
          <6> QED
            BY <4>2, <6>1, <6>2
        <5> QED
          BY <5>1, <5>2
      <4>5. Led(w, q, i)
        <5>1. 1 \in 1..n /\ n + 1 >= 1
          BY <4>2
        <5>2. q \in Seq(Area) /\ Len(q) >= 1 /\ q[1] = w[1] /\ q[Len(q)] = w[i]
          BY <4>2, <4>3, <5>1
        <5> QED
          BY <4>4, <5>2 DEF Led
      <4>6. \A m \in i + 1..L - 1 : m <= i => EvenAt(w, m)
        OBVIOUS
      <4>7. Good(i)
        BY <4>1, <4>5, <4>6 DEF q
      <4> HIDE DEF Good
      <4> QED
        BY <4>7
    <3>5. CASE ~turn
      <4>1. f[i] = f[i - 1]
        BY <3>1, <3>3, <3>5 DEF TurnsFrom
      <4>2. ASSUME NEW m \in e + 1..L - 1, m <= i PROVE EvenAt(w, m)
        <5>1. CASE m = i
          BY <3>5, <4>2, <5>1 DEF EvenAt
        <5>2. CASE m # i
          <6>1. m <= i - 1
            BY <4>2, <5>2
          <6> QED
            BY <3>2, <6>1
        <5> QED
          BY <5>1, <5>2
      <4>3. Good(i)
        BY <3>2, <4>1, <4>2
      <4> HIDE DEF Good
      <4> QED
        BY <4>3
    <3> QED
      BY <3>4, <3>5
  <2> QED
    BY <2>1, <2>2
<1> HIDE DEF P
<1>5. \A i \in 0..L : i \in P
  BY <1>2, <1>3, <1>4, UpTo
<1>6. L \in 0..L /\ L # 0
  BY <1>2
<1>7. Good(L)
  BY <1>5, <1>6 DEF P
<1>8. PICK e \in 1..L - 1 : /\ Led(w, f[L], e)
                            /\ \A m \in e + 1..L - 1 : m <= L => EvenAt(w, m)
  BY <1>7
<1>9. \A m \in e + 1..L - 1 : EvenAt(w, m)
  BY <1>2, <1>8
<1> QED
  BY <1>1, <1>8, <1>9

\* The legs from the end of a way, where the search started, to its first cell
\* by its turns: each is straight, and they touch cells of the way only.
LEMMA LegsOfAWay ==
  ASSUME NEW w, NEW k, NEW st, Way(w, k, st), NEW p, p = Turns(w)
  PROVE  /\ p \in Seq(Area) /\ Len(p) >= 1 /\ p[1] = k
         /\ \A i \in 1..Len(p) :
              LET n == Len(p)
                  points == [j \in 1..n + 1 |-> IF j = 1 THEN st ELSE p[n + 2 - j]]
              IN /\ Straight(points[i], points[i + 1]) # {}
                 /\ Straight(points[i], points[i + 1]) \subseteq {w[m] : m \in 1..Len(w) - 1}
<1>1. /\ w \in Seq(Area) /\ Len(w) >= 2 /\ Len(w) \in Nat /\ w[1] = k /\ w[Len(w)] = st
      /\ \A i \in 1..Len(w) - 1 : Adjacent(w[i], w[i + 1])
  BY DEF Way
<1>2. PICK e \in 1..Len(w) - 1 : /\ Led(w, p, e)
                                 /\ \A m \in e + 1..Len(w) - 1 : EvenAt(w, m)
  BY <1>1, TurnsLead
<1>3. /\ p \in Seq(Area) /\ Len(p) >= 1 /\ Len(p) \in Nat /\ p[1] = k /\ p[Len(p)] = w[e]
      /\ \A j \in 1..Len(p) - 1 : \E a, b \in 1..Len(w) - 1 :
           a < b /\ p[j] = w[a] /\ p[j + 1] = w[b] /\ \A m \in a + 1..b - 1 : EvenAt(w, m)
  BY <1>1, <1>2 DEF Led
<1> DEFINE Cells == {w[m] : m \in 1..Len(w) - 1}
<1>4. ASSUME NEW a \in 1..Len(w), NEW b \in 1..Len(w), a < b,
             \A m \in a + 1..b - 1 : EvenAt(w, m)
      PROVE  Straight(w[b], w[a]) # {} /\ Straight(w[b], w[a]) \subseteq Cells
  <2>1. \A m \in a..b - 1 : m \in 1..Len(w) - 1
    BY <1>1
  <2>2. \A m \in a..b - 1 : Adjacent(w[m], w[m + 1])
    BY <1>1, <2>1
  <2>3. Straight(w[b], w[a]) # {} /\ Straight(w[b], w[a]) \subseteq {w[m] : m \in a..b - 1}
    BY <1>1, <1>4, <2>2, Leg
  <2> QED
    BY <2>1, <2>3
<1> HIDE DEF Cells
<1>5. ASSUME NEW i \in 1..Len(p)
      PROVE  LET n == Len(p)
                 points == [j \in 1..n + 1 |-> IF j = 1 THEN st ELSE p[n + 2 - j]]
             IN /\ Straight(points[i], points[i + 1]) # {}
                /\ Straight(points[i], points[i + 1]) \subseteq Cells
  <2> DEFINE n == Len(p)
             points == [j \in 1..n + 1 |-> IF j = 1 THEN st ELSE p[n + 2 - j]]
  <2>1. n \in Nat /\ i \in 1..n + 1 /\ i + 1 \in 1..n + 1 /\ i + 1 # 1
    BY <1>3
  <2>2. points[i + 1] = p[n + 1 - i] /\ points[i] = IF i = 1 THEN st ELSE p[n + 2 - i]
    <3>1. n + 2 - (i + 1) = n + 1 - i
      BY <2>1
    <3> QED
      BY <2>1, <3>1
  <2> HIDE DEF points, n
  <2>3. Straight(points[i], points[i + 1]) # {} /\ Straight(points[i], points[i + 1]) \subseteq Cells
    <3>1. CASE i = 1
      <4>1. points[i] = w[Len(w)] /\ points[i + 1] = w[e]
        BY <1>1, <1>3, <2>1, <2>2, <3>1 DEF n
      <4>2. e \in 1..Len(w) /\ Len(w) \in 1..Len(w) /\ e < Len(w)
        BY <1>1
      <4> QED
        BY <1>2, <1>4, <4>1, <4>2
    <3>2. CASE i # 1
      <4>1. n + 1 - i \in 1..Len(p) - 1 /\ n + 2 - i = (n + 1 - i) + 1
        BY <1>3, <3>2 DEF n
      <4>2. PICK a, b \in 1..Len(w) - 1 :
              a < b /\ p[n + 1 - i] = w[a] /\ p[(n + 1 - i) + 1] = w[b]
              /\ \A m \in a + 1..b - 1 : EvenAt(w, m)
        BY <1>3, <4>1
      <4>3. points[i] = w[b] /\ points[i + 1] = w[a]
        BY <2>2, <3>2, <4>1, <4>2
      <4>4. a \in 1..Len(w) /\ b \in 1..Len(w)
        BY <1>1
      <4> QED
        BY <1>4, <4>2, <4>3, <4>4
    <3> QED
      BY <3>1, <3>2
  <2> QED
    BY <2>3 DEF points, n
<1> QED
  BY <1>3, <1>5 DEF Cells

-----------------------------------------------------------------------------
(* What a search knows. *)

ClosedOf(c, id) == {n \in Area : c.closed[n] = id}
SeenIn(c, n, id) == c.seen[n] = id

\* The fields of the cells, up to search id.
CellsKept(c, id) == /\ c = [g |-> c.g, parent |-> c.parent, seen |-> c.seen, closed |-> c.closed]
                    /\ c.seen \in [Area -> 0..id] /\ c.closed \in [Area -> 0..id]

\* The parent of a cell that search id from st has seen is a cell beside it which it
\* has closed, and earlier, by rank, than the cell; what lies beside a closed cell is
\* seen; what is seen is closed or in the open list, and nothing else is there; no
\* closed cell but st would have done.
Ranked(c, open, id, st, rank) ==
  LET closed == ClosedOf(c, id)
  IN /\ st \in closed /\ rank \in [Area -> Nat] /\ rank[st] = 0
     /\ \A n \in closed : rank[n] < Cardinality(closed)
     /\ \A n \in closed \ {st} : SeenIn(c, n, id) /\ rank[c.parent[n]] < rank[n]
     /\ \A n \in Area \ {st} : SeenIn(c, n, id) =>
          c.parent[n] \in closed /\ Adjacent(n, c.parent[n])
     /\ \A n \in closed : \A m \in Area : Adjacent(n, m) => m \in closed \/ SeenIn(c, m, id)
     /\ \A n \in Area \ closed : SeenIn(c, n, id) => \E o \in open : o[2] = n
     /\ \A o \in open : o[2] \in Area /\ SeenIn(c, o[2], id)
Explored(c, open, id, st) == /\ \E rank : Ranked(c, open, id, st, rank)
                             /\ \A n \in ClosedOf(c, id) \ {st} : ~ResultGrid(task, n)

\* checkAstarNeibor of k: the cells T beside it that it reaches, or reaches cheaper,
\* get k as their parent; what it has not closed and not seen is among them.
Touches(T, c, open, k, id) ==
  /\ \A n \in T : Adjacent(k, n) /\ c.closed[n] # id
  /\ \A n \in Area : Adjacent(k, n) /\ c.closed[n] # id /\ ~SeenIn(c, n, id) => n \in T
  /\ CellsKept(cells', id)
  /\ \A n \in Area : /\ cells'.parent[n] = IF n \in T THEN k ELSE c.parent[n]
                     /\ cells'.seen[n] = IF n \in T THEN id ELSE c.seen[n]
                     /\ cells'.closed[n] = IF n = k THEN id ELSE c.closed[n]
  /\ open \subseteq openList'
  /\ \A n \in T : \E o \in openList' : o[2] = n
  /\ \A o \in openList' : o \in open \/ o[2] \in T

\* CheckNeighbours touches such cells.
LEMMA Checked ==
  ASSUME NEW c, NEW open, NEW id \in Nat, CellsKept(c, id), NEW k \in Area,
         CheckNeighbours(c, open, k, id)
  PROVE  \E T \in SUBSET Area : Touches(T, c, open, k, id)
<1> DEFINE better == Cheaper(c, k, id)
           T == {s[1] : s \in better}
           ng == [n \in T |-> c.g[k] + (CHOOSE s \in better : s[1] = n)[2] + cellW[n]]
<1>1. /\ cells' = [g |-> [n \in Area |-> IF n \in T THEN ng[n] ELSE c.g[n]],
                   parent |-> [n \in Area |-> IF n \in T THEN k ELSE c.parent[n]],
                   seen |-> [n \in Area |-> IF n \in T THEN id ELSE c.seen[n]],
                   closed |-> [c.closed EXCEPT ![k] = id]]
      /\ openList' = open \cup {<<ng[n] + Hval(n), n>> : n \in T}
  BY DEF CheckNeighbours
<1>2. c.seen \in [Area -> 0..id] /\ c.closed \in [Area -> 0..id]
  BY DEF CellsKept
<1>3. \A n \in Area : Closed(c, n, id) <=> c.closed[n] = id
  BY <1>2 DEF Closed
<1>4. ASSUME NEW n \in T PROVE n \in Area /\ Adjacent(k, n) /\ c.closed[n] # id
  <2>1. PICK s \in Near(k) : n = s[1] /\ ~Closed(c, s[1], id)
    BY DEF Cheaper
  <2>2. n \in Area /\ Adjacent(k, n)
    BY <2>1, NearFacts
  <2> QED
    BY <1>3, <2>1, <2>2
<1>5. ASSUME NEW n \in Area, Adjacent(k, n), c.closed[n] # id, ~SeenIn(c, n, id) PROVE n \in T
  <2>1. PICK s \in Near(k) : s[1] = n
    BY <1>5, NearFacts
  <2>2. c.seen[n] < id
    BY <1>2, <1>5 DEF SeenIn
  <2>3. s \in better
    BY <1>3, <1>5, <2>1, <2>2 DEF Cheaper
  <2> QED
    BY <2>1, <2>3
<1> HIDE DEF T, better, ng
<1>6. /\ cells'.parent = [n \in Area |-> IF n \in T THEN k ELSE c.parent[n]]
      /\ cells'.seen = [n \in Area |-> IF n \in T THEN id ELSE c.seen[n]]
      /\ cells'.closed = [c.closed EXCEPT ![k] = id]
      /\ cells' = [g |-> cells'.g, parent |-> cells'.parent, seen |-> cells'.seen,
                   closed |-> cells'.closed]
  BY <1>1
<1>7. id \in 0..id
  OBVIOUS
<1>8. cells'.seen \in [Area -> 0..id] /\ cells'.closed \in [Area -> 0..id]
  BY <1>2, <1>6, <1>7
<1>9. CellsKept(cells', id)
  BY <1>6, <1>8 DEF CellsKept
<1>10. \A n \in Area : /\ cells'.parent[n] = IF n \in T THEN k ELSE c.parent[n]
                       /\ cells'.seen[n] = IF n \in T THEN id ELSE c.seen[n]
                       /\ cells'.closed[n] = IF n = k THEN id ELSE c.closed[n]
  BY <1>2, <1>6
<1>11. \A n \in T : \E o \in openList' : o[2] = n
  <2> TAKE n \in T
  <2> DEFINE o == <<ng[n] + Hval(n), n>>
  <2>1. o \in openList'
    BY <1>1
  <2>2. o[2] = n
    OBVIOUS
  <2> HIDE DEF o
  <2> QED
    BY <2>1, <2>2
<1>12. \A o \in openList' : o \in open \/ o[2] \in T
  <2> TAKE o \in openList'
  <2> SUFFICES ASSUME o \notin open PROVE o[2] \in T
    OBVIOUS
  <2>1. PICK n \in T : o = <<ng[n] + Hval(n), n>>
    BY <1>1
  <2> QED
    BY <2>1
<1>13. T \in SUBSET Area /\ open \subseteq openList'
  BY <1>1, <1>4
<1> QED
  BY <1>4, <1>5, <1>9, <1>10, <1>11, <1>12, <1>13 DEF Touches

\* The map is finite.
LEMMA KeysAre == IsFiniteSet(Area) /\ Cardinality(Area) = astarSize * astarSize
                 /\ astarSize * astarSize \in Nat
<1>1. astarSize * astarSize \in Nat
  BY SearchAssumption
<1> QED
  BY <1>1, FS_Interval DEF Area

\* The closed cells are finitely many, and fewer than all as long as one is open.
LEMMA ClosedAre ==
  ASSUME NEW c, NEW id
  PROVE  /\ IsFiniteSet(ClosedOf(c, id)) /\ Cardinality(ClosedOf(c, id)) \in Nat
         /\ \A k \in Area \ ClosedOf(c, id) : Cardinality(ClosedOf(c, id)) < Cardinality(Area)
<1>1. ClosedOf(c, id) \subseteq Area
  BY DEF ClosedOf
<1>2. IsFiniteSet(ClosedOf(c, id)) /\ Cardinality(ClosedOf(c, id)) \in Nat
  BY <1>1, KeysAre, FS_Subset, FS_CardinalityType
<1>3. ASSUME NEW k \in Area \ ClosedOf(c, id)
      PROVE  Cardinality(ClosedOf(c, id)) < Cardinality(Area)
  <2>1. ClosedOf(c, id) # Area
    OBVIOUS
  <2>2. Cardinality(ClosedOf(c, id)) <= Cardinality(Area)
        /\ (Cardinality(ClosedOf(c, id)) = Cardinality(Area) => ClosedOf(c, id) = Area)
    BY <1>1, KeysAre, FS_Subset
  <2> QED
    BY <1>2, <2>1, <2>2, KeysAre
<1> QED
  BY <1>2, <1>3

\* A search begins with its start closed and the cells beside it seen.
LEMMA FirstChecked ==
  ASSUME NEW c, NEW id \in Nat, CellsKept(c, id), NEW k \in Area,
         \A n \in Area : c.closed[n] # id /\ c.seen[n] # id,
         CheckNeighbours(c, {}, k, id)
  PROVE  CellsKept(cells', id) /\ \E rank : Ranked(cells', openList', id, k, rank)
         /\ ClosedOf(cells', id) = {k}
<1>1. PICK T \in SUBSET Area :
           /\ \A n \in T : Adjacent(k, n) /\ c.closed[n] # id
           /\ \A n \in Area : Adjacent(k, n) /\ c.closed[n] # id /\ ~SeenIn(c, n, id) => n \in T
           /\ CellsKept(cells', id)
           /\ \A n \in Area : /\ cells'.parent[n] = IF n \in T THEN k ELSE c.parent[n]
                              /\ cells'.seen[n] = IF n \in T THEN id ELSE c.seen[n]
                              /\ cells'.closed[n] = IF n = k THEN id ELSE c.closed[n]
           /\ \A n \in T : \E o \in openList' : o[2] = n
           /\ \A o \in openList' : o \in {} \/ o[2] \in T
  <2>1. PICK T \in SUBSET Area : Touches(T, c, {}, k, id)
    BY Checked
  <2> QED
    BY <2>1 DEF Touches
<1>2. ClosedOf(cells', id) = {k}
  BY <1>1 DEF ClosedOf
<1>3. \A n \in Area : SeenIn(cells', n, id) <=> n \in T
  BY <1>1 DEF SeenIn
<1>4. Cardinality({k}) = 1
  BY FS_Singleton
<1> DEFINE rank == [n \in Area |-> 0]
<1>5. rank \in [Area -> Nat] /\ rank[k] = 0
  OBVIOUS
<1> HIDE DEF rank
<1>6. \A n \in T : Adjacent(n, k)
  BY <1>1, AdjacentFacts
<1>7. \A m \in Area : Adjacent(k, m) => SeenIn(cells', m, id)
  BY <1>1, <1>3 DEF SeenIn
<1>8. \A n \in Area : SeenIn(cells', n, id) => cells'.parent[n] = k /\ Adjacent(n, k)
  BY <1>1, <1>3, <1>6
<1>9. \A o \in openList' : o[2] \in Area /\ SeenIn(cells', o[2], id)
  BY <1>1, <1>3
<1>10. Ranked(cells', openList', id, k, rank)
  BY <1>1, <1>2, <1>3, <1>4, <1>5, <1>7, <1>8, <1>9 DEF Ranked
<1> QED
  BY <1>1, <1>2, <1>10

\* It goes on by closing a cell k of the open list.
LEMMA NextChecked ==
  ASSUME NEW c, NEW open, NEW id \in Nat, CellsKept(c, id), NEW st,
         NEW rank, Ranked(c, open, id, st, rank),
         NEW o \in open, NEW k, k = o[2], c.closed[k] # id,
         NEW rest, rest = open \ {o}, CheckNeighbours(c, rest, k, id)
  PROVE  /\ CellsKept(cells', id) /\ \E r : Ranked(cells', openList', id, st, r)
         /\ \A n : n \in ClosedOf(cells', id) <=> n \in ClosedOf(c, id) \/ n = k
<1> DEFINE closed == ClosedOf(c, id)
           size == Cardinality(closed)
<1>1. /\ st \in closed /\ rank \in [Area -> Nat] /\ rank[st] = 0
      /\ \A n \in closed : rank[n] < size
      /\ \A n \in closed \ {st} : SeenIn(c, n, id) /\ rank[c.parent[n]] < rank[n]
      /\ \A n \in Area \ {st} : SeenIn(c, n, id) =>
           c.parent[n] \in closed /\ Adjacent(n, c.parent[n])
      /\ \A n \in closed : \A m \in Area : Adjacent(n, m) => m \in closed \/ SeenIn(c, m, id)
      /\ \A n \in Area \ closed : SeenIn(c, n, id) => \E p \in open : p[2] = n
      /\ \A p \in open : p[2] \in Area /\ SeenIn(c, p[2], id)
  BY DEF Ranked
<1>2. k \in Area /\ SeenIn(c, k, id)
  BY <1>1
<1>3. PICK T \in SUBSET Area :
           /\ \A n \in T : Adjacent(k, n) /\ c.closed[n] # id
           /\ \A n \in Area : Adjacent(k, n) /\ c.closed[n] # id /\ ~SeenIn(c, n, id) => n \in T
           /\ CellsKept(cells', id)
           /\ \A n \in Area : /\ cells'.parent[n] = IF n \in T THEN k ELSE c.parent[n]
                              /\ cells'.seen[n] = IF n \in T THEN id ELSE c.seen[n]
                              /\ cells'.closed[n] = IF n = k THEN id ELSE c.closed[n]
           /\ open \ {o} \subseteq openList'
           /\ \A n \in T : \E p \in openList' : p[2] = n
           /\ \A p \in openList' : p \in open \ {o} \/ p[2] \in T
  <2>1. PICK T \in SUBSET Area : Touches(T, c, rest, k, id)
    BY <1>2, Checked
  <2> QED
    BY <2>1 DEF Touches
<1>4. ClosedOf(cells', id) = closed \cup {k} /\ k \notin closed /\ closed \subseteq Area
  BY <1>2, <1>3 DEF ClosedOf
<1>5. size \in Nat /\ Cardinality(closed \cup {k}) = size + 1
  BY <1>4, ClosedAre, FS_AddElement
<1>6. k \notin T /\ \A n \in T : n \notin closed
  BY <1>3 DEF ClosedOf, Adjacent
<1>7. \A n \in Area : SeenIn(cells', n, id) <=> n \in T \/ SeenIn(c, n, id)
  BY <1>3 DEF SeenIn
<1> HIDE DEF closed, size
<1> DEFINE r == [rank EXCEPT ![k] = size]
<1>8. /\ r \in [Area -> Nat] /\ r[k] = size /\ \A n \in Area \ {k} : r[n] = rank[n]
  BY <1>1, <1>2, <1>5
<1> HIDE DEF r
<1>9. st \in Area /\ st # k
  BY <1>1, <1>4
<1>10. r[st] = 0
  BY <1>1, <1>8, <1>9
<1>11. \A n \in closed \cup {k} : r[n] < size + 1
  <2>1. \A n \in closed : r[n] = rank[n] /\ rank[n] < size /\ rank[n] \in Nat
    BY <1>1, <1>4, <1>8
  <2> QED
    BY <1>5, <1>8, <2>1
<1>12. \A n \in closed \ {st} : /\ cells'.parent[n] = c.parent[n] /\ n # k /\ n \in Area
                                /\ c.parent[n] \in closed /\ c.parent[n] # k
  BY <1>1, <1>3, <1>4, <1>6
<1>13. ASSUME NEW n \in (closed \cup {k}) \ {st}
       PROVE  SeenIn(cells', n, id) /\ r[cells'.parent[n]] < r[n]
  <2>1. CASE n = k
    <3>1. cells'.parent[k] = c.parent[k] /\ c.parent[k] \in closed
      BY <1>1, <1>2, <1>3, <1>6, <1>9
    <3>2. r[c.parent[k]] = rank[c.parent[k]] /\ rank[c.parent[k]] < size
      BY <1>1, <1>4, <1>8, <3>1
    <3> QED
      BY <1>2, <1>7, <1>8, <2>1, <3>1, <3>2
  <2>2. CASE n # k
    <3>1. n \in closed \ {st}
      BY <2>2
    <3>2. SeenIn(c, n, id) /\ rank[c.parent[n]] < rank[n]
      BY <1>1, <3>1
    <3>3. r[c.parent[n]] = rank[c.parent[n]] /\ r[n] = rank[n]
      BY <1>4, <1>8, <1>12, <3>1
    <3> QED
      BY <1>7, <1>12, <3>1, <3>2, <3>3
  <2> QED
    BY <2>1, <2>2
<1>14. ASSUME NEW n \in Area \ {st}, SeenIn(cells', n, id)
       PROVE  cells'.parent[n] \in closed \cup {k} /\ Adjacent(n, cells'.parent[n])
  <2>1. CASE n \in T
    <3>1. cells'.parent[n] = k /\ Adjacent(n, k)
      BY <1>2, <1>3, <2>1, AdjacentFacts
    <3> QED
      BY <3>1
  <2>2. CASE n \notin T
    BY <1>1, <1>3, <1>7, <1>14, <2>2
  <2> QED
    BY <2>1, <2>2
<1>15. ASSUME NEW n \in closed \cup {k}, NEW m \in Area, Adjacent(n, m)
       PROVE  m \in closed \cup {k} \/ SeenIn(cells', m, id)
  <2>1. CASE n = k
    <3>1. c.closed[m] = id => m \in closed
      BY DEF closed, ClosedOf
    <3> QED
      BY <1>3, <1>7, <1>15, <2>1, <3>1
  <2>2. CASE n \in closed
    BY <1>1, <1>7, <1>15, <2>2
  <2> QED
    BY <2>1, <2>2
<1>16. ASSUME NEW n \in Area \ (closed \cup {k}), SeenIn(cells', n, id)
       PROVE  \E p \in openList' : p[2] = n
  <2>1. CASE n \in T
    BY <1>3, <2>1
  <2>2. CASE n \notin T
    <3>1. SeenIn(c, n, id) /\ n \notin closed /\ n # k
      BY <1>7, <1>16, <2>2
    <3>2. PICK p \in open : p[2] = n
      BY <1>1, <3>1
    <3>3. p # o
      BY <3>1, <3>2
    <3> QED
      BY <1>3, <3>2, <3>3
  <2> QED
    BY <2>1, <2>2
<1>17. \A p \in openList' : p[2] \in Area /\ SeenIn(cells', p[2], id)
  BY <1>1, <1>3, <1>7
<1>18. Ranked(cells', openList', id, st, r)
  <2>1. /\ st \in closed \cup {k} /\ r \in [Area -> Nat] /\ r[st] = 0
        /\ \A n \in closed \cup {k} : r[n] < Cardinality(closed \cup {k})
    BY <1>1, <1>5, <1>8, <1>10, <1>11
  <2> QED
    BY <1>4, <1>13, <1>14, <1>15, <1>16, <1>17, <2>1 DEF Ranked
<1> QED
  BY <1>3, <1>4, <1>18 DEF closed

\* The parents of a cell, from one to the next, until the start comes.
StartAt(f) == CHOOSE i \in Area : f[i] = startKey /\ \A j \in 1..i - 1 : f[j] # startKey
WalkBy(f) == [i \in 1..StartAt(f) + 1 |-> f[i - 1]]

LEMMA WalkStep ==
  ASSUME NEW k
  PROVE  \E f : /\ f[0] = k
                /\ \A i \in Area : f[i] = cells.parent[f[i - 1]]
                /\ Back(k) = WalkBy(f)
<1> DEFINE N == astarSize * astarSize
           Solves(f) == f = [i \in 0..N |-> IF i = 0 THEN k ELSE cells.parent[f[i - 1]]]
           G == [i \in 1..N |-> cells.parent]
<1>1. N \in Nat /\ Area = 1..N
  BY KeysAre DEF Area
<1> HIDE DEF N
<1>2. PICK g : StepByStep(g, k, G, N)
  <2> HIDE DEF G
  <2> QED
    BY <1>1, StepsExist
<1>3. Solves(g)
  <2>1. g = [i \in 0..N |-> g[i]] /\ g[0] = k
    BY <1>2 DEF StepByStep
  <2>2. \A i \in 1..N : g[i] = cells.parent[g[i - 1]]
    BY <1>2 DEF StepByStep
  <2>3. ASSUME NEW i \in 0..N PROVE g[i] = IF i = 0 THEN k ELSE cells.parent[g[i - 1]]
    <3>1. i = 0 \/ i \in 1..N
      BY <1>1
    <3> QED
      BY <2>1, <2>2, <3>1
  <2> QED
    BY <2>1, <2>3
<1> DEFINE back == CHOOSE f : Solves(f)
<1>4. Solves(back)
  <2> HIDE DEF Solves
  <2> QED
    BY <1>3
<1>5. Back(k) = WalkBy(back)
  BY DEF Back, N, WalkBy, StartAt
<1> HIDE DEF back
<1>6. back[0] = k /\ \A i \in 1..N : back[i] = cells.parent[back[i - 1]]
  BY <1>1, <1>4
<1> QED
  BY <1>1, <1>5, <1>6

\* From an open cell, they are a way to the start.
LEMMA WalkIsWay ==
  ASSUME NEW id \in Nat, NEW rank, Ranked(cells, openList, id, startKey, rank),
         NEW k \in Area, k \notin ClosedOf(cells, id), SeenIn(cells, k, id)
  PROVE  Way(Back(k), k, startKey)
<1> DEFINE closed == ClosedOf(cells, id)
           size == Cardinality(closed)
           N == astarSize * astarSize
           st == startKey
           parent == cells.parent
<1>1. /\ st \in closed /\ rank \in [Area -> Nat]
      /\ \A n \in closed : rank[n] < size
      /\ \A n \in closed \ {st} : SeenIn(cells, n, id) /\ rank[parent[n]] < rank[n]
      /\ \A n \in Area \ {st} : SeenIn(cells, n, id) =>
           parent[n] \in closed /\ Adjacent(n, parent[n])
  BY DEF Ranked
<1>2. closed \subseteq Area /\ size \in Nat /\ size < N /\ N \in Nat /\ Area = 1..N
  BY ClosedAre, KeysAre DEF ClosedOf, Area
<1>3. PICK f : /\ f[0] = k
               /\ \A i \in Area : f[i] = cells.parent[f[i - 1]]
               /\ Back(k) = WalkBy(f)
  BY WalkStep
<1> DEFINE Known == {n \in Area : n = st \/ SeenIn(cells, n, id)}
           Hits == {i \in 1..N : f[i] = st}
<1>4. k # st /\ k \in Known
  BY <1>1
<1>5. \A n \in Known \ {st} : parent[n] \in closed /\ parent[n] \in Known /\ Adjacent(n, parent[n])
  BY <1>1, <1>2
<1> HIDE DEF closed, size, N, Known, st, parent
<1>6. Hits # {}
  <2> SUFFICES ASSUME Hits = {} PROVE FALSE
    OBVIOUS
  <2> DEFINE P == {i \in Nat : /\ f[i] \in Known \ {st}
                               /\ i = 0 \/ (f[i] \in closed /\ rank[f[i]] + i <= size)}
  <2>1. 0 \in P
    BY <1>3, <1>4
  <2>2. ASSUME NEW i \in 1..N, i - 1 \in P PROVE i \in P
    <3>1. f[i - 1] \in Known \ {st} /\ f[i] = parent[f[i - 1]]
      BY <1>2, <1>3, <2>2 DEF parent
    <3>2. f[i] \in closed /\ f[i] \in Known
      BY <1>5, <3>1
    <3>3. f[i] # st
      OBVIOUS
    <3>4. rank[f[i]] \in Nat /\ rank[f[i]] < size
      BY <1>1, <1>2, <3>2
    <3>5. rank[f[i]] + i <= size
      <4>1. CASE i = 1
        BY <1>2, <3>4, <4>1
      <4>2. CASE i # 1
        <5>1. f[i - 1] \in closed /\ rank[f[i - 1]] + (i - 1) <= size
          BY <2>2, <4>2
        <5>2. rank[f[i]] < rank[f[i - 1]]
          BY <1>1, <3>1, <5>1
        <5>3. rank[f[i - 1]] \in Nat
          BY <1>1, <1>2, <5>1
        <5> QED
          BY <1>2, <3>4, <5>1, <5>2, <5>3
      <4> QED
        BY <4>1, <4>2
    <3> QED
      BY <3>2, <3>3, <3>5
  <2> HIDE DEF P
  <2>3. \A i \in 0..N : i \in P
    BY <1>2, <2>1, <2>2, UpTo
  <2>4. N \in 0..N /\ N # 0
    BY <1>2
  <2>5. N \in P
    BY <2>3, <2>4
  <2>6. f[N] \in closed /\ rank[f[N]] + N <= size
    BY <2>4, <2>5 DEF P
  <2>7. rank[f[N]] \in Nat
    BY <1>1, <1>2, <2>6
  <2> QED
    BY <1>2, <2>6, <2>7
<1>7. PICK l \in Hits : \A i \in Hits : l <= i
  <2>1. Hits \in SUBSET Nat
    OBVIOUS
  <2> HIDE DEF Hits
  <2> QED
    BY <1>6, <2>1, LeastNumber
<1> DEFINE n == StartAt(f)
<1>8. n \in 1..N /\ f[n] = st /\ \A j \in 1..n - 1 : f[j] # st
  <2>1. l \in Area /\ f[l] = startKey
    BY <1>2 DEF st
  <2>2. \A j \in 1..l - 1 : f[j] # startKey
    <3> SUFFICES ASSUME NEW j \in 1..l - 1, f[j] = st PROVE FALSE
      BY DEF st
    <3>1. j \in Hits /\ ~(l <= j)
      BY <1>2
    <3> HIDE DEF Hits
    <3> QED
      BY <1>7, <3>1
  <2>3. n \in Area /\ f[n] = startKey /\ \A j \in 1..n - 1 : f[j] # startKey
    BY <2>1, <2>2 DEF StartAt
  <2> HIDE DEF n
  <2> QED
    BY <1>2, <2>3 DEF st
<1> DEFINE w == [i \in 1..n + 1 |-> f[i - 1]]
<1>9. Back(k) = w
  BY <1>3 DEF WalkBy
<1> HIDE DEF n
<1>10. n \in Nat /\ n >= 1 /\ n <= N
  BY <1>2, <1>8
<1>11. \A i \in 0..n - 1 : f[i] # st
  BY <1>3, <1>4, <1>8, <1>10
<1>12. \A i \in 0..n : f[i] \in Known
  <2> DEFINE P == {i \in Nat : f[i] \in Known}
  <2>1. 0 \in P
    BY <1>3, <1>4
  <2>2. ASSUME NEW i \in 1..n, i - 1 \in P PROVE i \in P
    <3>1. i \in Area /\ i - 1 \in 0..n - 1
      BY <1>2, <1>10
    <3>2. f[i] = parent[f[i - 1]] /\ f[i - 1] \in Known \ {st}
      BY <1>3, <1>11, <2>2, <3>1 DEF parent
    <3> QED
      BY <1>5, <3>2
  <2> HIDE DEF P
  <2>3. \A i \in 0..n : i \in P
    BY <1>10, <2>1, <2>2, UpTo
  <2> QED
    BY <2>3 DEF P
<1>13. \A i \in 0..n - 1 : Adjacent(f[i], f[i + 1])
  <2> TAKE i \in 0..n - 1
  <2>1. i + 1 \in Area /\ (i + 1) - 1 = i /\ i \in 0..n
    BY <1>2, <1>10
  <2>2. f[i + 1] = parent[f[i]]
    BY <1>3, <2>1 DEF parent
  <2>3. f[i] \in Known \ {st}
    BY <1>11, <1>12, <2>1
  <2> QED
    BY <1>5, <2>2, <2>3
<1>14. w \in Seq(Area) /\ Len(w) = n + 1
  <2>1. \A i \in 1..n + 1 : i - 1 \in 0..n
    BY <1>10
  <2>2. \A i \in 1..n + 1 : f[i - 1] \in Area
    BY <1>12, <2>1 DEF Known
  <2>3. w \in [1..n + 1 -> Area] /\ n + 1 \in Nat
    BY <1>10, <2>2
  <2> HIDE DEF w
  <2> QED
    BY <2>3
<1>15. w[1] = k /\ w[n + 1] = st
  BY <1>3, <1>8, <1>10
<1>16. \A i \in 1..n : w[i] # st /\ Adjacent(w[i], w[i + 1])
  <2> TAKE i \in 1..n
  <2>1. i - 1 \in 0..n - 1 /\ (i - 1) + 1 = i /\ i \in 1..n + 1 /\ i + 1 \in 1..n + 1
        /\ (i + 1) - 1 = i
    BY <1>10
  <2>2. w[i] = f[i - 1] /\ w[i + 1] = f[i]
    BY <2>1
  <2> HIDE DEF w
  <2>3. f[i - 1] # st
    BY <1>11, <2>1
  <2>4. Adjacent(f[i - 1], f[i])
    BY <1>13, <2>1
  <2> QED
    BY <2>2, <2>3, <2>4
<1> HIDE DEF w
<1>17. /\ Len(w) >= 2 /\ w[Len(w)] = startKey
       /\ \A i \in 1..Len(w) - 1 : w[i] # startKey /\ Adjacent(w[i], w[i + 1])
  BY <1>10, <1>14, <1>15, <1>16 DEF st
<1> QED
  BY <1>9, <1>14, <1>15, <1>17 DEF Way

\* What is left of a way behind one of its cells is a way.
LEMMA RestOfWay ==
  ASSUME NEW w, NEW k, NEW st, Way(w, k, st), NEW s \in 1..Len(w) - 1
  PROVE  LET v == SubSeq(w, s, Len(w))
         IN /\ Way(v, w[s], st) /\ Len(v) = Len(w) - s + 1
            /\ \A i \in 1..Len(v) : v[i] = w[s + i - 1]
<1> DEFINE v == SubSeq(w, s, Len(w))
<1>1. /\ w \in Seq(Area) /\ Len(w) \in Nat /\ Len(w) >= 2 /\ w[Len(w)] = st
      /\ \A i \in 1..Len(w) - 1 : w[i] # st /\ Adjacent(w[i], w[i + 1])
  BY DEF Way
<1>2. /\ v \in Seq(Area) /\ Len(v) = Len(w) - s + 1
      /\ \A i \in 1..Len(v) : v[i] = w[s + i - 1]
  BY <1>1
<1> HIDE DEF v
<1>3. Len(v) >= 2 /\ v[1] = w[s] /\ v[Len(v)] = st
  BY <1>1, <1>2
<1>4. \A i \in 1..Len(v) - 1 : v[i] # st /\ Adjacent(v[i], v[i + 1])
  <2> TAKE i \in 1..Len(v) - 1
  <2>1. i \in 1..Len(v) /\ i + 1 \in 1..Len(v) /\ s + i - 1 \in 1..Len(w) - 1
        /\ s + (i + 1) - 1 = (s + i - 1) + 1
    BY <1>1, <1>2
  <2>2. v[i] = w[s + i - 1] /\ v[i + 1] = w[(s + i - 1) + 1]
    <3>1. v[i + 1] = w[s + (i + 1) - 1]
      BY <1>2, <2>1
    <3> QED
      BY <1>2, <2>1, <3>1
  <2> QED
    BY <1>1, <2>1, <2>2
<1> QED
  BY <1>2, <1>3, <1>4 DEF Way, v

\* How far cells are from each other.
Far(n, m) == Apart(X(n), X(m)) + Apart(Y(n), Y(m))

\* The distance is a number.
LEMMA FarIs == \A n, m \in Area : Far(n, m) \in Nat
<1> TAKE n, m \in Area
<1>1. \A p, q \in Int : Apart(p, q) \in Nat
  BY DEF Apart
<1>2. X(n) \in Int /\ Y(n) \in Int /\ X(m) \in Int /\ Y(m) \in Int
  BY CellFacts
<1>3. Apart(X(n), X(m)) \in Nat /\ Apart(Y(n), Y(m)) \in Nat
  BY <1>1, <1>2
<1> QED
  BY <1>3 DEF Far

\* Beside a cell is one that is nearer to another.
LEMMA Nearer ==
  ASSUME NEW n \in Area, NEW m \in Area, n # m
  PROVE  \E z \in Area : Adjacent(n, z) /\ Far(z, m) < Far(n, m)
<1>1. /\ X(n) \in 0..Last /\ Y(n) \in 0..Last /\ X(m) \in 0..Last /\ Y(m) \in 0..Last
      /\ Last \in Nat
  BY CellFacts
<1>2. PICK dx \in {-1, 0, 1} : dx = IF X(n) < X(m) THEN 1 ELSE IF X(n) > X(m) THEN -1 ELSE 0
  OBVIOUS
<1>3. PICK dy \in {-1, 0, 1} : dy = IF Y(n) < Y(m) THEN 1 ELSE IF Y(n) > Y(m) THEN -1 ELSE 0
  OBVIOUS
<1>4. X(n) + dx \in 0..Last /\ Y(n) + dy \in 0..Last
  BY <1>1, <1>2, <1>3
<1>5. dx # 0 \/ dy # 0
  <2> SUFFICES ASSUME dx = 0, dy = 0 PROVE FALSE
    OBVIOUS
  <2>1. X(n) = X(m) /\ Y(n) = Y(m)
    BY <1>1, <1>2, <1>3
  <2>2. n = X(n) + astarSize * Y(n) + 1 /\ m = X(m) + astarSize * Y(m) + 1
    BY CellFacts
  <2> QED
    BY <2>1, <2>2
<1>6. PICK z : z = n + dx + astarSize * dy
  OBVIOUS
<1>7. z \in Area /\ X(z) = X(n) + dx /\ Y(z) = Y(n) + dy
  <2>1. dx \in Units /\ dy \in Units
    BY DEF Units
  <2> QED
    BY <1>4, <1>6, <2>1, CellAt
<1>8. X(z) - X(n) = dx /\ Y(z) - Y(n) = dy
  BY <1>1, <1>7
<1>9. Adjacent(n, z)
  <2>1. n # z
    BY <1>1, <1>5, <1>8
  <2> QED
    BY <1>8, <2>1 DEF Adjacent, Aside
<1>10. Far(z, m) < Far(n, m)
  <2>1. Apart(X(n) + dx, X(m)) <= Apart(X(n), X(m))
        /\ (dx # 0 => Apart(X(n) + dx, X(m)) < Apart(X(n), X(m)))
    BY <1>1, <1>2 DEF Apart
  <2>2. Apart(Y(n) + dy, Y(m)) <= Apart(Y(n), Y(m))
        /\ (dy # 0 => Apart(Y(n) + dy, Y(m)) < Apart(Y(n), Y(m)))
    BY <1>1, <1>3 DEF Apart
  <2>3. \A p, q \in Int : Apart(p, q) \in Nat
    BY DEF Apart
  <2>4. X(n) + dx \in Int /\ Y(n) + dy \in Int /\ X(n) \in Int /\ Y(n) \in Int
        /\ X(m) \in Int /\ Y(m) \in Int
    BY <1>1
  <2>5. /\ Apart(X(n) + dx, X(m)) \in Nat /\ Apart(X(n), X(m)) \in Nat
        /\ Apart(Y(n) + dy, Y(m)) \in Nat /\ Apart(Y(n), Y(m)) \in Nat
    BY <2>3, <2>4
  <2>6. Apart(X(n) + dx, X(m)) + Apart(Y(n) + dy, Y(m)) < Apart(X(n), X(m)) + Apart(Y(n), Y(m))
    BY <1>5, <2>1, <2>2, <2>5
  <2> QED
    BY <1>7, <2>6 DEF Far
<1> QED
  BY <1>7, <1>9, <1>10

\* A set of cells that has all cells beside its own is the whole map.
LEMMA AllConnected ==
  ASSUME NEW S \in SUBSET Area, NEW st \in S,
         \A n \in S : \A m \in Area : Adjacent(n, m) => m \in S
  PROVE  S = Area
<1> SUFFICES ASSUME S # Area PROVE FALSE
  OBVIOUS
<1> DEFINE Fars == {Far(n, m) : n \in S, m \in Area \ S}
<1>1. Fars \in SUBSET Nat /\ Fars # {}
  <2>1. \A n \in S, m \in Area \ S : Far(n, m) \in Nat
    BY FarIs
  <2>2. PICK m : m \in Area \ S
    OBVIOUS
  <2>3. Far(st, m) \in Fars
    BY <2>2
  <2>4. Fars \in SUBSET Nat
    BY <2>1
  <2> QED
    BY <2>3, <2>4
<1>2. PICK d \in Fars : \A e \in Fars : d <= e
  <2> HIDE DEF Fars
  <2> QED
    BY <1>1, LeastNumber
<1>3. PICK n \in S, m \in Area \ S : d = Far(n, m)
  OBVIOUS
<1>4. n \in Area /\ m \in Area /\ n # m
  BY <1>3
<1>5. PICK z \in Area : Adjacent(n, z) /\ Far(z, m) < Far(n, m)
  BY <1>4, Nearer
<1>6. z \in S
  BY <1>5
<1>7. Far(z, m) \in Fars
  BY <1>6
<1>8. d <= Far(z, m)
  <2> HIDE DEF Fars
  <2> QED
    BY <1>2, <1>7
<1>9. Far(z, m) \in Nat /\ Far(n, m) \in Nat
  BY <1>4, FarIs
<1> QED
  BY <1>3, <1>5, <1>8, <1>9

-----------------------------------------------------------------------------
(* The searches. *)

Weights == {0, 60, 80, 200}

\* An answer leads where it says. While a search runs there is none, and the
\* cells say what it knows; the numbers of earlier searches are lower.
SearchInvariant ==
  /\ searchId \in Nat /\ CellsKept(cells, searchId)
  /\ cellW \in [Area -> Weights]
  /\ \A k \in Area : k \in plan.walls => cellW[k] # 0
  /\ Running => answer = {} /\ Explored(cells, openList, searchId, startKey)
  /\ ~Running => AnswerLeads

\* A new battle has no search and no answer.
LEMMA SearchStarts == SearchInit => SearchInvariant
<1> SUFFICES ASSUME SearchInit PROVE SearchInvariant
  OBVIOUS
<1>1. searchId = 0 /\ startKey = 0 /\ answer = {}
  BY DEF SearchInit
<1>2. CellsKept(cells, searchId)
  BY DEF SearchInit, CellsKept
<1>3. cellW \in [Area -> Weights] /\ \A k \in Area : k \in plan.walls => cellW[k] # 0
  BY DEF SearchInit, Weights
<1>4. AnswerLeads
  BY <1>1 DEF AnswerLeads, RouteLeads, NoneMeansNowhere
<1> QED
  BY <1>1, <1>2, <1>3, <1>4 DEF SearchInvariant, Running

\* The cells as an earlier search leaves them say nothing of the next.
LEMMA StartKeepsIt ==
  ASSUME SearchInvariant, NEW t, NEW k \in Area, StartSearch(t, k)
  PROVE  SearchInvariant'
<1> DEFINE c == [cells EXCEPT !.g[k] = 0]
           id == searchId + 1
<1>1. /\ searchId \in Nat /\ CellsKept(cells, searchId) /\ id \in Nat
      /\ searchId' = id /\ startKey' = k /\ answer' = {} /\ plan' = plan /\ cellW' = cellW
      /\ CheckNeighbours(c, {}, k, id)
  BY DEF SearchInvariant, StartSearch
<1>2. /\ c.seen = cells.seen /\ c.closed = cells.closed
      /\ c = [g |-> c.g, parent |-> c.parent, seen |-> c.seen, closed |-> c.closed]
  BY <1>1 DEF CellsKept
<1>3. /\ cells.seen \in [Area -> 0..searchId] /\ cells.closed \in [Area -> 0..searchId]
  BY <1>1 DEF CellsKept
<1> HIDE DEF c
<1>4. /\ c.seen \in [Area -> 0..id] /\ c.closed \in [Area -> 0..id]
      /\ \A n \in Area : c.closed[n] # id /\ c.seen[n] # id
  <2>1. 0..searchId \subseteq 0..id /\ id \notin 0..searchId
    BY <1>1
  <2> HIDE DEF id
  <2> QED
    BY <1>2, <1>3, <2>1
<1>5. CellsKept(c, id)
  BY <1>2, <1>4 DEF CellsKept
<1> HIDE DEF id
<1>6. /\ CellsKept(cells', id) /\ \E rank : Ranked(cells', openList', id, k, rank)
      /\ ClosedOf(cells', id) = {k}
  BY <1>1, <1>4, <1>5, FirstChecked
<1>7. (CellsKept(cells, searchId))'
  BY <1>1, <1>6 DEF CellsKept
<1>8. (Explored(cells, openList, searchId, startKey))'
  <2>1. \E rank : Ranked(cells', openList', searchId', startKey', rank)
    BY <1>1, <1>6
  <2>2. ClosedOf(cells', searchId') \ {startKey'} = {}
    BY <1>1, <1>6
  <2> QED
    BY <2>1, <2>2 DEF Explored
<1>9. k # 0
  BY DEF Area
<1>10. /\ cellW' \in [Area -> Weights] /\ \A n \in Area : n \in plan'.walls => cellW'[n] # 0
  BY <1>1 DEF SearchInvariant
<1> QED
  BY <1>1, <1>7, <1>8, <1>9, <1>10 DEF SearchInvariant, Running

\* A soldier within walls gets an answer without a path.
LEMMA WalledKeepsIt ==
  ASSUME SearchInvariant, NEW t, StartWalled(t)
  PROVE  SearchInvariant'
<1>1. /\ searchId \in Nat /\ searchId' = searchId + 1 /\ startKey = 0 /\ startKey' = 0
      /\ plan' = plan /\ cellW' = cellW /\ cells' = cells /\ cellW[t.from] > 0
      /\ answer' = {[real |-> t.to, attack |-> IF t.from \in plan.walls THEN t.from ELSE 0,
                     path |-> <<>>, start |-> t.from]}
  BY DEF SearchInvariant, StartWalled, Running
<1>2. (CellsKept(cells, searchId))'
  <2>1. CellsKept(cells, searchId) /\ 0..searchId \subseteq 0..(searchId + 1)
    BY <1>1 DEF SearchInvariant
  <2> QED
    BY <1>1, <2>1 DEF CellsKept
<1>3. \A r \in answer' : r.path = <<>> /\ r.start = t.from
  BY <1>1
<1>4. AnswerLeads'
  BY <1>1, <1>3 DEF AnswerLeads, RouteLeads, NoneMeansNowhere
<1> QED
  BY <1>1, <1>2, <1>4 DEF SearchInvariant, Running

\* A cell that is closed already leaves the open list.
LEMMA SkipKeepsIt ==
  ASSUME SearchInvariant, NEW o \in openList, SkipClosed(o)
  PROVE  SearchInvariant'
<1>1. /\ Running /\ openList' = openList \ {o}
      /\ plan' = plan /\ cellW' = cellW /\ cells' = cells /\ searchId' = searchId /\ task' = task
      /\ startKey' = startKey /\ answer' = answer /\ Closed(cells, o[2], searchId)
  BY DEF SkipClosed
<1>2. PICK rank : Ranked(cells, openList, searchId, startKey, rank)
  BY <1>1 DEF SearchInvariant, Explored
<1>3. o[2] \in Area
  BY <1>2 DEF Ranked
<1>4. o[2] \in ClosedOf(cells, searchId)
  <2>1. cells.closed[o[2]] \in 0..searchId /\ searchId \in Nat
    BY <1>3 DEF SearchInvariant, CellsKept
  <2> QED
    BY <1>1, <1>3, <2>1 DEF Closed, ClosedOf
<1>5. \A n \in Area \ ClosedOf(cells, searchId) :
        SeenIn(cells, n, searchId) => \E p \in openList' : p[2] = n
  <2> TAKE n \in Area \ ClosedOf(cells, searchId)
  <2> HAVE SeenIn(cells, n, searchId)
  <2>1. PICK p \in openList : p[2] = n
    BY <1>2 DEF Ranked
  <2>2. p # o
    BY <1>4, <2>1
  <2> QED
    BY <1>1, <2>1, <2>2
<1>6. \A p \in openList' : p \in openList
  BY <1>1
<1>7. Ranked(cells, openList', searchId, startKey, rank)
  BY <1>2, <1>5, <1>6 DEF Ranked
<1>8. (Explored(cells, openList, searchId, startKey))'
  <2>1. \E r : Ranked(cells', openList', searchId', startKey', r)
    BY <1>1, <1>7
  <2>2. \A n \in ClosedOf(cells', searchId') \ {startKey'} : ~(ResultGrid(task, n))'
    BY <1>1 DEF SearchInvariant, Explored, ResultGrid
  <2> QED
    BY <2>1, <2>2 DEF Explored
<1> QED
  BY <1>1, <1>8 DEF SearchInvariant, Running, CellsKept

\* A cell of the open list is closed.
LEMMA GoOnKeepsIt ==
  ASSUME SearchInvariant, NEW o \in openList, GoOn(o)
  PROVE  SearchInvariant'
<1> DEFINE k == o[2]
<1>1. /\ Running /\ ~Closed(cells, k, searchId) /\ ~ResultGrid(task, k)
      /\ plan' = plan /\ cellW' = cellW /\ searchId' = searchId /\ task' = task
      /\ startKey' = startKey /\ answer' = answer
      /\ CheckNeighbours(cells, openList \ {o}, k, searchId)
  BY DEF GoOn
<1>2. PICK rank : Ranked(cells, openList, searchId, startKey, rank)
  BY <1>1 DEF SearchInvariant, Explored
<1>3. k \in Area
  BY <1>2 DEF Ranked
<1> HIDE DEF k
<1>4. cells.closed[k] # searchId /\ searchId \in Nat /\ CellsKept(cells, searchId)
  <2>1. cells.closed[k] \in 0..searchId /\ searchId \in Nat
    BY <1>3 DEF SearchInvariant, CellsKept
  <2> QED
    BY <1>1, <2>1 DEF Closed, SearchInvariant
<1>5. /\ CellsKept(cells', searchId) /\ \E r : Ranked(cells', openList', searchId, startKey, r)
      /\ \A n : n \in ClosedOf(cells', searchId) <=> n \in ClosedOf(cells, searchId) \/ n = k
  <2>1. PICK rest : rest = openList \ {o} /\ CheckNeighbours(cells, rest, k, searchId)
    BY <1>1 DEF k
  <2>4. k = o[2]
    BY DEF k
  <2>3. searchId \in Nat /\ CellsKept(cells, searchId) /\ cells.closed[k] # searchId
    BY <1>4
  <2> QED
    BY <1>2, <2>1, <2>3, <2>4, NextChecked
<1>6. (CellsKept(cells, searchId))'
  BY <1>1, <1>5 DEF CellsKept
<1>7. (Explored(cells, openList, searchId, startKey))'
  <2>1. \E r : Ranked(cells', openList', searchId', startKey', r)
    BY <1>1, <1>5
  <2>2. \A n \in ClosedOf(cells, searchId) \ {startKey} : ~ResultGrid(task, n)
    BY <1>1 DEF SearchInvariant, Explored
  <2>3. \A n \in ClosedOf(cells', searchId') \ {startKey'} : ~(ResultGrid(task, n))'
    BY <1>1, <1>5, <2>2 DEF ResultGrid
  <2> QED
    BY <2>1, <2>3 DEF Explored
<1> QED
  BY <1>1, <1>6, <1>7 DEF SearchInvariant, Running

\* The openList ran empty: the search has closed every cell there is.
LEMMA GiveUpKeepsIt ==
  ASSUME SearchInvariant, GiveUp
  PROVE  SearchInvariant'
<1> DEFINE closed == ClosedOf(cells, searchId)
<1>1. /\ Running /\ openList = {} /\ startKey' = 0
      /\ plan' = plan /\ cellW' = cellW /\ cells' = cells /\ searchId' = searchId /\ task' = task
      /\ answer' = {[real |-> task.to, attack |-> 0, path |-> <<>>, start |-> startKey]}
  BY DEF GiveUp
<1>2. PICK rank : Ranked(cells, openList, searchId, startKey, rank)
  BY <1>1 DEF SearchInvariant, Explored
<1>3. /\ startKey \in closed /\ closed \in SUBSET Area
      /\ \A n \in closed : \A m \in Area : Adjacent(n, m) => m \in closed \/ SeenIn(cells, m, searchId)
      /\ \A n \in Area \ closed : ~SeenIn(cells, n, searchId)
  BY <1>1, <1>2 DEF Ranked, ClosedOf
<1> HIDE DEF closed
<1>4. closed = Area
  <2>1. \A n \in closed : \A m \in Area : Adjacent(n, m) => m \in closed
    BY <1>3
  <2> QED
    BY <1>3, <2>1, AllConnected
<1>5. \A n \in Area \ {startKey} : ~ResultGrid(task, n)
  BY <1>1, <1>4 DEF closed, SearchInvariant, Explored
<1>6. \A r \in answer' : r.path = <<>> /\ r.start = startKey
  BY <1>1
<1>7. AnswerLeads'
  BY <1>1, <1>5, <1>6 DEF AnswerLeads, RouteLeads, NoneMeansNowhere, ResultGrid
<1> QED
  BY <1>1, <1>7 DEF SearchInvariant, Running, CellsKept

\* The route back: it ends at the wall nearest to the start.
LEMMA ArriveKeepsIt ==
  ASSUME SearchInvariant, NEW o \in openList, Arrive(o)
  PROVE  SearchInvariant'
<1> DEFINE k == o[2]
           w == Back(k)
           crossed == {i \in 2..Len(w) : IsWall(w[i])}
           stop == IF crossed = {} THEN 1 ELSE CHOOSE i \in crossed : \A j \in crossed : j <= i
           real == IF k \in plan.likes THEN k ELSE task.to
           v == SubSeq(w, stop, Len(w))
           r == [real |-> real, attack |-> IF crossed = {} THEN real ELSE w[stop],
                 path |-> Turns(v), start |-> startKey]
<1>1. /\ Running /\ ~Closed(cells, k, searchId) /\ ResultGrid(task, k)
      /\ plan' = plan /\ cells' = cells /\ searchId' = searchId /\ task' = task
      /\ startKey' = 0 /\ answer' = {r}
      /\ cellW' = [n \in Area |-> IF \E i \in crossed : w[i] = n THEN 60 ELSE cellW[n]]
  BY DEF Arrive, Report
<1>2. PICK rank : Ranked(cells, openList, searchId, startKey, rank)
  BY <1>1 DEF SearchInvariant, Explored
<1>3. k \in Area /\ SeenIn(cells, k, searchId)
  BY <1>2 DEF Ranked
<1>4. searchId \in Nat /\ k \notin ClosedOf(cells, searchId)
  <2>1. searchId \in Nat
    BY DEF SearchInvariant
  <2>2. cells.closed[k] # searchId
    BY <1>1, <2>1 DEF Closed
  <2> QED
    BY <2>1, <2>2 DEF ClosedOf
<1> HIDE DEF k
<1>5. Way(w, k, startKey)
  BY <1>2, <1>3, <1>4, WalkIsWay
<1> HIDE DEF w
<1>6. /\ w \in Seq(Area) /\ Len(w) \in Nat /\ Len(w) >= 2 /\ w[1] = k /\ w[Len(w)] = startKey
      /\ \A i \in 1..Len(w) - 1 : w[i] # startKey
  BY <1>5 DEF Way
<1>7. /\ cellW \in [Area -> Weights] /\ \A n \in Area : n \in plan.walls => cellW[n] # 0
  BY DEF SearchInvariant
<1>8. /\ stop \in 1..Len(w) - 1 /\ \A j \in crossed : j <= stop
      /\ crossed = {} => stop = 1
      /\ crossed # {} => stop \in crossed
  <2>1. CASE crossed = {}
    <3>1. stop = 1
      BY <2>1
    <3> QED
      BY <1>6, <2>1, <3>1
  <2>2. CASE crossed # {}
    <3> DEFINE Left == {Len(w) - i : i \in crossed}
    <3>1. Left \in SUBSET Nat /\ Left # {}
      BY <1>6, <2>2
    <3>2. PICK d \in Left : \A e \in Left : d <= e
      <4> HIDE DEF Left
      <4> QED
        BY <3>1, LeastNumber
    <3>3. PICK i \in crossed : d = Len(w) - i
      OBVIOUS
    <3>4. \A j \in crossed : j <= i
      <4> TAKE j \in crossed
      <4>1. d <= Len(w) - j
        BY <3>2
      <4>2. i \in Int /\ j \in Int
        OBVIOUS
      <4> QED
        BY <1>6, <3>3, <4>1, <4>2
    <3>5. stop = CHOOSE m \in crossed : \A j \in crossed : j <= m
      BY <2>2
    <3> HIDE DEF stop, Left
    <3>6. stop \in crossed /\ \A j \in crossed : j <= stop
      <4> HIDE DEF crossed
      <4> QED
        BY <3>4, <3>5
    <3>7. stop \in 2..Len(w) /\ stop # Len(w)
      BY <1>6, <3>6 DEF IsWall
    <3> QED
      BY <1>6, <2>2, <3>6, <3>7
  <2> QED
    BY <2>1, <2>2
<1> HIDE DEF stop, v
<1>9. /\ Way(v, w[stop], startKey) /\ Len(v) = Len(w) - stop + 1
      /\ \A i \in 1..Len(v) : v[i] = w[stop + i - 1]
  BY <1>5, <1>8, RestOfWay DEF v
<1> DEFINE p == Turns(v)
           n == Len(p)
           points == [j \in 1..n + 1 |-> IF j = 1 THEN startKey ELSE p[n + 2 - j]]
           Cells == {v[m] : m \in 1..Len(v) - 1}
<1>10. /\ p \in Seq(Area) /\ n >= 1 /\ n \in Nat /\ p[1] = w[stop] /\ p # <<>>
       /\ \A i \in 1..n : /\ Straight(points[i], points[i + 1]) # {}
                          /\ Straight(points[i], points[i + 1]) \subseteq Cells
  <2>1. /\ p \in Seq(Area) /\ n >= 1 /\ p[1] = w[stop]
        /\ \A i \in 1..n : /\ Straight(points[i], points[i + 1]) # {}
                           /\ Straight(points[i], points[i + 1]) \subseteq Cells
    BY <1>9, LegsOfAWay
  <2> HIDE DEF p, points, Cells
  <2>2. n \in Nat /\ p # <<>>
    BY <2>1
  <2> QED
    BY <2>1, <2>2
<1>11. ASSUME NEW x \in Cells, x # w[stop] PROVE x \notin plan.walls
  <2>1. PICK m \in 1..Len(v) - 1 : x = v[m]
    OBVIOUS
  <2> DEFINE i == stop + m - 1
  <2>2. v[m] = w[i] /\ i \in 1..Len(w) - 1
    <3>1. stop \in 1..Len(w) - 1 /\ Len(v) = Len(w) - stop + 1 /\ Len(w) \in Nat
      BY <1>6, <1>8, <1>9
    <3>2. m \in 1..Len(v) /\ i \in 1..Len(w) - 1
      BY <3>1
    <3> QED
      BY <1>9, <3>2
  <2>3. m # 1
    BY <1>11, <1>8, <2>1, <2>2
  <2>4. i > stop /\ i \in 2..Len(w)
    BY <1>6, <1>8, <2>2, <2>3
  <2> HIDE DEF i
  <2>5. i \notin crossed
    <3>1. stop \in Int /\ i \in Int /\ ~(i <= stop)
      BY <1>8, <2>4
    <3> HIDE DEF crossed
    <3> QED
      BY <1>8, <3>1
  <2>6. ~IsWall(w[i]) /\ w[i] # startKey /\ w[i] \in Area
    BY <1>6, <2>2, <2>4, <2>5
  <2>7. cellW[w[i]] \in Weights
    BY <1>7, <2>6
  <2>8. w[i] \in plan.walls => cellW[w[i]] > 0
    BY <1>7, <2>6, <2>7 DEF Weights
  <2> QED
    BY <2>1, <2>2, <2>6, <2>8 DEF IsWall
<1>12. crossed = {} => cellW' = cellW
  BY <1>1, <1>7
<1>18. PICK end : end = w[stop]
  OBVIOUS
<1>13. IF end \in plan.walls THEN r.attack = end
       ELSE r.attack = r.real /\ (ResultGrid(task, end))'
  <2>1. CASE crossed = {}
    <3>1. end = k /\ r.attack = r.real
      BY <1>6, <1>8, <1>18, <2>1
    <3>2. cellW[k] = 0
      BY <1>1 DEF ResultGrid
    <3>3. k \notin plan.walls
      BY <1>3, <1>7, <3>2
    <3>4. (ResultGrid(task, end))'
      <4>1. cellW' = cellW /\ plan' = plan /\ task' = task /\ ResultGrid(task, end)
        BY <1>1, <1>12, <2>1, <3>1
      <4> QED
        BY <4>1 DEF ResultGrid
    <3> QED
      BY <3>1, <3>3, <3>4
  <2>2. CASE crossed # {}
    <3>1. end \in plan.walls /\ r.attack = end
      BY <1>8, <1>18, <2>2 DEF IsWall
    <3> QED
      BY <3>1
  <2> QED
    BY <2>1, <2>2
<1>14. r.real = task.to \/ r.real \in plan.likes
  OBVIOUS
<1>15. r.path = p /\ r.start = startKey
  OBVIOUS
<1>16. AnswerLeads'
  <2> HIDE DEF p, n, Cells, r, points
  <2>1. RouteLeads'
    <3> DEFINE onWay == UNION {Straight(points[i], points[i + 1]) : i \in 1..n}
    <3>1. \A x \in onWay \ {end} : x \notin plan.walls
      BY <1>10, <1>11, <1>18
    <3>2. p[1] = end /\ \A i \in 1..n : Straight(points[i], points[i + 1]) # {}
      BY <1>10, <1>18
    <3> HIDE DEF onWay
    <3>3. ASSUME NEW x \in answer'
          PROVE  LET xn == Len(x.path)
                     xpoints == [i \in 1..xn + 1 |-> IF i = 1 THEN x.start ELSE x.path[xn + 2 - i]]
                     xend == x.path[1]
                     xonWay == UNION {Straight(xpoints[i], xpoints[i + 1]) : i \in 1..xn}
                 IN /\ \A i \in 1..xn : Straight(xpoints[i], xpoints[i + 1]) # {}
                    /\ \A m \in xonWay \ {xend} : m \notin plan'.walls
                    /\ IF xend \in plan'.walls THEN x.attack = xend
                       ELSE x.attack = x.real /\ (ResultGrid(task, xend))'
                    /\ x.real = task'.to \/ x.real \in plan'.likes
      <4> DEFINE xn == Len(x.path)
                 xpoints == [i \in 1..xn + 1 |-> IF i = 1 THEN x.start ELSE x.path[xn + 2 - i]]
                 xend == x.path[1]
                 xonWay == UNION {Straight(xpoints[i], xpoints[i + 1]) : i \in 1..xn}
      <4>1. x = r
        BY <1>1
      <4>2. xn = n /\ xend = end
        BY <1>15, <3>2, <4>1 DEF n
      <4>3. xpoints = points
        BY <1>15, <4>1, <4>2 DEF n, points
      <4>4. xonWay = onWay
        BY <4>2, <4>3 DEF onWay
      <4>5. (ResultGrid(task, xend))' <=> (ResultGrid(task, end))'
        BY <4>1, <4>2
      <4> HIDE DEF xn, xpoints, xend, xonWay
      <4>6. \A i \in 1..xn : Straight(xpoints[i], xpoints[i + 1]) # {}
        BY <3>2, <4>2, <4>3
      <4>7. \A m \in xonWay \ {xend} : m \notin plan'.walls
        BY <1>1, <3>1, <4>2, <4>4
      <4>8. IF xend \in plan'.walls THEN x.attack = xend
            ELSE x.attack = x.real /\ (ResultGrid(task, xend))'
        BY <1>1, <1>13, <4>1, <4>2, <4>5
      <4>9. x.real = task'.to \/ x.real \in plan'.likes
        BY <1>1, <1>14, <4>1
      <4> QED
        BY <4>6, <4>7, <4>8, <4>9 DEF xn, xpoints, xend, xonWay
    <3> QED
      BY <3>3 DEF RouteLeads
  <2>2. NoneMeansNowhere'
    BY <1>1, <1>10, <1>15 DEF NoneMeansNowhere
  <2> QED
    BY <2>1, <2>2 DEF AnswerLeads
<1>17. /\ cellW' \in [Area -> Weights] /\ \A x \in Area : x \in plan'.walls => cellW'[x] # 0
  BY <1>1, <1>7 DEF Weights
<1> QED
  BY <1>1, <1>4, <1>16, <1>17 DEF SearchInvariant, Running, CellsKept

\* Whatever earlier searches left in the cells, with whatever walls and starts, the
\* route that a search answers leads, in straight stretches along cells without a wall
\* that could be attacked, to the wall it says to attack or to its target; and after a
\* search without a path no cell would have done but the one it started at: on a map of
\* any size (BattleMap:searchPathUsingAstar).
THEOREM AnswersLead == SearchSpec => []AnswerLeads
<1>1. SearchInit => SearchInvariant
  BY SearchStarts
<1>2. SearchInvariant /\ [SearchNext]_searchVars => SearchInvariant'
  <2> SUFFICES ASSUME SearchInvariant, [SearchNext]_searchVars PROVE SearchInvariant'
    OBVIOUS
  <2>1. CASE UNCHANGED searchVars
    BY <2>1 DEF searchVars, SearchInvariant, Running, CellsKept, Explored, Ranked, ClosedOf,
       SeenIn, ResultGrid, AnswerLeads, RouteLeads, NoneMeansNowhere
  <2>2. ASSUME NEW t \in Tasks, StartWalled(t) PROVE SearchInvariant'
    BY <2>2, WalledKeepsIt
  <2>3. ASSUME NEW t \in Tasks, NEW k \in Area, StartSearch(t, k) PROVE SearchInvariant'
    BY <2>3, StartKeepsIt
  <2>4. ASSUME NEW o \in openList, SkipClosed(o) PROVE SearchInvariant'
    BY <2>4, SkipKeepsIt
  <2>5. ASSUME NEW o \in openList, GoOn(o) PROVE SearchInvariant'
    BY <2>5, GoOnKeepsIt
  <2>6. ASSUME NEW o \in openList, Arrive(o) PROVE SearchInvariant'
    BY <2>6, ArriveKeepsIt
  <2>7. CASE GiveUp
    BY <2>7, GiveUpKeepsIt
  <2> QED
    BY <2>1, <2>2, <2>3, <2>4, <2>5, <2>6, <2>7 DEF SearchNext
<1>3. SearchInvariant => AnswerLeads
  BY DEF SearchInvariant, AnswerLeads, RouteLeads, NoneMeansNowhere
<1> QED
  BY <1>1, <1>2, <1>3, PTL DEF SearchSpec
===============================================================================
