---------------------------- MODULE NavSysProofs ----------------------------
(***************************************************************************)
(* Whatever is merged, replaced, run twice or cleared: a place of the      *)
(* result cache only ever holds the answer to what was asked under it.     *)
(***************************************************************************)
EXTENDS NavSys, TLAPS

Answers == [req : Requests, power : Powers]

\* The command c of the queue agrees with all that is known of its place.
Agrees(c) == /\ c.id \in 1 .. Len(cache)
             /\ \A a \in asked : a.id = c.id => a.req = c.req
             /\ \A b \in search : b.id = c.id => b.req = c.req
             /\ cache[c.id] # Pending => cache[c.id].req = c.req

AskedOK == \A a \in asked :
    a.id \in 1 .. Len(cache) /\ (cache[a.id] # Pending => cache[a.id].req = a.req)

IInv == TypeOK /\ AskedOK /\ \A c \in search : Agrees(c)

LEMMA InitInvariant == Init => IInv
<1> SUFFICES ASSUME Init PROVE IInv
  OBVIOUS
<1>1. <<>> \in Seq(Answers \cup {Pending})
  OBVIOUS
<1>2. TypeOK
  BY <1>1 DEF Init, TypeOK, Answers
<1>3. AskedOK /\ \A c \in search : Agrees(c)
  BY DEF Init, AskedOK
<1> QED
  BY <1>2, <1>3 DEF IInv

\* Running some commands of the queue puts into each place what was asked there.
LEMMA RunInvariant ==
    ASSUME IInv, NEW S \in SUBSET search, cache' = Answered(S),
           asked' = asked, search' \subseteq search,
           height' \in BOOLEAN, raised' \in BOOLEAN
    PROVE  IInv'
<1>1. /\ cache \in Seq(Answers \cup {Pending})
      /\ search \subseteq [req : Requests, power : Powers, id : Nat]
  BY DEF IInv, TypeOK, Answers
<1>2. DOMAIN cache = 1 .. Len(cache) /\ Len(cache) \in Nat
  BY <1>1
<1>3. ASSUME NEW i \in DOMAIN cache
      PROVE  \/ Answered(S)[i] = cache[i]
             \/ \E c \in S : c.id = i /\ Answered(S)[i] = Result(c)
  BY <1>3 DEF Answered
<1>4. ASSUME NEW c \in S
      PROVE  Result(c) \in Answers /\ Result(c).req = c.req
  BY <1>1 DEF Result, Answers
<1>5. cache' \in Seq(Answers \cup {Pending}) /\ Len(cache') = Len(cache)
  <2>1. cache' = [i \in 1 .. Len(cache) |-> Answered(S)[i]]
    BY <1>2 DEF Answered
  <2>2. \A i \in 1 .. Len(cache) : Answered(S)[i] \in Answers \cup {Pending}
    BY <1>1, <1>2, <1>3, <1>4
  <2> QED
    BY <1>2, <2>1, <2>2
<1>6. TypeOK'
  BY <1>1, <1>5 DEF IInv, TypeOK, Answers
<1>7. ASSUME NEW i \in 1 .. Len(cache), NEW r,
             \A c \in search : c.id = i => c.req = r,
             cache[i] # Pending => cache[i].req = r
      PROVE  cache'[i] # Pending => cache'[i].req = r
  <2>1. CASE Answered(S)[i] = cache[i]
    BY <1>7, <2>1
  <2>2. CASE \E c \in S : c.id = i /\ Answered(S)[i] = Result(c)
    BY <1>4, <1>7, <2>2
  <2> QED
    BY <1>2, <1>3, <2>1, <2>2
<1>8. AskedOK'
  <2> SUFFICES ASSUME NEW a \in asked
               PROVE  /\ a.id \in 1 .. Len(cache')
                      /\ cache'[a.id] # Pending => cache'[a.id].req = a.req
    BY DEF AskedOK
  <2>1. /\ a.id \in 1 .. Len(cache)
        /\ cache[a.id] # Pending => cache[a.id].req = a.req
        /\ \A c \in search : c.id = a.id => c.req = a.req
    BY DEF IInv, AskedOK, Agrees
  <2> QED
    BY <1>5, <1>7, <2>1
<1>9. \A c \in search' : Agrees(c)'
  <2> SUFFICES ASSUME NEW c \in search'
               PROVE  Agrees(c)'
    OBVIOUS
  <2>1. c \in search /\ Agrees(c)
    BY DEF IInv
  <2>2. /\ c.id \in 1 .. Len(cache)
        /\ \A b \in search : b.id = c.id => b.req = c.req
        /\ cache[c.id] # Pending => cache[c.id].req = c.req
        /\ \A a \in asked : a.id = c.id => a.req = c.req
    BY <2>1 DEF Agrees
  <2>3. cache'[c.id] # Pending => cache'[c.id].req = c.req
    <3> DEFINE i == c.id
               r == c.req
    <3>1. /\ i \in 1 .. Len(cache)
          /\ \A b \in search : b.id = i => b.req = r
          /\ cache[i] # Pending => cache[i].req = r
      BY <2>2
    <3>2. (cache'[i] # Pending => cache'[i].req = r)
      <4> HIDE DEF i, r
      <4> QED
        BY <1>7, <3>1
    <3> QED
      BY <3>2
  <2> QED
    BY <1>5, <2>2, <2>3 DEF Agrees
<1> QED
  BY <1>6, <1>8, <1>9 DEF IInv

\* Attackers that join a command change its power and nothing else.
LEMMA StrongerIsSame ==
    ASSUME NEW c \in [req : Requests, power : Powers, id : Nat], NEW d \in Powers
    PROVE  /\ Stronger(c, d) \in [req : Requests, power : Powers, id : Nat]
           /\ Stronger(c, d).id = c.id /\ Stronger(c, d).req = c.req
           /\ c.req.func # "ResumeSearch" =>
                /\ Stronger(c, d).power.dps = c.power.dps + d.dps
                /\ Stronger(c, d).power.speed = Lesser(c.power.speed, d.speed)
<1> DEFINE both == [dps |-> c.power.dps + d.dps, speed |-> Lesser(c.power.speed, d.speed)]
<1>1. c.power \in Powers /\ d \in Powers
  OBVIOUS
<1>2. both \in Powers
  BY <1>1 DEF Powers, Lesser
<1>3. CASE c.req.func = "ResumeSearch"
  BY <1>3 DEF Stronger
<1>4. CASE c.req.func # "ResumeSearch"
  <2>1. Stronger(c, d) = [c EXCEPT !.power = both]
    BY <1>4 DEF Stronger
  <2>2. both.dps = c.power.dps + d.dps /\ both.speed = Lesser(c.power.speed, d.speed)
    OBVIOUS
  <2> HIDE DEF both
  <2> QED
    BY <1>2, <2>1, <2>2
<1> QED
  BY <1>3, <1>4

\* A request that is merged into a queued one.
LEMMA MergeInvariant ==
    ASSUME IInv, NEW r \in Requests, NEW d \in Powers, NEW c \in search,
           SameKey(c, r), Mergeable(c, r),
           search' = (search \ {c}) \cup {Stronger(c, d)},
           asked' = asked \cup {[id |-> c.id, req |-> r]},
           UNCHANGED <<cache, height, raised>>
    PROVE  IInv'
<1>1. c \in [req : Requests, power : Powers, id : Nat] /\ c.req = r
  BY DEF IInv, TypeOK, Mergeable
<1>2. /\ Stronger(c, d) \in [req : Requests, power : Powers, id : Nat]
      /\ Stronger(c, d).req = r /\ Stronger(c, d).id = c.id
  BY <1>1, StrongerIsSame
<1>3. Agrees(c)
  BY DEF IInv
<1>4. ASSUME NEW a \in asked'
      PROVE  a \in asked \/ (a.id = c.id /\ a.req = r)
  <2>1. CASE a = [id |-> c.id, req |-> r]
    BY <2>1
  <2> QED
    BY <2>1
<1>5. ASSUME NEW b \in search'
      PROVE  \E e \in search : e.id = b.id /\ e.req = b.req
  BY <1>1, <1>2
<1>6. TypeOK'
  <2>1. [id |-> c.id, req |-> r] \in [id : Nat, req : Requests]
    BY <1>1
  <2> QED
    BY <1>2, <2>1 DEF IInv, TypeOK
<1>7. AskedOK'
  <2> SUFFICES ASSUME NEW a \in asked'
               PROVE  /\ a.id \in 1 .. Len(cache)
                      /\ cache[a.id] # Pending => cache[a.id].req = a.req
    BY DEF AskedOK
  <2> QED
    BY <1>1, <1>3, <1>4 DEF IInv, AskedOK, Agrees
<1>8. \A b \in search' : Agrees(b)'
  <2> SUFFICES ASSUME NEW b \in search'
               PROVE  /\ b.id \in 1 .. Len(cache)
                      /\ \A a \in asked' : a.id = b.id => a.req = b.req
                      /\ \A e \in search' : e.id = b.id => e.req = b.req
                      /\ cache[b.id] # Pending => cache[b.id].req = b.req
    BY DEF Agrees
  <2>1. PICK e \in search : e.id = b.id /\ e.req = b.req
    BY <1>5
  <2>2. Agrees(e)
    BY DEF IInv
  <2>3. ASSUME NEW a \in asked', a.id = b.id PROVE a.req = b.req
    <3>1. c.id = b.id => b.req = r
      BY <1>1, <2>1, <2>2 DEF Agrees
    <3> QED
      BY <1>4, <2>1, <2>2, <2>3, <3>1 DEF Agrees
  <2>4. ASSUME NEW f \in search', f.id = b.id PROVE f.req = b.req
    <3>1. PICK g \in search : g.id = f.id /\ g.req = f.req
      BY <1>5
    <3> QED
      BY <2>1, <2>2, <2>4, <3>1 DEF Agrees
  <2> QED
    BY <2>1, <2>2, <2>3, <2>4 DEF Agrees
<1> QED
  BY <1>6, <1>7, <1>8 DEF IInv

\* A request that gets a place of its own.
LEMMA NewInvariant ==
    ASSUME IInv, NEW r \in Requests, NEW d \in Powers, NEW old \in SUBSET search,
           search' = (search \ old) \cup {[req |-> r, power |-> d, id |-> Len(cache) + 1]},
           cache' = Append(cache, Pending),
           asked' = asked \cup {[id |-> Len(cache) + 1, req |-> r]},
           UNCHANGED <<height, raised>>
    PROVE  IInv'
<1> DEFINE id == Len(cache) + 1
           new == [req |-> r, power |-> d, id |-> id]
           ask == [id |-> id, req |-> r]
<1>1. /\ cache \in Seq(Answers \cup {Pending}) /\ Len(cache) \in Nat /\ id \in Nat
      /\ search \subseteq [req : Requests, power : Powers, id : Nat]
      /\ asked \subseteq [id : Nat, req : Requests]
  BY DEF IInv, TypeOK, Answers
<1>2. /\ cache' \in Seq(Answers \cup {Pending}) /\ Len(cache') = id
      /\ cache'[id] = Pending
      /\ \A i \in 1 .. Len(cache) : cache'[i] = cache[i]
  BY <1>1
<1>3. ASSUME NEW c \in search
      PROVE  Agrees(c) /\ c.id \in 1 .. Len(cache) /\ c.id # id
  <2>1. Agrees(c)
    BY DEF IInv
  <2> QED
    BY <1>1, <2>1 DEF Agrees
<1>4. ASSUME NEW a \in asked
      PROVE  /\ a.id \in 1 .. Len(cache) /\ a.id # id
             /\ cache[a.id] # Pending => cache[a.id].req = a.req
  <2>1. a.id \in 1 .. Len(cache) /\ (cache[a.id] # Pending => cache[a.id].req = a.req)
    BY DEF IInv, AskedOK
  <2> QED
    BY <1>1, <2>1
<1>5. new.id = id /\ new.req = r /\ ask.id = id /\ ask.req = r
  OBVIOUS
<1>6. TypeOK'
  <2>1. new \in [req : Requests, power : Powers, id : Nat] /\ ask \in [id : Nat, req : Requests]
    BY <1>1
  <2> QED
    BY <1>1, <1>2, <2>1 DEF IInv, TypeOK, Answers
<1> HIDE DEF new, ask
<1>7. search' = (search \ old) \cup {new} /\ asked' = asked \cup {ask}
  BY DEF new, ask
<1> HIDE DEF id
<1>8. AskedOK'
  <2> SUFFICES ASSUME NEW a \in asked'
               PROVE  /\ a.id \in 1 .. Len(cache')
                      /\ cache'[a.id] # Pending => cache'[a.id].req = a.req
    BY DEF AskedOK
  <2>1. CASE a \in asked
    <3>1. a.id \in 1 .. Len(cache) /\ (cache[a.id] # Pending => cache[a.id].req = a.req)
      BY <1>4, <2>1
    <3>2. Len(cache') = Len(cache) + 1
      BY <1>2 DEF id
    <3> QED
      BY <1>1, <1>2, <3>1, <3>2
  <2>2. CASE a = ask
    <3>1. a.id = id /\ cache'[a.id] = Pending
      BY <1>2, <1>5, <2>2
    <3>2. id \in 1 .. Len(cache')
      BY <1>1, <1>2 DEF id
    <3> QED
      BY <3>1, <3>2
  <2> QED
    BY <1>7, <2>1, <2>2
<1>9. \A b \in search' : Agrees(b)'
  <2> SUFFICES ASSUME NEW b \in search'
               PROVE  /\ b.id \in 1 .. Len(cache')
                      /\ \A a \in asked' : a.id = b.id => a.req = b.req
                      /\ \A e \in search' : e.id = b.id => e.req = b.req
                      /\ cache'[b.id] # Pending => cache'[b.id].req = b.req
    BY DEF Agrees
  <2>1. CASE b \in search
    <3>1. Agrees(b) /\ b.id \in 1 .. Len(cache) /\ b.id # id
      BY <1>3, <2>1
    <3>2. b.id \in 1 .. Len(cache')
      BY <1>1, <1>2, <3>1 DEF id
    <3>3. cache'[b.id] # Pending => cache'[b.id].req = b.req
      BY <1>2, <3>1 DEF Agrees
    <3>4. \A a \in asked' : a.id = b.id => a.req = b.req
      BY <1>5, <1>7, <3>1 DEF Agrees
    <3>5. \A e \in search' : e.id = b.id => e.req = b.req
      BY <1>5, <1>7, <3>1 DEF Agrees
    <3> QED
      BY <3>2, <3>3, <3>4, <3>5
  <2>2. CASE b = new
    <3>1. b.id = id /\ b.req = r /\ cache'[b.id] = Pending
      BY <1>2, <1>5, <2>2
    <3>2. id \in 1 .. Len(cache')
      BY <1>1, <1>2 DEF id
    <3>3. \A a \in asked' : a.id = b.id => a.req = b.req
      BY <1>4, <1>5, <1>7, <3>1
    <3>4. \A e \in search' : e.id = b.id => e.req = b.req
      BY <1>3, <1>5, <1>7, <3>1
    <3> QED
      BY <3>1, <3>2, <3>3, <3>4
  <2> QED
    BY <1>7, <2>1, <2>2
<1> QED
  BY <1>6, <1>8, <1>9 DEF IInv

LEMMA NextInvariant == IInv /\ [Next]_vars => IInv'
<1> SUFFICES ASSUME IInv, [Next]_vars PROVE IInv'
  OBVIOUS
<1>1. ASSUME NEW r \in Requests, NEW d \in Strengths, AddSearch(r, d) PROVE IInv'
  <2>1. d \in Powers
    BY NavSysAssumption
  <2>2. UNCHANGED <<height, raised>> /\ Ask(r, d)
    BY <1>1 DEF AddSearch
  <2>3. ASSUME NEW c \in search, SameKey(c, r), Mergeable(c, r),
               search' = (search \ {c}) \cup {Stronger(c, d)},
               asked' = asked \cup {[id |-> c.id, req |-> r]}, UNCHANGED cache
        PROVE  IInv'
    BY <2>1, <2>2, <2>3, MergeInvariant
  <2>4. ASSUME search' = (search \ {c \in search : SameKey(c, r)})
                            \cup {[req |-> r, power |-> d, id |-> NewPlace]},
               cache' = IF NewPlace \in DOMAIN cache THEN [cache EXCEPT ![NewPlace] = Pending]
                        ELSE Append(cache, Pending),
               asked' = asked \cup {[id |-> NewPlace, req |-> r]}
        PROVE  IInv'
    <3>1. NewPlace = Len(cache) + 1
      BY DEF NewPlace
    <3>2. cache \in Seq(Answers \cup {Pending})
      BY DEF IInv, TypeOK, Answers
    <3>3. NewPlace \notin DOMAIN cache
      BY <3>1, <3>2
    <3> DEFINE old == {c \in search : SameKey(c, r)}
    <3>4. old \in SUBSET search
      OBVIOUS
    <3>5. search' = (search \ old) \cup {[req |-> r, power |-> d, id |-> Len(cache) + 1]}
      BY <2>4, <3>1
    <3> HIDE DEF old
    <3> QED
      BY <2>1, <2>2, <2>4, <3>1, <3>3, <3>4, <3>5, NewInvariant
  <2> QED
    BY <2>2, <2>3, <2>4 DEF Ask
<1>2. CASE AddHeight
  BY <1>2 DEF AddHeight, IInv, TypeOK, AskedOK, Agrees
<1>3. CASE Clear
  <2>1. /\ search' = {} /\ cache' = <<>> /\ asked' = {}
        /\ height' = FALSE /\ raised' = FALSE
    BY <1>3 DEF Clear
  <2>2. <<>> \in Seq(Answers \cup {Pending})
    OBVIOUS
  <2>3. TypeOK'
    BY <2>1, <2>2 DEF TypeOK, Answers
  <2>4. AskedOK' /\ \A c \in search' : Agrees(c)'
    BY <2>1 DEF AskedOK
  <2> QED
    BY <2>3, <2>4 DEF IInv
<1>4. CASE Tick
  BY <1>4, RunInvariant DEF Tick, IInv, TypeOK
<1>5. CASE TickRaises
  <2>1. PICK F : cache' = Answered({c \in search : c.req.func \in F})
    BY <1>5 DEF TickRaises
  <2>2. {c \in search : c.req.func \in F} \in SUBSET search
    OBVIOUS
  <2>3. asked' = asked /\ search' = search /\ height' = height /\ raised' = TRUE
    BY <1>5 DEF TickRaises
  <2>4. height' \in BOOLEAN /\ raised' \in BOOLEAN
    BY <2>3 DEF IInv, TypeOK
  <2> QED
    BY <2>1, <2>2, <2>3, <2>4, RunInvariant
<1>6. CASE UNCHANGED vars
  BY <1>6 DEF vars, IInv, TypeOK, AskedOK, Agrees
<1> QED
  BY <1>1, <1>2, <1>3, <1>4, <1>5, <1>6 DEF Next

THEOREM TypeCorrect == Spec => []TypeOK
<1>1. IInv => TypeOK
  BY DEF IInv
<1> QED
  BY <1>1, InitInvariant, NextInvariant, PTL DEF Spec

\* GetPath never gives a caller the answer to somebody else's search
\* (Nav.lua:429-494), for any requests, any coincidence of their keys and any
\* set of functions that raise.
THEOREM AnswersAreOwn == Spec => []OwnAnswer
<1>1. IInv => OwnAnswer
  BY DEF IInv, TypeOK, AskedOK, OwnAnswer
<1> QED
  BY <1>1, InitInvariant, NextInvariant, PTL DEF Spec

\* Running commands takes no answer away, and each command run gets one.
LEMMA RunAnswers ==
    ASSUME IInv, NEW S \in SUBSET search, NEW i \in DOMAIN cache
    PROVE  /\ cache[i] # Pending => Answered(S)[i] # Pending
           /\ (\E c \in S : c.id = i) => Answered(S)[i] # Pending
<1>1. ASSUME NEW c \in S PROVE Result(c) # Pending
  <2>1. c.req \in Requests /\ c.power \in Powers
    BY DEF IInv, TypeOK
  <2> QED
    BY <2>1, NavSysAssumption DEF Result
<1>2. CASE \E c \in S : c.id = i
  <2>1. PICK c \in S : Answered(S)[i] = Result(c)
    BY <1>2 DEF Answered
  <2> QED
    BY <1>1, <2>1
<1>3. CASE ~\E c \in S : c.id = i
  BY <1>3 DEF Answered
<1> QED
  BY <1>2, <1>3

\* What a caller was promised, in one formula for now and later.
LEMMA KeptStep ==
    ASSUME IInv, KeptOrAnswered, [Next]_vars
    PROVE  KeptOrAnswered'
<1>1. /\ search \subseteq [req : Requests, power : Powers, id : Nat]
      /\ DOMAIN cache = 1 .. Len(cache) /\ Len(cache) \in Nat
      /\ \A a \in asked : a.id \in DOMAIN cache
  <2>1. cache \in Seq(Answers \cup {Pending})
    BY DEF IInv, TypeOK, Answers
  <2> QED
    BY <2>1 DEF IInv, TypeOK, AskedOK
<1>2. ASSUME NEW r \in Requests, NEW d \in Strengths, AddSearch(r, d)
      PROVE  KeptOrAnswered'
  <2>1. CASE \E c \in search : /\ Mergeable(c, r)
                               /\ search' = (search \ {c}) \cup {Stronger(c, d)}
                               /\ asked' = asked \cup {[id |-> c.id, req |-> r]}
                               /\ UNCHANGED <<cache, lost>>
    <3>1. PICK c \in search : /\ c.req = r
                              /\ search' = (search \ {c}) \cup {Stronger(c, d)}
                              /\ asked' = asked \cup {[id |-> c.id, req |-> r]}
                              /\ cache' = cache /\ lost' = lost
      BY <2>1 DEF Mergeable
    <3>2. Stronger(c, d).id = c.id /\ Stronger(c, d).req = c.req
      BY <1>1, NavSysAssumption, StrongerIsSame
    <3>3. ASSUME NEW a \in asked
          PROVE  \/ cache'[a.id] # Pending
                 \/ a.id \in lost'
                 \/ \E b \in search' : b.id = a.id /\ b.req = a.req
      BY <3>1, <3>2 DEF KeptOrAnswered
    <3> QED
      BY <3>1, <3>2, <3>3 DEF KeptOrAnswered
  <2>2. CASE LET old == {c \in search : SameKey(c, r)}
                 id  == NewPlace
             IN  /\ search' = (search \ old) \cup {[req |-> r, power |-> d, id |-> id]}
                 /\ cache' = IF id \in DOMAIN cache THEN [cache EXCEPT ![id] = Pending]
                             ELSE Append(cache, Pending)
                 /\ asked' = asked \cup {[id |-> id, req |-> r]}
                 /\ lost' = lost \cup {c.id : c \in old}
    <3> DEFINE old == {c \in search : SameKey(c, r)}
               new == [req |-> r, power |-> d, id |-> Len(cache) + 1]
    <3>1. /\ search' = (search \ old) \cup {new}
          /\ cache' = Append(cache, Pending)
          /\ asked' = asked \cup {[id |-> Len(cache) + 1, req |-> r]}
          /\ lost' = lost \cup {c.id : c \in old}
      <4>1. NewPlace = Len(cache) + 1
        BY DEF NewPlace
      <4>2. NewPlace \notin DOMAIN cache
        BY <1>1, <4>1
      <4> HIDE DEF old
      <4>3. /\ search' = (search \ old) \cup {[req |-> r, power |-> d, id |-> NewPlace]}
            /\ cache' = Append(cache, Pending)
            /\ asked' = asked \cup {[id |-> NewPlace, req |-> r]}
            /\ lost' = lost \cup {c.id : c \in old}
        BY <2>2, <4>2 DEF old
      <4> QED
        BY <4>1, <4>3
    <3>2. cache \in Seq(Answers \cup {Pending})
      BY DEF IInv, TypeOK, Answers
    <3>3. \A i \in DOMAIN cache : cache'[i] = cache[i]
      BY <3>1, <3>2
    <3>4. ASSUME NEW a \in asked
          PROVE  \/ cache'[a.id] # Pending
                 \/ a.id \in lost'
                 \/ \E b \in search' : b.id = a.id /\ b.req = a.req
      <4>1. CASE cache[a.id] # Pending
        BY <1>1, <3>3, <4>1
      <4>2. CASE a.id \in lost
        BY <3>1, <4>2
      <4>3. CASE \E b \in search : b.id = a.id /\ b.req = a.req
        <5>1. PICK b \in search : b.id = a.id /\ b.req = a.req
          BY <4>3
        <5>2. b \in old => a.id \in lost'
          BY <3>1, <5>1
        <5>3. b \notin old => b \in search'
          BY <3>1
        <5> QED
          BY <5>1, <5>2, <5>3
      <4> QED
        BY <4>1, <4>2, <4>3 DEF KeptOrAnswered
    <3>5. new \in search' /\ new.id = Len(cache) + 1 /\ new.req = r
      BY <3>1
    <3> QED
      <4>1. ASSUME NEW a \in asked'
            PROVE  \/ cache'[a.id] # Pending
                   \/ a.id \in lost'
                   \/ \E b \in search' : b.id = a.id /\ b.req = a.req
        <5>1. a \in asked \/ a = [id |-> Len(cache) + 1, req |-> r]
          BY <3>1
        <5>2. CASE a = [id |-> Len(cache) + 1, req |-> r]
          <6>1. a.id = new.id /\ a.req = new.req
            BY <5>2
          <6> QED
            BY <3>5, <6>1
        <5> QED
          BY <3>4, <5>1, <5>2
      <4> QED
        BY <4>1 DEF KeptOrAnswered
  <2> QED
    BY <1>2, <2>1, <2>2 DEF AddSearch, Ask
<1>3. CASE AddHeight
  BY <1>3 DEF AddHeight, KeptOrAnswered
<1>4. CASE Clear
  BY <1>4 DEF Clear, KeptOrAnswered
<1>5. CASE Tick
  <2>1. cache' = Answered(search) /\ asked' = asked /\ lost' = lost
    BY <1>5 DEF Tick
  <2>2. ASSUME NEW a \in asked PROVE cache'[a.id] # Pending \/ a.id \in lost'
    BY <1>1, <2>1, RunAnswers DEF KeptOrAnswered
  <2> QED
    BY <2>1, <2>2 DEF KeptOrAnswered
<1>6. CASE TickRaises
  <2>1. PICK F : cache' = Answered({c \in search : c.req.func \in F})
    BY <1>6 DEF TickRaises
  <2>2. search' = search /\ asked' = asked /\ lost' = lost
    BY <1>6 DEF TickRaises
  <2>3. ASSUME NEW a \in asked, cache[a.id] # Pending PROVE cache'[a.id] # Pending
    <3>1. {c \in search : c.req.func \in F} \in SUBSET search
      OBVIOUS
    <3> QED
      BY <1>1, <2>1, <2>3, <3>1, RunAnswers
  <2> QED
    BY <2>2, <2>3 DEF KeptOrAnswered
<1>7. CASE UNCHANGED vars
  BY <1>7 DEF vars, KeptOrAnswered
<1> QED
  BY <1>2, <1>3, <1>4, <1>5, <1>6, <1>7 DEF Next

\* No search is forgotten: until Clear it is queued or answered, whatever is
\* merged and however often a Tick raises half way (Nav.lua:475-494), unless a
\* different search of the same key took its place (:436).
THEOREM KeptUntilAnswered == Spec => []KeptOrAnswered
<1>1. Init => KeptOrAnswered
  BY DEF Init, KeptOrAnswered
<1> QED
  BY <1>1, InitInvariant, NextInvariant, KeptStep, PTL DEF Spec

\* No two commands share a place, each is for the attackers of all callers that
\* were given its place, and unless a Tick has raised, no command of the queue
\* has been run.
Fresh == /\ \A b, c \in search : b.id = c.id => b = c
         /\ brought \in Seq([dps : Nat, speeds : SUBSET Nat]) /\ Len(brought) = Len(cache)
         /\ \A c \in search : c.req.func # "ResumeSearch" => Powered(c, c.id)
         /\ ~raised => \A c \in search : cache[c.id] = Pending
         /\ clears \in Nat

LEMMA ElementsOfSeq ==
    ASSUME NEW S, NEW s \in Seq(S), NEW i \in DOMAIN s
    PROVE  s[i] \in S
  OBVIOUS

Joined(i, d) == [brought EXCEPT ![i] = [dps |-> @.dps + d.dps, speeds |-> @.speeds \cup {d.speed}]]

\* What a caller brings is added to its place and to no other.
LEMMA JoinedIs ==
    ASSUME brought \in Seq([dps : Nat, speeds : SUBSET Nat]), NEW i \in DOMAIN brought,
           NEW d \in Powers
    PROVE  /\ Joined(i, d) \in Seq([dps : Nat, speeds : SUBSET Nat])
           /\ Len(Joined(i, d)) = Len(brought)
           /\ Joined(i, d)[i].dps = brought[i].dps + d.dps
           /\ Joined(i, d)[i].speeds = brought[i].speeds \cup {d.speed}
           /\ \A j \in DOMAIN brought : j # i => Joined(i, d)[j] = brought[j]
<1> DEFINE own == [dps |-> brought[i].dps + d.dps, speeds |-> brought[i].speeds \cup {d.speed}]
<1>1. brought[i] \in [dps : Nat, speeds : SUBSET Nat] /\ d.dps \in Nat /\ d.speed \in Nat
  <2>2. brought[i] \in [dps : Nat, speeds : SUBSET Nat]
    BY ElementsOfSeq
  <2> QED
    BY <2>2 DEF Powers
<1>2. /\ own \in [dps : Nat, speeds : SUBSET Nat]
      /\ own.dps = brought[i].dps + d.dps /\ own.speeds = brought[i].speeds \cup {d.speed}
  BY <1>1
<1>3. Joined(i, d) = [brought EXCEPT ![i] = own]
  BY DEF Joined
<1> HIDE DEF own
<1> QED
  BY <1>2, <1>3

LEMMA CommandsTyped ==
    ASSUME IInv
    PROVE  /\ search \subseteq [req : Requests, power : Powers, id : Nat]
           /\ DOMAIN cache = 1 .. Len(cache) /\ Len(cache) \in Nat
           /\ \A c \in search : c.id \in DOMAIN cache
<1>1. cache \in Seq(Answers \cup {Pending})
  BY DEF IInv, TypeOK, Answers
<1>2. \A c \in search : c.id \in 1 .. Len(cache)
  BY DEF IInv, Agrees
<1> QED
  BY <1>1, <1>2 DEF IInv, TypeOK

LEMMA FreshStep ==
    ASSUME IInv, Fresh, [Next]_vars
    PROVE  Fresh'
<1>1. /\ search \subseteq [req : Requests, power : Powers, id : Nat]
      /\ DOMAIN cache = 1 .. Len(cache) /\ Len(cache) \in Nat
      /\ \A c \in search : c.id \in DOMAIN cache
  BY CommandsTyped
<1>2. ASSUME NEW r \in Requests, NEW d \in Strengths, AddSearch(r, d)
      PROVE  Fresh'
  <2>1. raised' = raised
    BY <1>2 DEF AddSearch
  <2>. clears' \in Nat
    BY <1>2 DEF AddSearch, Fresh
  <2>. d \in Powers /\ d.dps \in Nat /\ d.speed \in Nat
    BY NavSysAssumption DEF Powers
  <2>a. /\ brought \in Seq([dps : Nat, speeds : SUBSET Nat]) /\ Len(brought) = Len(cache)
        /\ DOMAIN brought = DOMAIN cache
    BY <1>1 DEF Fresh
  <2>2. CASE \E c \in search : /\ Mergeable(c, r)
                               /\ search' = (search \ {c}) \cup {Stronger(c, d)}
                               /\ cache' = cache
                               /\ brought' = Joined(c.id, d)
    <3>1. PICK c \in search : /\ search' = (search \ {c}) \cup {Stronger(c, d)}
                              /\ cache' = cache
                              /\ brought' = Joined(c.id, d)
      BY <2>2
    <3> DEFINE e == Stronger(c, d)
    <3>2. /\ e.id = c.id /\ e.req = c.req
          /\ c.req.func # "ResumeSearch" =>
               /\ e.power.dps = c.power.dps + d.dps
               /\ e.power.speed = Lesser(c.power.speed, d.speed)
      BY <1>1, StrongerIsSame
    <3>3. c.id \in DOMAIN brought /\ c.power.dps \in Nat /\ c.power.speed \in Nat
      BY <1>1, <2>a DEF Powers
    <3>4. /\ brought' \in Seq([dps : Nat, speeds : SUBSET Nat]) /\ Len(brought') = Len(brought)
          /\ brought'[c.id].dps = brought[c.id].dps + d.dps
          /\ brought'[c.id].speeds = brought[c.id].speeds \cup {d.speed}
          /\ \A i \in DOMAIN brought : i # c.id => brought'[i] = brought[i]
      BY <2>a, <3>1, <3>3, JoinedIs
    <3>5. brought[c.id].speeds \in SUBSET Nat
      <4>2. brought[c.id] \in [dps : Nat, speeds : SUBSET Nat]
        BY <2>a, <3>3, ElementsOfSeq
      <4> QED
        BY <4>2
    <3> HIDE DEF e
    <3>6. search' = (search \ {c}) \cup {e}
      BY <3>1 DEF e
    <3>7. ASSUME NEW b \in search', b.req.func # "ResumeSearch" PROVE Powered(b, b.id)'
      <4>1. CASE b = e
        <5>1. Powered(c, c.id)
          BY <3>2, <3>7, <4>1 DEF Fresh
        <5>2. e.power.dps = brought'[c.id].dps
          BY <3>2, <3>4, <3>7, <4>1, <5>1 DEF Powered
        <5>3. /\ c.power.speed \in brought[c.id].speeds
              /\ \A n \in brought[c.id].speeds : c.power.speed <= n
          BY <5>1 DEF Powered
        <5>4. e.power.speed \in brought'[c.id].speeds
          BY <3>2, <3>4, <3>7, <4>1, <5>3 DEF Lesser
        <5>5. \A n \in brought'[c.id].speeds : e.power.speed <= n
          BY <3>2, <3>3, <3>4, <3>5, <3>7, <4>1, <5>3 DEF Lesser
        <5> QED
          BY <3>2, <4>1, <5>2, <5>4, <5>5 DEF Powered
      <4>2. CASE b \in search /\ b # c
        <5>1. b.id # c.id /\ b.id \in DOMAIN brought /\ Powered(b, b.id)
          BY <1>1, <2>a, <3>7, <4>2 DEF Fresh
        <5> QED
          BY <3>4, <5>1 DEF Powered
      <4> QED
        BY <3>6, <4>1, <4>2
    <3>8. \A b, f \in search' : b.id = f.id => b = f
      BY <3>2, <3>6 DEF Fresh
    <3>9. ~raised' => \A b \in search' : cache'[b.id] = Pending
      BY <2>1, <3>1, <3>2, <3>6 DEF Fresh
    <3> QED
      BY <2>a, <3>1, <3>4, <3>7, <3>8, <3>9 DEF Fresh
  <2>3. CASE \E old \in SUBSET search :
               /\ search' = (search \ old) \cup {[req |-> r, power |-> d, id |-> Len(cache) + 1]}
               /\ cache' = Append(cache, Pending)
               /\ brought' = Append(brought, [dps |-> d.dps, speeds |-> {d.speed}])
    <3> DEFINE new == [req |-> r, power |-> d, id |-> Len(cache) + 1]
    <3>1. PICK old \in SUBSET search : /\ search' = (search \ old) \cup {new}
                                       /\ cache' = Append(cache, Pending)
                                       /\ brought' = Append(brought, [dps |-> d.dps, speeds |-> {d.speed}])
      BY <2>3
    <3>2. cache \in Seq(Answers \cup {Pending})
      BY DEF IInv, TypeOK, Answers
    <3>3. /\ \A i \in DOMAIN cache : cache'[i] = cache[i]
          /\ cache'[Len(cache) + 1] = Pending
      BY <3>1, <3>2
    <3>4. new.id = Len(cache) + 1 /\ new.power = d /\ \A c \in search : c.id # new.id
      BY <1>1
    <3> DEFINE own == [dps |-> d.dps, speeds |-> {d.speed}]
    <3>5. own \in [dps : Nat, speeds : SUBSET Nat] /\ own.dps = d.dps /\ own.speeds = {d.speed}
      OBVIOUS
    <3> HIDE DEF new, own
    <3>6. brought' = Append(brought, own)
      BY <3>1 DEF own
    <3>7. /\ brought' \in Seq([dps : Nat, speeds : SUBSET Nat]) /\ Len(brought') = Len(brought) + 1
          /\ \A i \in DOMAIN brought : brought'[i] = brought[i]
          /\ brought'[Len(brought) + 1] = own
      BY <2>a, <3>5, <3>6
    <3>8. Len(brought') = Len(cache')
      BY <2>a, <3>1, <3>2, <3>7
    <3>9. ASSUME NEW b \in search', b.req.func # "ResumeSearch" PROVE Powered(b, b.id)'
      <4>1. CASE b = new
        BY <2>a, <3>4, <3>5, <3>7, <4>1 DEF Powered
      <4>2. CASE b \in search
        <5>1. b.id \in DOMAIN brought /\ Powered(b, b.id)
          BY <1>1, <2>a, <3>9, <4>2 DEF Fresh
        <5> QED
          BY <3>7, <5>1 DEF Powered
      <4> QED
        BY <3>1, <4>1, <4>2
    <3>10. \A b, f \in search' : b.id = f.id => b = f
      BY <3>1, <3>4 DEF Fresh
    <3>11. ~raised' => \A b \in search' : cache'[b.id] = Pending
      BY <1>1, <2>1, <3>1, <3>3, <3>4 DEF Fresh
    <3> QED
      BY <3>7, <3>8, <3>9, <3>10, <3>11 DEF Fresh
  <2>4. ASSUME search' = (search \ {c \in search : SameKey(c, r)})
                            \cup {[req |-> r, power |-> d, id |-> NewPlace]},
               cache' = IF NewPlace \in DOMAIN cache THEN [cache EXCEPT ![NewPlace] = Pending]
                        ELSE Append(cache, Pending),
               brought' = Append(brought, [dps |-> d.dps, speeds |-> {d.speed}])
        PROVE  Fresh'
    <3> DEFINE old == {c \in search : SameKey(c, r)}
    <3>1. NewPlace = Len(cache) + 1 /\ NewPlace \notin DOMAIN cache
      BY <1>1 DEF NewPlace
    <3>2. old \in SUBSET search
      OBVIOUS
    <3>3. /\ search' = (search \ old) \cup {[req |-> r, power |-> d, id |-> Len(cache) + 1]}
          /\ cache' = Append(cache, Pending)
      BY <2>4, <3>1
    <3> HIDE DEF old
    <3> QED
      BY <2>3, <2>4, <3>2, <3>3
  <2> QED
    BY <1>2, <2>2, <2>4 DEF AddSearch, Ask, Joined
<1>3. CASE AddHeight
  BY <1>3 DEF AddHeight, Fresh, Powered
<1>4. CASE Clear
  <2>1. <<>> \in Seq([dps : Nat, speeds : SUBSET Nat])
    OBVIOUS
  <2> QED
    BY <1>4, <2>1 DEF Clear, Fresh
<1>a. ASSUME NEW S \in SUBSET search, cache' = Answered(S) PROVE Len(cache') = Len(cache)
  BY <1>1, <1>a DEF Answered
<1>5. CASE Tick
  BY <1>5, <1>a DEF Tick, Fresh
<1>6. CASE TickRaises
  <2>1. PICK F : cache' = Answered({c \in search : c.req.func \in F})
    BY <1>6 DEF TickRaises
  <2>2. Len(cache') = Len(cache)
    BY <1>a, <2>1
  <2> QED
    BY <1>6, <2>2 DEF TickRaises, Fresh, Powered
<1>7. CASE UNCHANGED vars
  BY <1>7 DEF vars, Fresh, Powered
<1> QED
  BY <1>2, <1>3, <1>4, <1>5, <1>6, <1>7 DEF Next

\* The body of the action property AnswerStable.
Stays ==
    /\ search # {} /\ search' = {} /\ cmds' = cmds /\ clears' = clears =>
         \A c \in search :
            /\ cache'[c.id] # Pending
            /\ c.req.func # "ResumeSearch" => Powered(cache'[c.id], c.id)
    /\ clears' = clears /\ ~raised' =>
         \A i \in DOMAIN cache : cache[i] # Pending => cache'[i] = cache[i]

LEMMA StaysStep ==
    ASSUME IInv, Fresh, [Next]_vars
    PROVE  Stays
<1>1. /\ search \subseteq [req : Requests, power : Powers, id : Nat]
      /\ DOMAIN cache = 1 .. Len(cache) /\ Len(cache) \in Nat
      /\ \A c \in search : c.id \in DOMAIN cache
  BY CommandsTyped
<1>2. ASSUME NEW r \in Requests, NEW d \in Strengths, AddSearch(r, d)
      PROVE  Stays
  <2>1. search' # {}
    BY <1>2 DEF AddSearch, Ask
  <2>2. cache' = cache \/ cache' = Append(cache, Pending)
    <3>1. NewPlace \notin DOMAIN cache
      BY <1>1 DEF NewPlace
    <3> QED
      BY <1>2, <3>1 DEF AddSearch, Ask
  <2>3. cache \in Seq(Answers \cup {Pending})
    BY DEF IInv, TypeOK, Answers
  <2>4. \A i \in DOMAIN cache : cache'[i] = cache[i]
    BY <2>2, <2>3
  <2> QED
    BY <2>1, <2>4 DEF Stays
<1>3. CASE AddHeight
  BY <1>3 DEF AddHeight, Stays
<1>4. CASE Clear
  BY <1>4 DEF Clear, Stays, Fresh
<1>5. CASE Tick
  <2>1. cache' = Answered(search) /\ raised' = raised
    BY <1>5 DEF Tick
  <2>2. ASSUME NEW c \in search
        PROVE  /\ cache'[c.id] # Pending
               /\ c.req.func # "ResumeSearch" => Powered(cache'[c.id], c.id)
    <3>1. PICK b \in search : b.id = c.id /\ Answered(search)[c.id] = Result(b)
      BY <1>1 DEF Answered
    <3>2. b = c
      BY <3>1 DEF Fresh
    <3>3. cache'[c.id] # Pending
      BY <1>1, <2>1, RunAnswers
    <3>4. cache'[c.id].power = c.power
      BY <2>1, <3>1, <3>2 DEF Result
    <3>5. c.req.func # "ResumeSearch" => Powered(c, c.id)
      BY DEF Fresh
    <3> QED
      BY <3>3, <3>4, <3>5 DEF Powered
  <2>3. ASSUME NEW i \in DOMAIN cache, cache[i] # Pending, ~raised
        PROVE  cache'[i] = cache[i]
    <3>1. ~\E c \in search : c.id = i
      BY <2>3 DEF Fresh
    <3> QED
      BY <2>1, <3>1 DEF Answered
  <2> QED
    BY <2>1, <2>2, <2>3 DEF Stays
<1>6. CASE TickRaises
  BY <1>6 DEF TickRaises, Stays
<1>7. CASE UNCHANGED vars
  BY <1>7 DEF vars, Stays
<1> QED
  BY <1>2, <1>3, <1>4, <1>5, <1>6, <1>7 DEF Next

\* A Tick that returns answers every search with the dps of all callers that
\* were given its place and the speed of their slowest (Nav.lua:310-372,
\* :429-441, :475-494), and what a caller has read there stays until Clear as
\* long as no Tick has raised: for any requests and powers, any coincidence of
\* keys and any functions that raise.
THEOREM AnswersAreStable == Spec => AnswerStable
<1>1. Init => Fresh
  <2>1. <<>> \in Seq([dps : Nat, speeds : SUBSET Nat])
    OBVIOUS
  <2> QED
    BY <2>1 DEF Init, Fresh
<1>2. IInv /\ Fresh /\ [Next]_vars => Fresh'
  BY FreshStep
<1>3. IInv /\ Fresh /\ [Next]_vars =>
        [/\ search # {} /\ search' = {} /\ cmds' = cmds /\ clears' = clears =>
              \A c \in search :
                 /\ cache'[c.id] # Pending
                 /\ c.req.func # "ResumeSearch" => Powered(cache'[c.id], c.id)
         /\ clears' = clears /\ ~raised' =>
              \A i \in DOMAIN cache : cache[i] # Pending => cache'[i] = cache[i]]_vars
  BY StaysStep DEF Stays
<1> QED
  BY <1>1, <1>2, <1>3, InitInvariant, NextInvariant, PTL DEF Spec, AnswerStable
=============================================================================
