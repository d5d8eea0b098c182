------------------------------- MODULE NavSys -------------------------------
(***************************************************************************)
(* The command queue in front of NavLib (NavSys of Nav/Nav.lua).  AddCmd   *)
(* queues a search under a key, the concatenation of its parameters, or    *)
(* merges it with a queued one of equal parameters, and answers the place  *)
(* of its result; Tick runs the queue; GetPath reads a place.              *)
(*                                                                         *)
(* Two commands make every Tick raise: a height command, which Tick looks  *)
(* up in NavSys by its merge key, and MultiSearch, which calls the DLL's   *)
(* FlagSearch with an argument too many.  A flag command raises in AddCmd, *)
(* before anything has changed, and is left out.                           *)
(***************************************************************************)
EXTENDS Naturals, Sequences, FiniteSets

CONSTANTS Requests,   \* searches callers ask for: [func, key, what]
          Strengths,  \* what the attacker may bring: [dps, speed]
          Raising,    \* the functions whose call raises ("MultiSearch")
          MaxCmds, MaxClears,   \* bounds on the calls of AddCmd and Clear
          Pending     \* false, in __result_cache__

Powers == [dps : Nat, speed : Nat]

ASSUME NavSysAssumption ==
    /\ Strengths \subseteq Powers
    /\ Pending \notin [req : Requests, power : Powers]

VARIABLES search,    \* __search_cmd__: commands [req, power, id], one per func and key
          height,    \* is there a command in __height_cmd__
          cache,     \* __result_cache__
          asked,     \* history: who holds which id, [id, req], since the last Clear
          brought,   \* history: per place, the dps asked for in all and the speeds
          lost,      \* history: ids whose command another one of its key replaced
          raised,    \* history: has a Tick raised since the last Clear
          cmds, clears   \* calls so far

vars == <<search, height, cache, asked, brought, lost, raised, cmds, clears>>

Init == /\ search = {} /\ height = FALSE /\ cache = <<>>
        /\ asked = {} /\ brought = <<>> /\ lost = {} /\ raised = FALSE
        /\ cmds = 0 /\ clears = 0

-----------------------------------------------------------------------------
(* AddCmd. *)

SameKey(c, r) == c.req.func = r.func /\ c.req.key = r.key

\* Mutant: equal keys are enough to merge.
MergesByKey(c, r) == SameKey(c, r)

\* MergeCmd's condition, which compares the parameters one by one.
Mergeable(c, r) == c.req = r

Lesser(m, n) == IF m < n THEN m ELSE n

\* Mutant: the strongest of the attackers.
StrongestOf(c, d) ==
    IF c.req.func = "ResumeSearch" THEN c
    ELSE [c EXCEPT !.power = [dps |-> IF d.dps > @.dps THEN d.dps ELSE @.dps,
                              speed |-> Lesser(@.speed, d.speed)]]

\* All attackers together, at the pace of the slowest.  ResumeSearch brings
\* none, and its power means nothing.
Stronger(c, d) ==
    IF c.req.func = "ResumeSearch" THEN c
    ELSE [c EXCEPT !.power = [dps |-> @.dps + d.dps, speed |-> Lesser(@.speed, d.speed)]]

\* Mutant: counted on the queue, which Tick empties.
PlaceInQueue == Cardinality(search) + 1

\* #__result_cache__ + 1
NewPlace == Len(cache) + 1

Ask(r, d) ==
    \/ \E c \in search :
          /\ SameKey(c, r) /\ Mergeable(c, r)
          /\ search' = (search \ {c}) \cup {Stronger(c, d)}
          /\ asked' = asked \cup {[id |-> c.id, req |-> r]}
          /\ brought' = [brought EXCEPT ![c.id] =
                            [dps |-> @.dps + d.dps, speeds |-> @.speeds \cup {d.speed}]]
          /\ UNCHANGED <<cache, lost>>
    \/ /\ ~\E c \in search : SameKey(c, r) /\ Mergeable(c, r)
       /\ LET old == {c \in search : SameKey(c, r)}
              id  == NewPlace
          IN  /\ search' = (search \ old) \cup {[req |-> r, power |-> d, id |-> id]}
              /\ cache' = IF id \in DOMAIN cache THEN [cache EXCEPT ![id] = Pending]
                          ELSE Append(cache, Pending)
              /\ asked' = asked \cup {[id |-> id, req |-> r]}
              /\ brought' = Append(brought, [dps |-> d.dps, speeds |-> {d.speed}])
              /\ lost' = lost \cup {c.id : c \in old}

AddSearch(r, d) == /\ cmds < MaxCmds /\ cmds' = cmds + 1
                   /\ Ask(r, d)
                   /\ UNCHANGED <<height, raised, clears>>

AddHeight == /\ cmds < MaxCmds /\ cmds' = cmds + 1
             /\ height' = TRUE
             /\ UNCHANGED <<search, cache, asked, brought, lost, raised, clears>>

\* Callers that hold ids of the cleared cache are expected to let them go.
Clear == /\ clears < MaxClears /\ clears' = clears + 1
         /\ search' = {} /\ height' = FALSE /\ cache' = <<>>
         /\ asked' = {} /\ brought' = <<>> /\ lost' = {} /\ raised' = FALSE
         /\ UNCHANGED cmds

-----------------------------------------------------------------------------
(* Tick. *)

\* Mutant: the command is left in the place of its answer.
ResultUnread(c) == c

\* The answer of the DLL to a command; here, what it was asked.
Result(c) == [req |-> c.req, power |-> c.power]

\* The commands S have been run, one after the other.
Answered(S) == [i \in DOMAIN cache |->
                  IF \E c \in S : c.id = i THEN Result(CHOOSE c \in S : c.id = i)
                  ELSE cache[i]]

Bad == {c \in search : c.req.func \in Raising}

Tick == /\ ~height /\ Bad = {}
        /\ cache' = Answered(search)
        /\ search' = {}
        /\ UNCHANGED <<height, asked, brought, lost, raised, cmds, clears>>

\* Mutant: the queue is emptied before it is run.
RaiseForgets ==
    /\ height \/ Bad # {}
    /\ raised' = TRUE
    /\ search' = {}
    /\ UNCHANGED <<height, cache, asked, brought, lost, cmds, clears>>

\* Heights come first, then the functions in any order up to one that raises.
\* Nothing is taken off the queues.
TickRaises ==
    /\ height \/ Bad # {}
    /\ raised' = TRUE
    /\ \E F \in SUBSET ({c.req.func : c \in search} \ Raising) :
          /\ height => F = {}
          /\ cache' = Answered({c \in search : c.req.func \in F})
    /\ UNCHANGED <<search, height, asked, brought, lost, cmds, clears>>

Next == \/ \E r \in Requests, d \in Strengths : AddSearch(r, d)
        \/ AddHeight \/ Clear \/ Tick \/ TickRaises

Spec == Init /\ [][Next]_vars

-----------------------------------------------------------------------------
(* Properties. *)

\* Types; a place holds false or an answer, never a command.
TypeOK == /\ search \subseteq [req : Requests, power : Powers, id : Nat]
          /\ cache \in Seq([req : Requests, power : Powers] \cup {Pending})
          /\ asked \subseteq [id : Nat, req : Requests]
          /\ height \in BOOLEAN /\ raised \in BOOLEAN

\* A caller that reads its place finds false or the answer to its own search,
\* although searches are merged, replaced by others of the same key, and run
\* again after a Tick that raised.
OwnAnswer == \A a \in asked :
    a.id \in DOMAIN cache /\ (cache[a.id] # Pending => cache[a.id].req = a.req)

\* A search without an answer is still queued, also after a Tick that raised
\* half way, unless a different search of the same key took its place.
KeptOrAnswered == \A a \in asked :
    \/ cache[a.id] # Pending
    \/ a.id \in lost
    \/ \E c \in search : c.id = a.id /\ c.req = a.req

\* The answer a is for all attackers asked for at place i.
Powered(a, i) == /\ a.power.dps = brought[i].dps
                 /\ a.power.speed \in brought[i].speeds
                 /\ \A s \in brought[i].speeds : a.power.speed <= s

\* A Tick that returns leaves no search of the queue without its answer, which
\* was sought with the dps of all callers that were given its place together
\* and the speed of their slowest; and what a caller has read at its place
\* stays there until Clear, as long as no Tick has raised: only then are
\* commands run again.
AnswerStable == [][
    /\ search # {} /\ search' = {} /\ cmds' = cmds /\ clears' = clears =>
         \A c \in search :
            /\ cache'[c.id] # Pending
            /\ c.req.func # "ResumeSearch" => Powered(cache'[c.id], c.id)
    /\ clears' = clears /\ ~raised' =>
         \A i \in DOMAIN cache : cache[i] # Pending => cache'[i] = cache[i]]_vars
=============================================================================
