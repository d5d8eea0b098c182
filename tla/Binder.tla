-------------------------------- MODULE Binder --------------------------------
(***************************************************************************)
(* Callbacks bound to a field (src/Base/Function/ToBind.lua): the first    *)
(* Bind makes the field a property (src/Base/DataType/Property.lua), whose *)
(* Set walks the bound callbacks twice, once in OnChange and once itself.  *)
(* A callback may set the field again, bind and unbind; a Set within a     *)
(* callback of a Set has a frame of its own on the stack.  Each tag has    *)
(* one callback.  A new tag in a table that pairs() walks leaves it open   *)
(* which tags the walk comes to from there on, and makes it fail when the  *)
(* tag it is at was unbound before.                                        *)
(***************************************************************************)
EXTENDS Naturals, Sequences, SequencesExt

CONSTANTS
  BindTags,
  Values,
  MaxFrames,   \* bound: Sets within each other
  MaxBinds     \* bound: calls of Bind and Unbind by callbacks

VARIABLES
  value,       \* t.__props__
  bound,       \* the tags in t.__binder__[k]
  frames,      \* the Sets under way, the innermost last: their value, which
               \*   of the two walks (0: none, Bind calls), what is to come
               \*   in it, who is called, and whether his tag was unbound and
               \*   its place in the table may be taken
  binds,       \* those calls so far
  told,        \* history: who was called with what was assigned last
  fresh,       \* history: bound after that, or passed over in the second walk
               \*   because another one was bound meanwhile
  failed       \* history: a walk has failed since then
binderVars == <<value, bound, frames, binds, told, fresh, failed>>

BinderInit ==
  /\ value \in Values
  /\ bound = {} /\ frames = <<>> /\ binds = 0
  /\ told = {} /\ fresh = {} /\ failed = FALSE

Top == Last(frames)
(* Lua code outside, or the callback that runs.                            *)
FreeToAct == frames # <<>> => Top.calling # {}
Amend(f) == frames' = Append(Front(frames), f)

Spends == IF frames = <<>> THEN binds' = binds ELSE binds < MaxBinds /\ binds' = binds + 1

FirstWalk(v) == [value |-> v, walk |-> 1, todo |-> bound, calling |-> {}, lost |-> FALSE]

(* NewProp.Set: nothing happens when the field has the value already.      *)
Set(v) ==
  /\ FreeToAct /\ Len(frames) < MaxFrames /\ v # value
  /\ value' = v
  /\ told' = {} /\ fresh' = {} /\ failed' = FALSE
  /\ frames' = Append(frames, FirstWalk(v))
  /\ UNCHANGED <<bound, binds>>

(* pairs() comes to the next tag.  The value is the one of this Set,       *)
(* whatever the field holds now.                                           *)
Deliver(c) ==
  /\ frames # <<>> /\ Top.calling = {} /\ c \in Top.todo
  /\ Amend([Top EXCEPT !.todo = @ \ {c}, !.calling = {c}, !.lost = FALSE])
  /\ told' = IF Top.value = value THEN told \cup {c} ELSE told
  /\ UNCHANGED <<value, bound, binds, fresh, failed>>

CallbackReturns ==
  /\ frames # <<>> /\ Top.calling # {}
  /\ Amend([Top EXCEPT !.calling = {}])
  /\ UNCHANGED <<value, bound, binds, told, fresh, failed>>

(* "invalid key to 'next'": the walk asks for what follows a tag that has  *)
(* been unbound and whose place another one took.  No Set catches it.      *)
WalkFails ==
  /\ frames # <<>> /\ Top.calling = {} /\ Top.lost
  /\ frames' = <<>> /\ failed' = TRUE
  /\ UNCHANGED <<value, bound, binds, told, fresh>>

(* Mutant: NewProp.Set leaves the callbacks to OnChange. *)
SecondWalkSkipped ==
  /\ frames # <<>> /\ Top.calling = {} /\ Top.todo = {} /\ Top.walk = 1
  /\ Amend([Top EXCEPT !.walk = 2, !.lost = FALSE])
  /\ UNCHANGED <<value, bound, binds, told, fresh, failed>>

SecondWalk ==
  /\ frames # <<>> /\ Top.calling = {} /\ Top.todo = {} /\ Top.walk = 1
  /\ Amend([Top EXCEPT !.walk = 2, !.todo = bound, !.lost = FALSE])
  /\ UNCHANGED <<value, bound, binds, told, fresh, failed>>

SetReturns ==
  /\ frames # <<>> /\ Top.calling = {} /\ Top.todo = {} /\ Top.walk # 1
  /\ frames' = Front(frames)
  /\ UNCHANGED <<value, bound, binds, told, fresh, failed>>

(* Each walk comes to what it will from here on, to tags it has been at or *)
(* to some of those to come only; the place of a tag that is not bound any *)
(* more may be taken.                                                      *)
AfterBind(f, c, rest) ==
  IF f.walk = 0 THEN f
  ELSE [f EXCEPT !.todo = rest, !.lost = f.calling # {c} /\ (f.lost \/ ~(f.calling \subseteq bound))]

(* Whom nobody may tell any more of the value: those to come in a second   *)
(* walk, when no first one with that value is under way.                   *)
Walks(n) == {i \in 1..Len(frames) : frames[i].value = value /\ frames[i].walk = n}
PassedOver == IF Walks(1) # {} THEN {} ELSE UNION {frames[i].todo : i \in Walks(2)}

(* With callnow the callback is called at once, and its call is the last   *)
(* thing Bind does.                                                        *)
Bind(c, callnow) ==
  /\ FreeToAct /\ c \notin bound /\ Spends
  /\ bound' = bound \cup {c}
  /\ fresh' = fresh \cup PassedOver \cup IF callnow THEN {} ELSE {c}
  /\ \E rest \in [1..Len(frames) -> SUBSET (bound \cup {c})] :
       frames' = [i \in 1..Len(frames) |-> AfterBind(frames[i], c, rest[i])]
                 \o (IF callnow
                     THEN <<[FirstWalk(value) EXCEPT !.walk = 0, !.todo = {}, !.calling = {c}]>>
                     ELSE <<>>)
  /\ callnow => Len(frames) < MaxFrames
  /\ told' = IF callnow THEN told \cup {c} ELSE told
  /\ UNCHANGED <<value, failed>>

(* The walks do not come to a tag that is not there any more.              *)
Unbind(c) ==
  /\ FreeToAct /\ c \in bound /\ Spends
  /\ bound' = bound \ {c}
  /\ told' = told \ {c} /\ fresh' = fresh \ {c}
  /\ frames' = [i \in 1..Len(frames) |-> [frames[i] EXCEPT !.todo = @ \ {c}]]
  /\ UNCHANGED <<value, failed>>

BinderNext ==
  \/ \E v \in Values : Set(v)
  \/ \E c \in BindTags : Deliver(c) \/ Bind(c, TRUE) \/ Bind(c, FALSE) \/ Unbind(c)
  \/ CallbackReturns \/ WalkFails \/ SecondWalk \/ SetReturns

BinderSpec == BinderInit /\ [][BinderNext]_binderVars

-----------------------------------------------------------------------------
(* When the outermost Set has returned, every callback that was bound when *)
(* the field got the value it has now was called with that value, also     *)
(* when it was another callback that set it in the middle of a walk        *)
(* (Property.lua:147-169, ToBind.lua:9-17), whatever callbacks bind and    *)
(* unbind: the second walk comes to those the first one missed.  Two       *)
(* exceptions: a walk that failed, and those that were still to come in    *)
(* the second walk when another callback was bound.  It need not be the    *)
(* last value one was called with: the walks of outer Sets go on with      *)
(* older ones.                                                             *)
EveryoneTold == frames = <<>> /\ ~failed => bound \ fresh \subseteq told
=============================================================================
