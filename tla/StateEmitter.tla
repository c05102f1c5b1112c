----------------------------- MODULE StateEmitter ------------------------------
(***************************************************************************)
(* StateEmitter of packages/emitter: a tree of values whose subscribers    *)
(* are called, one after the other, whenever update() or set() changed it. *)
(* A subscriber may itself call update() and set(), and may throw.         *)
(*                                                                         *)
(* An object is a function from keys to values, everything else is one of  *)
(* Primitives.  A key is a string, which split('.') cuts into the keys that *)
(* `split` gives; a string such as 'user.name' that stands for a path is    *)
(* the sequence of those keys.  Two subscribers that listen to every change *)
(* and to '*' show what the order of subscription does.                     *)
(***************************************************************************)
EXTENDS Naturals, SequencesExt

CONSTANTS
  Names,        (* the strings that keys are                               *)
  split,        (* what split('.') cuts a key into: itself, without a dot  *)
  Empty, Star,  (* '' and '*'                                              *)
  Depth,        (* how deep objects are nested                             *)
  Primitives,   (* the values that are not objects                         *)
  Undefined,    (* what a missing key reads as                             *)
  Initial,      (* the initial state                                       *)
  Inputs,       (* the objects that update() and set() are given           *)
  MaxUpdates    (* calls of update() and set(): a bound                    *)

VARIABLES
  state,        (* this.state                                              *)
  stack,        (* the emitChanges() calls under way, outermost first      *)
  known,        (* history: the primitives the first subscriber knows      *)
  whole,        (* history: the state the first subscriber heard last      *)
  heard,        (* history: what the second was told of the present state  *)
  updates,
  thrown        (* history: a subscriber has thrown                        *)

vars == <<state, stack, known, whole, heard, updates, thrown>>

Subscribers == 1..2

-----------------------------------------------------------------------------
(* Trees *)

isObject(v) == v \notin Primitives

(* The values nested n deep at most. *)
Trees[n \in 0..Depth] ==
  IF n = 0 THEN Primitives
  ELSE Primitives \cup UNION {[K -> Trees[n - 1]] : K \in SUBSET Names}

Paths == UNION {[1..n -> Names] : n \in 0..Depth}

ASSUME KeysAssumption ==
  /\ Empty \in Names /\ Star \in Names /\ split \in [Names -> Seq(Names)]
  /\ \A k \in Names : split[k] # <<>>
ASSUME BoundsAssumption == MaxUpdates \in Nat /\ Depth \in Nat \ {0}
ASSUME PrimitivesAssumption ==
  /\ Undefined \in Primitives
  /\ \A n \in 1..Depth, K \in SUBSET Names, v \in Primitives : v \notin [K -> Trees[n - 1]]
ASSUME ObjectsAssumption ==
  \A v \in Inputs \cup {Initial} : \E K \in SUBSET Names : v \in [K -> Trees[Depth - 1]]

Keys(v) == IF isObject(v) THEN DOMAIN v ELSE {}

At(v, k) == IF k \in Keys(v) THEN v[k] ELSE Undefined

getNestedValue(v, path) ==
  LET at[n \in 0..Len(path)] == IF n = 0 THEN v ELSE At(at[n - 1], path[n])
  IN at[Len(path)]

Prefix(path, n) == SubSeq(path, 1, n)

get(v, text) == IF text = <<Star>> THEN v ELSE getNestedValue(v, text)

(* The keys are joined with dots, but nothing goes before a key while the   *)
(* text is still ''.                                                        *)
Text(path) ==
  LET text[n \in 0..Len(path)] ==
        IF n = 0 THEN <<Empty>>
        ELSE IF text[n - 1] = <<Empty>> THEN split[path[n]]
        ELSE text[n - 1] \o split[path[n]]
  IN text[Len(path)]

HasPath(v, path) ==
  \A n \in 1..Len(path) : path[n] \in Keys(getNestedValue(v, Prefix(path, n - 1)))

(* Mutant: an object in the source replaces what the target has there. *)
ShallowMerge(target, source) ==
  [k \in Keys(target) \cup Keys(source) |-> IF k \in Keys(source) THEN source[k] ELSE target[k]]

(* merged[path] is what the call returns that the recursion makes at `path`. *)
DeepMerge(target, source) ==
  LET merged[path \in Paths] ==
        LET t == getNestedValue(target, path)
            s == getNestedValue(source, path)
        IN IF ~isObject(s) THEN s
           ELSE [k \in Keys(t) \cup Keys(s) |->
                   IF k \in Keys(s) THEN merged[Append(path, k)] ELSE t[k]]
  IN merged[<<>>]

(* Where the new tree differs from the old one: the recursion goes on below *)
(* a path only if both have an object there, and a key that is gone is not  *)
(* seen.  (The order of the paths, that of the keys' insertion, is open.)   *)
BothObjects(old, new, path) ==
  isObject(getNestedValue(old, path)) /\ isObject(getNestedValue(new, path))

ChangedPaths(old, new) ==
  {path \in Paths \ {<<>>} :
     /\ HasPath(new, path)
     /\ \A n \in 1..(Len(path) - 1) : BothObjects(old, new, Prefix(path, n))
     /\ ~BothObjects(old, new, path)
     /\ getNestedValue(new, path) # getNestedValue(old, path)}

(* What a subscriber knows when it knows that a path has the value v. *)
Leaf(v) == IF isObject(v) THEN Undefined ELSE v

Primitive(v, path) == Leaf(getNestedValue(v, path))

(* What is at a path, for who was told that v is at the text above it. *)
Told(text, v, path) == Primitive(v, SubSeq(path, Len(text) + 1, Len(path)))

Learn(knows, text, v) ==
  [path \in Paths |-> IF IsPrefix(text, path) THEN Told(text, v, path) ELSE knows[path]]

-----------------------------------------------------------------------------
Init ==
  /\ state = Initial
  /\ stack = <<>>
  /\ known = [path \in Paths |-> Primitive(Initial, path)]
  /\ whole = Initial
  /\ heard = Paths
  /\ updates = 0
  /\ thrown = FALSE

StateChange == <<>>   (* that event, as against the text of a change *)

top == Last(stack)

(* Code outside the emitter runs: nothing is emitted, or a subscriber has   *)
(* been called and has not returned.                                        *)
OutsideRuns == stack # <<>> => top.called > 0

(* emitChanges(): the paths are fixed now, the values when their turn comes. *)
(* What is new has not been heard of.                                        *)
Change(new) ==
  /\ OutsideRuns /\ updates < MaxUpdates
  /\ updates' = updates + 1
  /\ state' = new
  /\ stack' = Append(stack, [paths |-> ChangedPaths(state, new), event |-> StateChange,
                             value |-> Undefined, called |-> 0])
  /\ heard' = {path \in heard : path # StateChange /\ Primitive(new, path) = Primitive(state, path)}
  /\ UNCHANGED <<known, whole, thrown>>

update(partial) == Change(DeepMerge(state, partial))

set(new) == Change(new)

(* What a call says that is so at present. *)
Truths(event, value) ==
  IF event = StateChange THEN {p \in {StateChange} : value = state}
  ELSE {path \in Paths : IsPrefix(event, path) /\ Told(event, value, path) = Primitive(state, path)}

(* A subscriber is called with the arguments of the emit() under way. *)
Call(i, event, value) ==
  IF i = 2 THEN heard' = heard \cup Truths(event, value) /\ UNCHANGED <<known, whole>>
  ELSE IF event = StateChange THEN whole' = value /\ UNCHANGED <<known, heard>>
  ELSE known' = Learn(known, event, value) /\ UNCHANGED <<whole, heard>>

Emits(f, i) ==
  /\ stack' = Append(Front(stack), [f EXCEPT !.called = i])
  /\ Call(i, f.event, f.value)
  /\ UNCHANGED <<state, updates, thrown>>

(* Nobody listens any more to the event under way, or none is. *)
EventIsOver == stack # <<>> /\ top.called \in {0, 2} /\ (top.called = 2 => top.event # StateChange)

(* Mutant: the value is that of the state before. *)
emitPathOld(path) ==
  /\ EventIsOver /\ path \in top.paths
  /\ Emits([top EXCEPT !.paths = @ \ {path}, !.event = Text(path),
                       !.value = get(whole, Text(path))], 1)

(* One more of the changed paths: its value is read now. *)
emitPath(path) ==
  /\ EventIsOver /\ path \in top.paths
  /\ Emits([top EXCEPT !.paths = @ \ {path}, !.event = Text(path),
                       !.value = get(state, Text(path))], 1)

emitStateChange ==
  /\ EventIsOver /\ top.paths = {}
  /\ Emits([top EXCEPT !.event = StateChange, !.value = state], 1)

(* Mutant: one call per event. *)
CallFirstOnly ==
  /\ stack # <<>> /\ top.called = 1
  /\ stack' = Append(Front(stack), [top EXCEPT !.called = 2])
  /\ UNCHANGED <<state, known, whole, heard, updates, thrown>>

(* The event's second subscriber, with the arguments that the first had. *)
CallNext ==
  /\ stack # <<>> /\ top.called = 1
  /\ Emits(top, 2)

emitReturns ==
  /\ stack # <<>> /\ top.called = 2 /\ top.event = StateChange
  /\ stack' = Front(stack)
  /\ UNCHANGED <<state, known, whole, heard, updates, thrown>>

(* What a subscriber throws (an update() of a circular object and a set()   *)
(* of something else than an object throw as well) ends the emitChanges()   *)
(* it was called from, and those further out until a subscriber catches it. *)
Throws(frames) ==
  /\ stack # <<>> /\ OutsideRuns
  /\ stack' = SubSeq(stack, 1, Len(stack) - frames)
  /\ thrown' = TRUE
  /\ UNCHANGED <<state, known, whole, heard, updates>>

Next ==
  \/ \E t \in Inputs : update(t) \/ set(t)
  \/ stack # <<>> /\ \E path \in top.paths : emitPath(path)
  \/ emitStateChange
  \/ CallNext
  \/ emitReturns
  \/ \E frames \in 1..Len(stack) : Throws(frames)

Spec == Init /\ [][Next]_vars

-----------------------------------------------------------------------------
(* The partial state has something at the path, or no object on the way. *)
Says(partial, path) ==
  \E n \in 0..Len(path) :
    /\ HasPath(partial, Prefix(path, n))
    /\ n = Len(path) \/ ~isObject(getNestedValue(partial, Prefix(path, n)))

(* What `merged` has that `partial` has been merged into `before`. *)
Pathwise(before, partial, merged) ==
  \A path \in Paths :
    /\ HasPath(partial, path) /\ ~isObject(getNestedValue(partial, path)) =>
         HasPath(merged, path) /\ getNestedValue(merged, path) = getNestedValue(partial, path)
    /\ ~Says(partial, path) =>
         /\ HasPath(merged, path) <=> HasPath(before, path)
         /\ getNestedValue(merged, path) = getNestedValue(before, path)

(* update() leaves everything where it is unless the partial state has      *)
(* something at its path or a primitive on the way to it, and the           *)
(* primitives of the partial state are there afterwards.                    *)
UpdateIsPathwise ==
  [][\A t \in Inputs : update(t) => Pathwise(state, t, state')]_vars

Settled == stack = <<>> /\ ~thrown

(* Paths whose text reads back as the path: no key on the way has a dot or  *)
(* is '' with more to come, and the path does not begin with the key '*'.   *)
Readable ==
  {path \in Paths : \A n \in 1..Len(path) :
     Text(Prefix(path, n)) = Prefix(path, n) /\ Prefix(path, n) # <<Star>>}

(* Once nothing is emitted any more, the first subscriber to each event     *)
(* knows the state: what it has from the change events alone is all of it   *)
(* at the readable paths (and what deleted keys left behind), whatever was  *)
(* updated meanwhile, and the last state it was told is the current one.    *)
FirstKnowsTheState ==
  Settled =>
    /\ \A path \in Readable : Primitive(state, path) \in {Undefined, known[path]}
    /\ whole = state

(* A change made by the first subscriber tells the second the newer value   *)
(* first and the older one last, but nothing that is there is kept from it: *)
(* it was told every primitive, and the whole, since they are what they are. *)
SecondHearsTheState ==
  Settled =>
    /\ \A path \in Readable : Primitive(state, path) = Undefined \/ path \in heard
    /\ StateChange \in heard
=============================================================================
