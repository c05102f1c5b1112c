---------------------------- MODULE DeferralTracker ----------------------------
(***************************************************************************)
(* The promise table of @streamerson/core (class DeferralTracker): a       *)
(* caller asks for the promise of a message id, a response or an error     *)
(* with that id settles it, and a timer settles it otherwise.              *)
(*                                                                         *)
(* A record of the table is a JavaScript object.  It outlives its entry:   *)
(* its timer still fires, and its promise is still held by the caller,     *)
(* after delete() has dropped the entry.  So the model keeps the objects   *)
(* in a heap apart from the table that points at them.                     *)
(***************************************************************************)

CONSTANTS
  Ids,      (* message ids                                                 *)
  Objects,  (* the records one behaviour may allocate: bounds the model    *)
  None      (* no record, no id                                            *)

ASSUME NoneAssumption == None \notin Objects /\ None \notin Ids

VARIABLES
  promises, (* this.promises: the record registered under each id          *)
  heap,     (* the contents of every record allocated so far               *)
  loose     (* records some promise of which has no rejection handler yet  *)

trackerVars == <<promises, heap, loose>>

(***************************************************************************)
(* A record made by promise() is "deferred": its timer rejects it.  One    *)
(* made by a response or an error nobody has asked for yet is "early": it  *)
(* is born settled, its resolve and reject do nothing, and its timer       *)
(* deletes the entry of its id.                                            *)
(***************************************************************************)
Kinds  == {"unborn", "deferred", "early"}
States == {"pending", "resolved", "rejected"}
Timers == {"armed", "off"}

ResponseTracker == [id : Ids \cup {None}, kind : Kinds, state : States, timer : Timers]

Unborn == [id |-> None, kind |-> "unborn", state |-> "pending", timer |-> "off"]

Born(o) == heap[o].kind # "unborn"

Pending(o) == Born(o) /\ heap[o].state = "pending"

(* No handler for 'unhandledRejection' is installed anywhere in the        *)
(* packages, so Node ends the process when a promise is rejected that      *)
(* nobody has attached a handler to.                                       *)
Crashed == \E o \in loose : heap[o].state = "rejected"

TrackerInit ==
  /\ promises = [id \in Ids |-> None]
  /\ heap = [o \in Objects |-> Unborn]
  /\ loose = {}

-----------------------------------------------------------------------------
(* What the handlers do to a record and to the table. *)

(* record.resolve / record.reject followed by clearTimeout: only a pending  *)
(* promise changes state, and the timer is cleared whatever kind it is of.  *)
Settled(r, outcome) ==
  [r EXCEPT !.state = IF @ = "pending" THEN outcome ELSE @,
            !.timer = "off"]

Register(id, o, kind, state) ==
  /\ ~Born(o)
  /\ heap' = [heap EXCEPT ![o] =
                [id |-> id, kind |-> kind, state |-> state, timer |-> "armed"]]
  /\ promises' = [promises EXCEPT ![id] = o]

(* promise(id): the registered record if there is one, a new one otherwise. *)
Promise(id) ==
  /\ ~Crashed
  /\ \/ /\ promises[id] # None
        /\ loose' = loose \cup {promises[id]}
        /\ UNCHANGED <<promises, heap>>
     \/ /\ promises[id] = None
        /\ \E o \in Objects :
             /\ Register(id, o, "deferred", "pending")
             /\ loose' = loose \cup {o}

(* The caller awaits the promise it was given. *)
Await(o) ==
  /\ ~Crashed
  /\ o \in loose
  /\ loose' = loose \ {o}
  /\ UNCHANGED <<promises, heap>>

ResponseEvent(id) ==
  /\ ~Crashed
  /\ UNCHANGED loose
  /\ \/ /\ promises[id] # None
        /\ heap' = [heap EXCEPT ![promises[id]] = Settled(@, "resolved")]
        /\ UNCHANGED promises
     \/ /\ promises[id] = None
        /\ \E o \in Objects : Register(id, o, "early", "resolved")

(* An error nobody has asked for is a Promise.reject() without a handler. *)
ErrorEvent(id) ==
  /\ ~Crashed
  /\ \/ /\ promises[id] # None
        /\ heap' = [heap EXCEPT ![promises[id]] = Settled(@, "rejected")]
        /\ UNCHANGED <<promises, loose>>
     \/ /\ promises[id] = None
        /\ \E o \in Objects :
             /\ Register(id, o, "early", "rejected")
             /\ loose' = loose \cup {o}

(* Mutant: a cancelled promise is resolved with nothing. *)
CancelledByResolve(S) ==
  /\ heap' = [o \in Objects |->
                IF \E id \in S : promises[id] = o
                  THEN Settled(heap[o], "resolved") ELSE heap[o]]
  /\ promises' = [id \in Ids |-> IF id \in S THEN None ELSE promises[id]]
  /\ UNCHANGED loose

(* cancel of every id of S that has an entry: cancel(id) or cancelAll(). *)
Cancelled(S) ==
  /\ heap' = [o \in Objects |->
                IF \E id \in S : promises[id] = o
                  THEN Settled(heap[o], "rejected") ELSE heap[o]]
  /\ promises' = [id \in Ids |-> IF id \in S THEN None ELSE promises[id]]
  /\ UNCHANGED loose

Cancel(id) ==
  /\ ~Crashed
  /\ promises[id] # None
  /\ Cancelled({id})

CancelAll ==
  /\ ~Crashed
  /\ \E id \in Ids : promises[id] # None
  /\ Cancelled(Ids)

(* Mutant: delete also clears the timeout of the entry. *)
DeleteAndClear(id) ==
  /\ ~Crashed
  /\ promises' = [promises EXCEPT ![id] = None]
  /\ heap' = [o \in Objects |->
                IF promises[id] = o THEN [heap[o] EXCEPT !.timer = "off"] ELSE heap[o]]
  /\ UNCHANGED loose

(* delete(id) leaves the record and its timer alone. *)
Delete(id) ==
  /\ ~Crashed
  /\ promises' = [promises EXCEPT ![id] = None]
  /\ UNCHANGED <<heap, loose>>

(* Mutant: every timer just drops the entry of its id. *)
TimerDropsEntry(o) ==
  /\ ~Crashed
  /\ heap[o].timer = "armed"
  /\ heap' = [heap EXCEPT ![o].timer = "off"]
  /\ promises' = [promises EXCEPT ![heap[o].id] = None]
  /\ UNCHANGED loose

(* setTimeout callbacks.  The early one deletes by id: whichever record is  *)
(* registered under that id by then.                                        *)
TimerFires(o) ==
  /\ ~Crashed
  /\ heap[o].timer = "armed"
  /\ \/ /\ heap[o].kind = "deferred"
        /\ heap' = [heap EXCEPT ![o] = Settled(@, "rejected")]
        /\ UNCHANGED promises
     \/ /\ heap[o].kind = "early"
        /\ heap' = [heap EXCEPT ![o].timer = "off"]
        /\ promises' = [promises EXCEPT ![heap[o].id] = None]
  /\ UNCHANGED loose

TrackerNext ==
  \/ \E id \in Ids :
       \/ Promise(id)
       \/ ResponseEvent(id)
       \/ ErrorEvent(id)
       \/ Cancel(id)
       \/ Delete(id)
  \/ CancelAll
  \/ \E o \in Objects : Await(o) \/ TimerFires(o)

(* Node fires every timer that is due while the process runs.  Nothing     *)
(* obliges a response to arrive or a caller to await, cancel or delete.    *)
TrackerSpec ==
  /\ TrackerInit
  /\ [][TrackerNext]_trackerVars
  /\ \A o \in Objects : WF_trackerVars(TimerFires(o))

-----------------------------------------------------------------------------
(* Types, and which record may be registered where: a registered record    *)
(* has been allocated, under that very id.                                 *)
TrackerTypeOK ==
  /\ promises \in [Ids -> Objects \cup {None}]
  /\ heap \in [Objects -> ResponseTracker]
  /\ loose \subseteq Objects
  /\ \A o \in Objects : Born(o) <=> heap[o].id # None
  /\ \A id \in Ids :
       promises[id] # None => Born(promises[id]) /\ heap[promises[id]].id = id

(* A promise that has not settled always has a running timer, whatever     *)
(* responses, cancels and deletes went before: no call can leave a caller  *)
(* waiting on a promise nothing will ever settle.                          *)
NeverHangs ==
  \A o \in Objects : Pending(o) => heap[o].kind = "deferred" /\ heap[o].timer = "armed"

(* Every promise handed out is settled in the end, unless the process ends *)
(* first on a rejection nobody handles.                                    *)
EveryPromiseSettles ==
  \A o \in Objects : Pending(o) ~> (~Pending(o) \/ Crashed)

=============================================================================
