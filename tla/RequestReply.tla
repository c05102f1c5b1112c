----------------------------- MODULE RequestReply -----------------------------
(***************************************************************************)
(* What the Stream Awaiter promises its callers, without promises, timers  *)
(* or tables: each call has one outcome, which is final, and a call is     *)
(* answered only if a response carrying its own id was received while it   *)
(* was outstanding.                                                        *)
(***************************************************************************)

CONSTANT Requests

VARIABLES
  outcome, (* what the caller of each request has seen so far            *)
  replied  (* requests for which a response has been received            *)

rrVars == <<outcome, replied>>

Outcomes == {"idle", "pending", "answered", "failed"}

Init ==
  /\ outcome = [r \in Requests |-> "idle"]
  /\ replied = {}

Becomes(r, from, to) ==
  /\ outcome[r] = from
  /\ outcome' = [outcome EXCEPT ![r] = to]
  /\ UNCHANGED replied

Call(r) == Becomes(r, "idle", "pending")

(* A call that is refused before anything is sent. *)
Refuse(r) == Becomes(r, "idle", "failed")

(* A response can only follow the call; it may be late or a duplicate. *)
Reply(r) ==
  /\ outcome[r] # "idle"
  /\ replied' = replied \cup {r}
  /\ UNCHANGED outcome

Answer(r) == r \in replied /\ Becomes(r, "pending", "answered")

Fail(r) == Becomes(r, "pending", "failed")

Next ==
  \E r \in Requests :
    Call(r) \/ Refuse(r) \/ Reply(r) \/ Answer(r) \/ Fail(r)

Spec == Init /\ [][Next]_rrVars

=============================================================================
