----------------------------- MODULE StreamAwaiter -----------------------------
(***************************************************************************)
(* Call and response over two streams (class StreamAwaiter and function    *)
(* streamAwaiter of @streamerson/core).  dispatch() takes the promise of a *)
(* fresh message id, writes the request with XADD on the write channel,    *)
(* and then awaits the promise.  readResponseStream() hands each event of  *)
(* the response stream to the DeferralTracker.                             *)
(*                                                                         *)
(* A call is named by the message id, a fresh uuid, that dispatch() draws  *)
(* for it.  The two channels are separate connections: a response may      *)
(* overtake the reply to the XADD it answers.                              *)
(***************************************************************************)
EXTENDS DeferralTracker, Naturals

CONSTANT MaxResponses (* responses delivered per call: bounds the model    *)

ASSUME MaxResponsesAssumption == MaxResponses \in Nat

VARIABLES
  pc,        (* how far the dispatch() of each id has come                 *)
  expected,  (* $expectedResponse: the record whose promise the call holds *)
  executed,  (* ids whose XADD the server has executed                     *)
  received   (* how many responses readResponseStream has seen, per id     *)

callVars == <<pc, expected, executed, received>>
vars == <<promises, heap, loose, pc, expected, executed, received>>

Stages == {"idle", "writing", "awaiting", "returned", "threw"}

Outstanding(r) == pc[r] \in {"writing", "awaiting"}
Concluded(r) == pc[r] \in {"returned", "threw"}

Init ==
  /\ TrackerInit
  /\ pc = [r \in Ids |-> "idle"]
  /\ expected = [r \in Ids |-> None]
  /\ executed = {}
  /\ received = [r \in Ids |-> 0]

-----------------------------------------------------------------------------
Goto(r, stage) == pc' = [pc EXCEPT ![r] = stage]

(* Mutant: the promise is taken only after the write. *)
DispatchWithoutPromise(r) ==
  /\ ~Crashed
  /\ pc[r] = "idle"
  /\ Goto(r, "writing")
  /\ UNCHANGED <<promises, heap, loose, expected, executed, received>>

(* dispatch up to `await writeToStream`: the promise is taken first. *)
Dispatch(r) ==
  /\ pc[r] = "idle"
  /\ Promise(r)
  /\ expected' = [expected EXCEPT ![r] = promises'[r]]
  /\ Goto(r, "writing")
  /\ UNCHANGED <<executed, received>>

(* Neither a configured nor an override stream: nothing has been done yet. *)
DispatchWithoutTarget(r) ==
  /\ ~Crashed
  /\ pc[r] = "idle"
  /\ Goto(r, "threw")
  /\ UNCHANGED <<promises, heap, loose, expected, executed, received>>

(* The server appends the request, whatever has become of the caller. *)
XaddExecutes(r) ==
  /\ ~Crashed
  /\ expected[r] # None
  /\ r \notin executed
  /\ executed' = executed \cup {r}
  /\ UNCHANGED <<promises, heap, loose, pc, expected, received>>

(* Mutant: the entry is deleted before the promise is awaited. *)
XaddRepliesAndDeletes(r) ==
  /\ ~Crashed
  /\ pc[r] = "writing"
  /\ r \in executed
  /\ loose' = loose \ {expected[r]}
  /\ promises' = [promises EXCEPT ![r] = None]
  /\ Goto(r, "awaiting")
  /\ UNCHANGED <<heap, expected, executed, received>>

(* Mutant: the response is waited for without a handler for rejections. *)
XaddRepliesWithoutHandler(r) ==
  /\ ~Crashed
  /\ pc[r] = "writing"
  /\ r \in executed
  /\ Goto(r, "awaiting")
  /\ UNCHANGED <<promises, heap, loose, expected, executed, received>>

(* `await writeToStream` returns and the promise is awaited from here on. *)
XaddReplies(r) ==
  /\ pc[r] = "writing"
  /\ r \in executed
  /\ Await(expected[r])
  /\ Goto(r, "awaiting")
  /\ UNCHANGED <<expected, executed, received>>

(* writeToStream throws: dispatch throws with it, and nobody awaits the     *)
(* promise or deletes its entry.                                            *)
XaddFails(r) ==
  /\ ~Crashed
  /\ pc[r] = "writing"
  /\ Goto(r, "threw")
  /\ UNCHANGED <<promises, heap, loose, expected, executed, received>>

(* readResponseStream emits a response: the first one, a duplicate, or one *)
(* that comes after the caller has given up.                               *)
ResponseArrives(r) ==
  /\ r \in executed
  /\ received[r] < MaxResponses
  /\ received' = [received EXCEPT ![r] = @ + 1]
  /\ ResponseEvent(r)
  /\ UNCHANGED <<pc, expected, executed>>

(* `await $expectedResponse` resumes with the payload, and the entry goes. *)
ResumeWithResponse(r) ==
  /\ pc[r] = "awaiting"
  /\ heap[expected[r]].state = "resolved"
  /\ Goto(r, "returned")
  /\ Delete(r)
  /\ UNCHANGED <<expected, executed, received>>

(* `await $expectedResponse` throws; the lines after it are not reached. *)
ResumeWithError(r) ==
  /\ ~Crashed
  /\ pc[r] = "awaiting"
  /\ heap[expected[r]].state = "rejected"
  /\ Goto(r, "threw")
  /\ UNCHANGED <<promises, heap, loose, expected, executed, received>>

Resume(r) == ResumeWithResponse(r) \/ ResumeWithError(r)

(* The owner of the awaiter calls stateTracker.cancelAll(). *)
CancelCalls == CancelAll /\ UNCHANGED callVars

CallTimerFires(o) == TimerFires(o) /\ UNCHANGED callVars

Next ==
  \/ \E r \in Ids :
       \/ Dispatch(r)
       \/ DispatchWithoutTarget(r)
       \/ XaddExecutes(r)
       \/ XaddReplies(r)
       \/ XaddFails(r)
       \/ ResponseArrives(r)
       \/ ResumeWithResponse(r)
       \/ ResumeWithError(r)
  \/ CancelCalls
  \/ \E o \in Objects : CallTimerFires(o)

(* Node runs due timers and the continuations of settled promises.  Redis  *)
(* owes nobody anything: no fairness on XADD or on responses.              *)
Fairness ==
  /\ \A o \in Objects : WF_vars(CallTimerFires(o))
  /\ \A r \in Ids : WF_vars(Resume(r))

SafetySpec == Init /\ [][Next]_vars

Spec == SafetySpec /\ Fairness

-----------------------------------------------------------------------------
(* Types, and what ties a call to its record: a call that has sent          *)
(* something holds a deferred record made for its own id, and no call holds *)
(* the record of another.                                                   *)
CallTypeOK ==
  /\ pc \in [Ids -> Stages]
  /\ expected \in [Ids -> Objects \cup {None}]
  /\ executed \subseteq Ids
  /\ received \in [Ids -> 0..MaxResponses]
  /\ \A r \in Ids :
       expected[r] # None =>
         heap[expected[r]].id = r /\ heap[expected[r]].kind = "deferred"
  /\ \A r \in Ids :
       /\ pc[r] = "idle" => expected[r] = None
       /\ pc[r] \in {"writing", "awaiting", "returned"} => expected[r] # None

TypeOK == TrackerTypeOK /\ CallTypeOK

(* As long as a call can still be answered, a response with its id finds    *)
(* its record: no duplicate, late timer, cancel or concluded call in        *)
(* between takes the entry out of the table or puts another in its place.   *)
Reachable ==
  \A r \in Ids :
    expected[r] # None /\ heap[expected[r]].state = "pending" =>
      promises[r] = expected[r]

(* A rejection only ends the process when the request was not written in    *)
(* time: once a call awaits its response, no timeout and no cancel of it    *)
(* can, and neither can anything that happens after it returned.            *)
OnlyUnwrittenCallsCrash ==
  \A o \in loose :
    heap[o].state = "rejected" =>
      \E r \in Ids : expected[r] = o /\ pc[r] \in {"writing", "threw"}

(* Reachable is not inductive by itself.  Its strengthening says in         *)
(* addition that nothing is sent, and so nothing can be received, for a call *)
(* that has taken no promise; that a response was received for each call    *)
(* whose promise is resolved; and that a record for a response nobody asked *)
(* for is made only once its call can no longer be pending, so that its     *)
(* timer, which deletes by id, finds no live record there.                  *)
SentIsExpected == \A r \in executed : expected[r] # None

IdleIsUntouched ==
  \A r \in Ids : expected[r] = None => promises[r] = None

AnsweredWasReceived ==
  \A r \in Ids :
    expected[r] # None /\ heap[expected[r]].state = "resolved" => received[r] > 0

EarlyComesLate ==
  \A o \in Objects :
    heap[o].kind = "early" =>
      /\ expected[heap[o].id] # None
      /\ heap[expected[heap[o].id]].state # "pending"

LooseIsUnwritten ==
  \A o \in loose :
    \E r \in Ids : expected[r] = o /\ pc[r] \in {"writing", "threw"}

CallInv ==
  /\ CallTypeOK
  /\ SentIsExpected
  /\ IdleIsUntouched
  /\ AnsweredWasReceived
  /\ EarlyComesLate
  /\ Reachable
  /\ LooseIsUnwritten

IInv == TrackerTypeOK /\ NeverHangs /\ CallInv

(* What the caller has seen of a call that has come to this stage. *)
Seen(stage) ==
  CASE stage = "idle" -> "idle"
    [] stage = "writing" -> "pending"
    [] stage = "awaiting" -> "pending"
    [] stage = "returned" -> "answered"
    [] stage = "threw" -> "failed"

outcome == [r \in Ids |-> Seen(pc[r])]

replied == {r \in Ids : received[r] > 0}

(* The awaiter implements its abstract specification: every call has one,   *)
(* final outcome, and returns only if a response with its own id was        *)
(* received while it waited.                                                *)
RR == INSTANCE RequestReply WITH Requests <- Ids

ImplementsRequestReply == RR!Spec

(* A caller that awaits its response is answered or told of the timeout,    *)
(* whatever Redis does, unless another call ends the process.               *)
EveryCallConcludes ==
  \A r \in Ids : pc[r] = "awaiting" ~> (Concluded(r) \/ Crashed)
=============================================================================
