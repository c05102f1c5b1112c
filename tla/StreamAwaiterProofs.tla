-------------------------- MODULE StreamAwaiterProofs --------------------------
(***************************************************************************)
(* Proofs about the promise table, for any sets of ids and records, and    *)
(* about the Stream Awaiter that uses it, for any number of calls: types,  *)
(* that no sequence of calls leaves a promise nothing will settle, the     *)
(* inductive invariant IInv with the safety properties it implies, and     *)
(* that the awaiter implements RequestReply.                               *)
(***************************************************************************)
EXTENDS StreamAwaiter, TLAPS

-----------------------------------------------------------------------------
(* The promise table.                                                       *)

(* Allocating and registering a record keeps the table consistent and      *)
(* gives the new promise a running timer.                                  *)
LEMMA RegisterKeeps ==
  ASSUME NEW id \in Ids, NEW o \in Objects,
         NEW kind \in {"deferred", "early"}, NEW state \in States,
         kind = "early" => state # "pending",
         TrackerTypeOK, NeverHangs,
         Register(id, o, kind, state),
         loose' \subseteq Objects
  PROVE  TrackerTypeOK' /\ NeverHangs'
BY NoneAssumption, SMTT(30)
   DEF TrackerTypeOK, NeverHangs, Register, Born, Pending, ResponseTracker,
       Kinds, States, Timers

(* Settling a record changes neither its id nor its kind, leaves it with an *)
(* outcome and stops its timer.                                             *)
LEMMA SettledFields ==
  ASSUME NEW r \in ResponseTracker, NEW settling \in {"resolved", "rejected"}
  PROVE  /\ Settled(r, settling) \in ResponseTracker
         /\ Settled(r, settling).id = r.id
         /\ Settled(r, settling).kind = r.kind
         /\ Settled(r, settling).state # "pending"
         /\ Settled(r, settling).state = IF r.state = "pending" THEN settling ELSE r.state
BY DEF Settled, ResponseTracker, Kinds, States, Timers

LEMMA SettledKeeps ==
  ASSUME NEW o \in Objects, NEW settling \in {"resolved", "rejected"},
         TrackerTypeOK, NeverHangs,
         heap' = [heap EXCEPT ![o] = Settled(@, settling)],
         UNCHANGED <<promises, loose>>
  PROVE  TrackerTypeOK' /\ NeverHangs'
<1>1. heap[o] \in ResponseTracker
  BY DEF TrackerTypeOK
<1>2. PICK s \in ResponseTracker :
        /\ s = Settled(heap[o], settling)
        /\ s.id = heap[o].id /\ s.kind = heap[o].kind /\ s.state # "pending"
  BY <1>1, SettledFields
<1>3. heap' = [heap EXCEPT ![o] = s]
  BY <1>2
<1>. QED BY <1>2, <1>3 DEF TrackerTypeOK, NeverHangs, Born, Pending

LEMMA CancelledKeeps ==
  ASSUME NEW S \in SUBSET Ids, TrackerTypeOK, NeverHangs, Cancelled(S)
  PROVE  TrackerTypeOK' /\ NeverHangs'
<1>1. heap' \in [Objects -> ResponseTracker]
  BY SettledFields DEF Cancelled, TrackerTypeOK
<1>2. ASSUME NEW o \in Objects
      PROVE  /\ heap'[o].id = heap[o].id /\ heap'[o].kind = heap[o].kind
             /\ heap'[o] = heap[o] \/ heap'[o].state # "pending"
  BY SettledFields DEF Cancelled, TrackerTypeOK
<1>3. /\ promises' \in [Ids -> Objects \cup {None}]
      /\ \A id \in Ids : promises'[id] \in {None, promises[id]}
      /\ loose' = loose
  BY DEF Cancelled, TrackerTypeOK
<1>. QED BY <1>1, <1>2, <1>3, NoneAssumption
         DEF TrackerTypeOK, NeverHangs, Born, Pending

LEMMA TrackerStep ==
  TrackerTypeOK /\ NeverHangs /\ [TrackerNext]_trackerVars
    => TrackerTypeOK' /\ NeverHangs'
<1> SUFFICES ASSUME TrackerTypeOK, NeverHangs, [TrackerNext]_trackerVars
             PROVE  TrackerTypeOK' /\ NeverHangs'
  OBVIOUS
<1>1. ASSUME NEW id \in Ids, Promise(id) PROVE TrackerTypeOK' /\ NeverHangs'
  <2>1. CASE promises[id] # None
    BY <1>1, <2>1 DEF Promise, TrackerTypeOK, NeverHangs, Born, Pending
  <2>2. CASE promises[id] = None
    <3>1. PICK o \in Objects : Register(id, o, "deferred", "pending") /\ loose' = loose \cup {o}
      BY <1>1, <2>2 DEF Promise
    <3>2. loose' \subseteq Objects
      BY <3>1 DEF TrackerTypeOK
    <3>. QED BY <3>1, <3>2, RegisterKeeps DEF States
  <2>. QED BY <2>1, <2>2
<1>2. ASSUME NEW id \in Ids, ResponseEvent(id) PROVE TrackerTypeOK' /\ NeverHangs'
  <2>1. CASE promises[id] # None
    BY <1>2, <2>1, SettledKeeps DEF ResponseEvent, TrackerTypeOK
  <2>2. CASE promises[id] = None
    <3>1. PICK o \in Objects : Register(id, o, "early", "resolved")
      BY <1>2, <2>2 DEF ResponseEvent
    <3>2. loose' \subseteq Objects
      BY <1>2 DEF ResponseEvent, TrackerTypeOK
    <3>. QED BY <3>1, <3>2, RegisterKeeps DEF States
  <2>. QED BY <2>1, <2>2
<1>3. ASSUME NEW id \in Ids, ErrorEvent(id) PROVE TrackerTypeOK' /\ NeverHangs'
  <2>1. CASE promises[id] # None
    BY <1>3, <2>1, SettledKeeps DEF ErrorEvent, TrackerTypeOK
  <2>2. CASE promises[id] = None
    <3>1. PICK o \in Objects : Register(id, o, "early", "rejected") /\ loose' = loose \cup {o}
      BY <1>3, <2>2 DEF ErrorEvent
    <3>2. loose' \subseteq Objects
      BY <3>1 DEF TrackerTypeOK
    <3>. QED BY <3>1, <3>2, RegisterKeeps DEF States
  <2>. QED BY <2>1, <2>2
<1>4. ASSUME NEW id \in Ids, Cancel(id) PROVE TrackerTypeOK' /\ NeverHangs'
  BY <1>4, CancelledKeeps DEF Cancel
<1>5. ASSUME NEW id \in Ids, Delete(id) PROVE TrackerTypeOK' /\ NeverHangs'
  BY <1>5 DEF Delete, TrackerTypeOK, NeverHangs, Born, Pending
<1>6. CASE CancelAll
  BY <1>6, CancelledKeeps DEF CancelAll
<1>7. ASSUME NEW o \in Objects, Await(o) PROVE TrackerTypeOK' /\ NeverHangs'
  BY <1>7 DEF Await, TrackerTypeOK, NeverHangs, Born, Pending
<1>8. ASSUME NEW o \in Objects, TimerFires(o) PROVE TrackerTypeOK' /\ NeverHangs'
  <2>1. CASE heap[o].kind = "deferred"
    BY <1>8, <2>1, SettledKeeps DEF TimerFires
  <2>2. CASE heap[o].kind = "early"
    BY <1>8, <2>2, SMTT(30)
       DEF TimerFires, TrackerTypeOK, NeverHangs, Born, Pending,
           ResponseTracker, Kinds, States, Timers
  <2>. QED BY <1>8, <2>1, <2>2 DEF TimerFires
<1>9. CASE UNCHANGED trackerVars
  BY <1>9 DEF trackerVars, TrackerTypeOK, NeverHangs, Born, Pending
<1>. QED BY <1>1, <1>2, <1>3, <1>4, <1>5, <1>6, <1>7, <1>8, <1>9 DEF TrackerNext

(* Whatever sequence of promise, response, error, cancel, delete and timer *)
(* has gone before: the table only points at records made for the id they  *)
(* are registered under, and every unsettled promise has a running timer.  *)
THEOREM TrackerSafety == TrackerSpec => [](TrackerTypeOK /\ NeverHangs)
<1>1. TrackerInit => TrackerTypeOK /\ NeverHangs
  BY NoneAssumption
     DEF TrackerInit, TrackerTypeOK, NeverHangs, Unborn, Born, Pending,
         ResponseTracker, Kinds, States, Timers
<1>. QED BY <1>1, TrackerStep, PTL DEF TrackerSpec

-----------------------------------------------------------------------------
(* The awaiter.                                                             *)

(* A record that has been allocated belongs to an id. *)
LEMMA RecordIdOK ==
  ASSUME TrackerTypeOK, NEW o \in Objects, Born(o)
  PROVE  heap[o].id \in Ids
BY DEF TrackerTypeOK, ResponseTracker

(* Every step of the awaiter is a step of its tracker. *)
LEMMA NextIsTrackerNext ==
  TypeOK /\ [Next]_vars => [TrackerNext]_trackerVars
<1> SUFFICES ASSUME TypeOK, [Next]_vars PROVE [TrackerNext]_trackerVars
  OBVIOUS
<1>1. ASSUME NEW r \in Ids, XaddReplies(r) PROVE TrackerNext
  <2>1. expected[r] \in Objects
    BY <1>1 DEF XaddReplies, TypeOK, CallTypeOK
  <2>. QED BY <1>1, <2>1 DEF XaddReplies, TrackerNext
<1>2. ASSUME NEW r \in Ids,
             \/ Dispatch(r) \/ DispatchWithoutTarget(r) \/ XaddExecutes(r)
             \/ XaddFails(r) \/ ResponseArrives(r)
             \/ ResumeWithResponse(r) \/ ResumeWithError(r)
      PROVE  [TrackerNext]_trackerVars
  BY <1>2 DEF Dispatch, DispatchWithoutTarget, XaddExecutes, XaddFails, ResponseArrives,
              ResumeWithResponse, ResumeWithError, TrackerNext, trackerVars
<1>3. CASE CancelCalls
  BY <1>3 DEF CancelCalls, TrackerNext
<1>4. ASSUME NEW o \in Objects, CallTimerFires(o) PROVE TrackerNext
  BY <1>4 DEF CallTimerFires, TrackerNext
<1>5. CASE UNCHANGED vars
  BY <1>5 DEF vars, trackerVars
<1>. QED BY <1>1, <1>2, <1>3, <1>4, <1>5 DEF Next

LEMMA InitIInv == Init => IInv
BY NoneAssumption, MaxResponsesAssumption
   DEF Init, TrackerInit, IInv, CallInv, TrackerTypeOK, NeverHangs, CallTypeOK, Stages,
       SentIsExpected, IdleIsUntouched, AnsweredWasReceived, EarlyComesLate, Reachable,
       LooseIsUnwritten, Unborn, Born, Pending, ResponseTracker, Kinds, States, Timers

(* Taking the promise: the id is untouched, so a new record is made for it. *)
LEMMA DispatchKeeps ==
  ASSUME IInv, NEW r \in Ids, Dispatch(r)
  PROVE  CallInv'
<1>. USE NoneAssumption DEF IInv, CallInv
<1>1. promises[r] = None /\ expected[r] = None
  BY DEF Dispatch, CallTypeOK, IdleIsUntouched
<1>2. PICK o \in Objects : Register(r, o, "deferred", "pending") /\ loose' = loose \cup {o}
  BY <1>1 DEF Dispatch, Promise
<1>3. /\ heap' = [heap EXCEPT ![o] = [id |-> r, kind |-> "deferred",
                                      state |-> "pending", timer |-> "armed"]]
      /\ promises' = [promises EXCEPT ![r] = o]
      /\ expected' = [expected EXCEPT ![r] = o]
      /\ pc' = [pc EXCEPT ![r] = "writing"]
      /\ executed' = executed /\ received' = received
  BY <1>2 DEF Dispatch, Goto, Register, TrackerTypeOK
<1>4. /\ heap[o].id = None
      /\ \A s \in Ids : expected[s] # o
  BY <1>2 DEF Register, Born, TrackerTypeOK, CallTypeOK
<1>. USE <1>2, <1>3, <1>4
<1>5. CallTypeOK'
  BY DEF TrackerTypeOK, CallTypeOK, Stages
<1>6. SentIsExpected' /\ IdleIsUntouched' /\ AnsweredWasReceived' /\ Reachable'
  BY DEF TrackerTypeOK, CallTypeOK, SentIsExpected, IdleIsUntouched, AnsweredWasReceived, Reachable
<1>7. EarlyComesLate'
  <2> SUFFICES ASSUME NEW x \in Objects, heap'[x].kind = "early"
               PROVE  expected'[heap'[x].id] # None /\ heap'[expected'[heap'[x].id]].state # "pending"
    BY DEF EarlyComesLate
  <2>1. x # o /\ heap'[x] = heap[x]
    BY DEF TrackerTypeOK
  <2>2. heap[x].id \in Ids
    BY <2>1, RecordIdOK DEF Born
  <2>3. expected[heap[x].id] # None /\ heap[expected[heap[x].id]].state # "pending"
    BY <2>1 DEF EarlyComesLate
  <2>4. heap[x].id # r /\ expected[heap[x].id] \in Objects \ {o}
    BY <1>1, <2>2, <2>3 DEF CallTypeOK
  <2>. QED BY <2>1, <2>2, <2>3, <2>4 DEF TrackerTypeOK, CallTypeOK
<1>8. LooseIsUnwritten'
  BY <1>1 DEF LooseIsUnwritten, CallTypeOK, TrackerTypeOK
<1>. QED BY <1>5, <1>6, <1>7, <1>8

(* What leaves the table, the records and their handlers alone only moves   *)
(* one call along.                                                          *)
LEMMA CallStepKeeps ==
  ASSUME IInv, NEW r \in Ids,
         \/ DispatchWithoutTarget(r) \/ XaddExecutes(r)
         \/ XaddFails(r) \/ ResumeWithError(r)
  PROVE  CallInv'
<1>1. UNCHANGED <<promises, heap, loose, expected, received>>
  BY DEF DispatchWithoutTarget, XaddExecutes, XaddFails, ResumeWithError
<1>2. CASE XaddExecutes(r)
  BY <1>1, <1>2 DEF XaddExecutes, IInv, CallInv, CallTypeOK, SentIsExpected, IdleIsUntouched,
       AnsweredWasReceived, EarlyComesLate, Reachable, LooseIsUnwritten
<1>3. CASE \/ DispatchWithoutTarget(r) \/ XaddFails(r) \/ ResumeWithError(r)
  <2>1. pc' = [pc EXCEPT ![r] = "threw"] /\ executed' = executed
    BY <1>3 DEF DispatchWithoutTarget, XaddFails, ResumeWithError, Goto
  <2>. QED BY <1>1, <2>1 DEF IInv, CallInv, CallTypeOK, Stages, SentIsExpected, IdleIsUntouched,
       AnsweredWasReceived, EarlyComesLate, Reachable, LooseIsUnwritten
<1>. QED BY <1>2, <1>3

(* Awaiting the promise makes it handled, and nobody else holds it. *)
LEMMA XaddRepliesKeeps ==
  ASSUME IInv, NEW r \in Ids, XaddReplies(r)
  PROVE  CallInv'
BY DEF XaddReplies, Await, Goto, IInv, CallInv, CallTypeOK, Stages, SentIsExpected,
       IdleIsUntouched, AnsweredWasReceived, EarlyComesLate, Reachable, LooseIsUnwritten

(* The entry a call deletes when it returns is no longer needed by anyone:  *)
(* its own promise is resolved.                                             *)
LEMMA ResumeWithResponseKeeps ==
  ASSUME IInv, NEW r \in Ids, ResumeWithResponse(r)
  PROVE  CallInv'
BY DEF ResumeWithResponse, Delete, Goto, IInv, CallInv, TrackerTypeOK, CallTypeOK, Stages,
       SentIsExpected, IdleIsUntouched, AnsweredWasReceived, EarlyComesLate, Reachable,
       LooseIsUnwritten

(* A response settles the record of its own call, or finds that call over. *)
LEMMA ResponseArrivesKeeps ==
  ASSUME IInv, NEW r \in Ids, ResponseArrives(r)
  PROVE  CallInv'
<1>. USE NoneAssumption, MaxResponsesAssumption DEF IInv, CallInv
<1>1. /\ UNCHANGED <<pc, expected, executed, loose>>
      /\ received' = [received EXCEPT ![r] = @ + 1]
      /\ received' \in [Ids -> 0..MaxResponses] /\ received'[r] > 0
      /\ \A s \in Ids : received[s] > 0 => received'[s] > 0
      /\ expected[r] # None
  BY DEF ResponseArrives, ResponseEvent, CallTypeOK, SentIsExpected
<1>2. CASE promises[r] # None
  <2>1. PICK o \in Objects : o = promises[r] /\ heap[o].id = r
    BY <1>2 DEF TrackerTypeOK
  <2>2. /\ promises' = promises
        /\ heap' = [heap EXCEPT ![o] = Settled(@, "resolved")]
        /\ heap[o] \in ResponseTracker
    BY <1>2, <2>1 DEF ResponseArrives, ResponseEvent, TrackerTypeOK
  <2>3. \A x \in Objects :
          /\ heap'[x].id = heap[x].id /\ heap'[x].kind = heap[x].kind
          /\ heap'[x].state # "pending" \/ (x # o /\ heap[x].state = "pending")
          /\ heap'[x].state \in {heap[x].state, "resolved"}
          /\ x # o => heap'[x] = heap[x]
    BY <2>2, SettledFields DEF TrackerTypeOK
  <2>4. \A s \in Ids : expected[s] = o => s = r
    BY <2>1 DEF CallTypeOK
  <2>5. CallTypeOK' /\ SentIsExpected' /\ IdleIsUntouched' /\ Reachable' /\ LooseIsUnwritten'
    BY <1>1, <2>2, <2>3 DEF CallTypeOK, SentIsExpected, IdleIsUntouched, Reachable, LooseIsUnwritten
  <2>6. AnsweredWasReceived'
    BY <1>1, <2>3, <2>4 DEF CallTypeOK, AnsweredWasReceived
  <2>7. EarlyComesLate'
    BY <1>1, <2>3, RecordIdOK DEF CallTypeOK, EarlyComesLate, Born
  <2>. QED BY <2>5, <2>6, <2>7
<1>3. CASE promises[r] = None
  <2>1. PICK o \in Objects : Register(r, o, "early", "resolved")
    BY <1>3 DEF ResponseArrives, ResponseEvent
  <2>2. /\ heap' = [heap EXCEPT ![o] = [id |-> r, kind |-> "early",
                                        state |-> "resolved", timer |-> "armed"]]
        /\ promises' = [promises EXCEPT ![r] = o]
        /\ heap[o].kind = "unborn" /\ heap[o].id = None
    BY <2>1 DEF Register, Born, TrackerTypeOK
  <2>3. /\ \A s \in Ids : expected[s] # o
        /\ \A x \in Objects : x # o => heap'[x] = heap[x]
        /\ heap'[o].id = r /\ heap'[o].kind = "early"
    BY <2>2 DEF TrackerTypeOK, CallTypeOK
  <2>4. heap[expected[r]].state # "pending"
    BY <1>1, <1>3 DEF Reachable
  <2>5. CallTypeOK' /\ SentIsExpected' /\ IdleIsUntouched' /\ LooseIsUnwritten'
    BY <1>1, <2>2, <2>3 DEF TrackerTypeOK, CallTypeOK, SentIsExpected, IdleIsUntouched, LooseIsUnwritten
  <2>6. AnsweredWasReceived'
    BY <1>1, <2>3 DEF CallTypeOK, AnsweredWasReceived
  <2>7. Reachable'
    BY <1>1, <2>2, <2>3, <2>4 DEF TrackerTypeOK, CallTypeOK, Reachable
  <2>8. EarlyComesLate'
    <3> SUFFICES ASSUME NEW x \in Objects, heap'[x].kind = "early"
                 PROVE  expected'[heap'[x].id] # None /\ heap'[expected'[heap'[x].id]].state # "pending"
      BY DEF EarlyComesLate
    <3>1. CASE x = o
      BY <1>1, <2>3, <2>4, <3>1 DEF CallTypeOK
    <3>2. CASE x # o
      <4>1. heap[x].id \in Ids /\ heap[x].kind = "early"
        BY <2>3, <3>2, RecordIdOK DEF Born
      <4>. QED BY <1>1, <2>3, <3>2, <4>1 DEF EarlyComesLate, CallTypeOK
    <3>. QED BY <3>1, <3>2
  <2>. QED BY <2>5, <2>6, <2>7, <2>8
<1>. QED BY <1>2, <1>3

(* cancelAll settles every record a call could still be waiting on. *)
LEMMA CancelCallsKeeps ==
  ASSUME IInv, CancelCalls
  PROVE  CallInv'
<1>. USE NoneAssumption DEF IInv, CallInv
<1>1. /\ UNCHANGED <<pc, expected, executed, received, loose>>
      /\ promises' = [id \in Ids |-> None]
      /\ heap' = [o \in Objects |->
                    IF \E id \in Ids : promises[id] = o
                      THEN Settled(heap[o], "rejected") ELSE heap[o]]
  BY DEF CancelCalls, CancelAll, Cancelled, callVars
<1>2. \A x \in Objects :
        /\ heap'[x].id = heap[x].id /\ heap'[x].kind = heap[x].kind
        /\ heap'[x].state = "pending" => heap[x].state = "pending" /\ \A id \in Ids : promises[id] # x
        /\ heap'[x].state \in {heap[x].state, "rejected"}
  BY <1>1, SettledFields DEF TrackerTypeOK
<1>3. CallTypeOK' /\ SentIsExpected' /\ IdleIsUntouched' /\ AnsweredWasReceived' /\ LooseIsUnwritten'
  BY <1>1, <1>2 DEF CallTypeOK, SentIsExpected, IdleIsUntouched, AnsweredWasReceived, LooseIsUnwritten
<1>4. EarlyComesLate'
  BY <1>1, <1>2, RecordIdOK DEF CallTypeOK, EarlyComesLate, Born
<1>5. Reachable'
  BY <1>1, <1>2 DEF CallTypeOK, Reachable
<1>. QED BY <1>3, <1>4, <1>5

(* The timer of a promise rejects it where it stands.  That of an early     *)
(* record deletes an entry no pending call depends on.                      *)
LEMMA CallTimerFiresKeeps ==
  ASSUME IInv, NEW o \in Objects, CallTimerFires(o)
  PROVE  CallInv'
<1>. USE NoneAssumption DEF IInv, CallInv
<1>1. UNCHANGED <<pc, expected, executed, received, loose>>
  BY DEF CallTimerFires, TimerFires, callVars
<1>2. CASE heap[o].kind = "deferred"
  <2>1. promises' = promises /\ heap' = [heap EXCEPT ![o] = Settled(@, "rejected")]
    BY <1>2 DEF CallTimerFires, TimerFires
  <2>2. \A x \in Objects :
          /\ heap'[x].id = heap[x].id /\ heap'[x].kind = heap[x].kind
          /\ heap'[x].state = "pending" => heap[x].state = "pending"
          /\ heap'[x].state \in {heap[x].state, "rejected"}
    BY <2>1, SettledFields DEF TrackerTypeOK
  <2>3. CallTypeOK' /\ SentIsExpected' /\ IdleIsUntouched' /\ AnsweredWasReceived' /\ LooseIsUnwritten'
    BY <1>1, <2>1, <2>2 DEF CallTypeOK, SentIsExpected, IdleIsUntouched, AnsweredWasReceived, LooseIsUnwritten
  <2>4. EarlyComesLate'
    BY <1>1, <2>2, RecordIdOK DEF CallTypeOK, EarlyComesLate, Born
  <2>5. Reachable'
    BY <1>1, <2>1, <2>2 DEF CallTypeOK, Reachable
  <2>. QED BY <2>3, <2>4, <2>5
<1>3. CASE heap[o].kind = "early"
  <2>1. /\ heap' = [heap EXCEPT ![o].timer = "off"]
        /\ promises' = [promises EXCEPT ![heap[o].id] = None]
        /\ heap[o].id \in Ids
    BY <1>3, RecordIdOK DEF CallTimerFires, TimerFires, Born
  <2>2. \A x \in Objects :
          heap'[x].id = heap[x].id /\ heap'[x].kind = heap[x].kind /\ heap'[x].state = heap[x].state
    BY <2>1 DEF TrackerTypeOK, ResponseTracker
  <2>3. CallTypeOK' /\ SentIsExpected' /\ IdleIsUntouched' /\ AnsweredWasReceived' /\ LooseIsUnwritten'
    BY <1>1, <2>1, <2>2 DEF CallTypeOK, TrackerTypeOK, SentIsExpected, IdleIsUntouched,
         AnsweredWasReceived, LooseIsUnwritten
  <2>4. EarlyComesLate'
    BY <1>1, <2>2, RecordIdOK DEF CallTypeOK, EarlyComesLate, Born
  <2>5. heap[expected[heap[o].id]].state # "pending"
    BY <1>3 DEF EarlyComesLate
  <2>6. Reachable'
    BY <1>1, <2>1, <2>2, <2>5 DEF CallTypeOK, TrackerTypeOK, Reachable
  <2>. QED BY <2>3, <2>4, <2>6
<1>. QED BY <1>2, <1>3 DEF CallTimerFires, TimerFires

LEMMA NextKeepsIInv == IInv /\ [Next]_vars => IInv'
<1> SUFFICES ASSUME IInv, [Next]_vars PROVE IInv'
  OBVIOUS
<1>1. TrackerTypeOK' /\ NeverHangs'
  BY NextIsTrackerNext, TrackerStep DEF IInv, CallInv, TypeOK
<1>2. CallInv'
  <2>1. CASE UNCHANGED vars
    BY <2>1 DEF IInv, CallInv, CallTypeOK, SentIsExpected, IdleIsUntouched, AnsweredWasReceived,
         EarlyComesLate, Reachable, LooseIsUnwritten, vars
  <2>. QED BY <2>1, DispatchKeeps, CallStepKeeps, XaddRepliesKeeps, ResumeWithResponseKeeps,
            ResponseArrivesKeeps, CancelCallsKeeps, CallTimerFiresKeeps DEF Next
<1>. QED BY <1>1, <1>2 DEF IInv

THEOREM Inductive == SafetySpec => []IInv
BY InitIInv, NextKeepsIInv, PTL DEF SafetySpec

(* Types, and that a call holds a record made for its own id. *)
THEOREM TypeCorrect == SafetySpec => []TypeOK
<1>1. IInv => TypeOK
  BY DEF IInv, CallInv, TypeOK
<1>. QED BY <1>1, Inductive, PTL

(* Whatever duplicates, late timers, cancels and other calls do, a response *)
(* finds the record of a call that is still waiting for it.                 *)
THEOREM ResponsesReachTheirCall == SafetySpec => []Reachable
<1>1. IInv => Reachable
  BY DEF IInv, CallInv
<1>. QED BY <1>1, Inductive, PTL

(* Only a call whose request was not written in time can end the process.   *)
THEOREM WrittenCallsNeverCrash == SafetySpec => []OnlyUnwrittenCallsCrash
<1>1. IInv => OnlyUnwrittenCallsCrash
  BY DEF IInv, CallInv, LooseIsUnwritten, OnlyUnwrittenCallsCrash
<1>. QED BY <1>1, Inductive, PTL

-----------------------------------------------------------------------------
(* The refinement: each step of the awaiter is the step of the abstract     *)
(* call it stands for, or leaves the abstract state alone.                  *)

LEMMA SeenValues ==
  /\ Seen("idle") = "idle" /\ Seen("writing") = "pending" /\ Seen("awaiting") = "pending"
  /\ Seen("returned") = "answered" /\ Seen("threw") = "failed"
BY DEF Seen

(* A call that moves on changes its own outcome only. *)
LEMMA OutcomeMoves ==
  ASSUME TypeOK, NEW r \in Ids, NEW stage, Goto(r, stage), UNCHANGED received
  PROVE  /\ replied' = replied
         /\ outcome' = [outcome EXCEPT ![r] = Seen(stage)]
BY DEF TypeOK, CallTypeOK, Goto, outcome, replied

LEMMA NextIsAbstractNext ==
  IInv /\ [Next]_vars => [RR!Next]_(RR!rrVars)
<1> SUFFICES ASSUME IInv, [Next]_vars PROVE [RR!Next]_(RR!rrVars)
  OBVIOUS
<1>. USE DEF RR!rrVars
<1>0. TypeOK
  BY DEF IInv, CallInv, TypeOK
<1>1. ASSUME NEW r \in Ids, Dispatch(r) PROVE RR!Call(r)
  BY <1>0, <1>1, SeenValues, OutcomeMoves DEF Dispatch, RR!Call, RR!Becomes, outcome
<1>2. ASSUME NEW r \in Ids, DispatchWithoutTarget(r) PROVE RR!Refuse(r)
  BY <1>0, <1>2, SeenValues, OutcomeMoves DEF DispatchWithoutTarget, RR!Refuse, RR!Becomes, outcome
<1>3. ASSUME NEW r \in Ids, XaddExecutes(r) PROVE UNCHANGED <<outcome, replied>>
  BY <1>3 DEF XaddExecutes, outcome, replied
<1>4. ASSUME NEW r \in Ids, XaddReplies(r) PROVE UNCHANGED <<outcome, replied>>
  <2>1. outcome[r] = "pending"
    BY <1>4, SeenValues DEF XaddReplies, outcome
  <2>2. outcome' = [outcome EXCEPT ![r] = "pending"] /\ replied' = replied
    BY <1>0, <1>4, SeenValues, OutcomeMoves DEF XaddReplies
  <2>. QED BY <2>1, <2>2 DEF outcome
<1>5. ASSUME NEW r \in Ids, XaddFails(r) \/ ResumeWithError(r) PROVE RR!Fail(r)
  BY <1>0, <1>5, SeenValues, OutcomeMoves
     DEF XaddFails, ResumeWithError, RR!Fail, RR!Becomes, outcome
<1>6. ASSUME NEW r \in Ids, ResponseArrives(r) PROVE RR!Reply(r)
  <2>1. outcome[r] # "idle"
    BY <1>6, SeenValues DEF ResponseArrives, IInv, CallInv, CallTypeOK, Stages, SentIsExpected, outcome
  <2>2. replied' = replied \cup {r} /\ outcome' = outcome
    BY <1>6, MaxResponsesAssumption
       DEF ResponseArrives, IInv, CallInv, CallTypeOK, outcome, replied
  <2>. QED BY <2>1, <2>2 DEF RR!Reply
<1>7. ASSUME NEW r \in Ids, ResumeWithResponse(r) PROVE RR!Answer(r)
  <2>1. r \in replied
    BY <1>7 DEF ResumeWithResponse, IInv, CallInv, CallTypeOK, AnsweredWasReceived, replied
  <2>2. outcome[r] = "pending"
    BY <1>7, SeenValues DEF ResumeWithResponse, outcome
  <2>3. outcome' = [outcome EXCEPT ![r] = "answered"] /\ replied' = replied
    BY <1>0, <1>7, SeenValues, OutcomeMoves DEF ResumeWithResponse
  <2>. QED BY <2>1, <2>2, <2>3 DEF RR!Answer, RR!Becomes
<1>8. ASSUME \/ CancelCalls \/ UNCHANGED vars
             \/ \E o \in Objects : CallTimerFires(o)
      PROVE  UNCHANGED <<outcome, replied>>
  BY <1>8 DEF CancelCalls, CallTimerFires, callVars, vars, outcome, replied
<1>. QED BY <1>1, <1>2, <1>3, <1>4, <1>5, <1>6, <1>7, <1>8 DEF Next, RR!Next

(* Every behaviour of the awaiter is one of RequestReply. *)
THEOREM Implements == SafetySpec => ImplementsRequestReply
<1>1. Init => RR!Init
  BY SeenValues DEF Init, RR!Init, outcome, replied
<1>. QED BY <1>1, Inductive, NextIsAbstractNext, PTL
         DEF SafetySpec, ImplementsRequestReply, RR!Spec

=============================================================================
