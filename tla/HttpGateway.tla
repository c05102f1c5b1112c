------------------------------ MODULE HttpGateway ------------------------------
(***************************************************************************)
(* One route of the gateway that CreateGatewayPlugin() of                  *)
(* @streamerson/gateway-fastify makes, and a worker that answers it.       *)
(*                                                                         *)
(* Every route has an awaiter and channels of its own, but all routes, and *)
(* all gateways of a topic, read the same response stream.  Registering a  *)
(* route starts a new reader for each route registered so far, on a        *)
(* channel where the route may have one already: the readers here are      *)
(* those that the first route gets, one by one.                            *)
(* How a call waits for its promise is StreamAwaiter's subject; here a     *)
(* call waits, is answered or times out.                                   *)
(***************************************************************************)
EXTENDS StreamReader, Topics

CONSTANTS
  Routes,       (* routes registered, and so readers that the first gets   *)
  Calls,        (* HTTP requests to the first route                        *)
  messageType,  (* the messageType of the route                            *)
  EventTypes,   (* the sets of types a worker may have handlers for        *)
  topic,        (* options.topic                                           *)
  workerShard,  (* the worker's shard, if it has one                       *)
  MaxForeign    (* responses to calls of other routes and gateways: a bound *)

messageStream == consumerKey(topic, NoShard)
responseStream == producerKey(topic, NoShard)

ASSUME RoutesAssumption == Routes \in Nat \ {0} /\ Readers = 1..Routes
ASSUME StreamsAssumption == Streams = {responseStream}
ASSUME KindAssumption == "ok" \in EntryKinds    (* what workers write *)

VARIABLES
  registered,   (* how many routes the plugin has registered               *)
  call,         (* what has become of each HTTP request                    *)
  requests,     (* the entries of messageStream                            *)
  responses,    (* whom each entry of responseStream answers               *)
  worker,       (* the requests it has taken, its stage and its handlers   *)
  unhandled     (* history: the requests for which it had no handler       *)

gatewayVars == <<registered, call, requests, responses, worker, unhandled>>
gVars == <<vars, gatewayVars>>

Foreign == "foreign"
ASSUME ForeignAssumption == Foreign \notin Calls

GatewayInit ==
  /\ Init
  /\ registered = 0
  /\ call = [c \in Calls |-> "idle"]
  /\ requests = <<>>
  /\ responses = <<>>
  /\ worker \in [taken : {0}, stage : {"reading"}, handles : EventTypes]
  /\ unhandled = {}

-----------------------------------------------------------------------------
(* The plugin. *)

(* Connecting the channels of the next route takes longer than a tick.      *)
Register ==
  /\ registered < Routes
  /\ \A i \in Readers : reader[i].stage \notin {"created", "deciding", "updated"}
  /\ registered' = registered + 1
  /\ GetReadStream(registered + 1, responseStream, TRUE)
  /\ UNCHANGED <<call, requests, responses, worker, unhandled>>

(* Mutant: the generator starts before the one it replaces has been told.   *)
StartAtOnce(i) == Start(i) /\ UNCHANGED gatewayVars

(* on('data') starts the generator on the next tick, after the promises     *)
(* that the registration has settled: the reader it ends has ended by then. *)
Resume(i) ==
  /\ \A j \in Readers : reader[j].stage # "updated"
  /\ Start(i)
  /\ UNCHANGED gatewayVars

ReaderStep(i) == (Leave(i) \/ IssueXread(i) \/ Interrupt(i)) /\ UNCHANGED gatewayVars

(* Mutant: the tracker is not told. *)
HearNothing(i) == Yield(i) /\ UNCHANGED gatewayVars

(* The event goes to the tracker; a response that nobody waits for is kept  *)
(* there for a while, and never given to another call.                      *)
Hear(i) ==
  /\ Yield(i)
  /\ LET c == responses[Head(reader[i].batch)[2]]
     IN call' = IF c \in Calls /\ call[c] = "pending" THEN [call EXCEPT ![c] = "answered"]
                ELSE call
  /\ UNCHANGED <<registered, requests, responses, worker, unhandled>>

(* Mutant: there is no default type. *)
WireTypeUnset(responseType, type) == ""

(* `this.responseType ?? messageType` *)
WireType(responseType, type) == IF responseType = "" THEN type ELSE responseType

(* The handler of the route.  The server listens once it has its routes.    *)
(* Nothing in the repository calls setResponseType().                       *)
Dispatch(c) ==
  /\ registered = Routes
  /\ call[c] = "idle"
  /\ call' = [call EXCEPT ![c] = "pending"]
  /\ requests' = Append(requests, [call |-> c, type |-> WireType("resp", messageType)])
  /\ UNCHANGED <<vars, registered, responses, worker, unhandled>>

(* Mutant: the timer of a call that has been answered fires all the same. *)
TimesOutAnyway(c) ==
  /\ call[c] \in {"pending", "answered"}
  /\ call' = [call EXCEPT ![c] = "failed"]
  /\ UNCHANGED <<vars, registered, requests, responses, worker, unhandled>>

TimesOut(c) ==
  /\ call[c] = "pending"
  /\ call' = [call EXCEPT ![c] = "failed"]
  /\ UNCHANGED <<vars, registered, requests, responses, worker, unhandled>>

-----------------------------------------------------------------------------
(* The worker: a StreamConsumer of the topic. *)

Responds(to) ==
  /\ Xadd(responseStream, "ok")
  /\ responses' = Append(responses, to)

(* What it reads and writes are the gateway's streams, if it has no shard.  *)
Meets ==
  /\ consumerReads(topic, workerShard) = messageStream
  /\ consumerWrites(topic, workerShard) = responseStream

Takes(stage) ==
  /\ worker.stage = "reading" /\ worker.taken < Len(requests) /\ Meets
  /\ worker' = [worker EXCEPT !.taken = @ + 1, !.stage = stage]

NextRequest == requests[worker.taken + 1]

WorkerHandles ==
  /\ Takes("reading")
  /\ NextRequest.type \in worker.handles
  /\ Responds(NextRequest.call)
  /\ UNCHANGED <<registered, call, requests, unhandled>>

(* process() returns an Error, which the write stream drops without calling *)
(* back: the worker writes nothing any more.                                *)
WorkerHasNoHandler ==
  /\ Takes("stuck")
  /\ NextRequest.type \notin worker.handles
  /\ unhandled' = unhandled \cup {NextRequest.call}
  /\ UNCHANGED <<vars, registered, call, requests, responses>>

AnotherIsAnswered ==
  /\ Cardinality({n \in 1..Len(responses) : responses[n] = Foreign}) < MaxForeign
  /\ Responds(Foreign)
  /\ UNCHANGED <<registered, call, requests, worker, unhandled>>

RedisStep == (XreadStarts \/ XreadReplies \/ XreadTimesOut) /\ UNCHANGED gatewayVars

-----------------------------------------------------------------------------
GatewayNext ==
  \/ Register
  \/ \E i \in Readers : Resume(i) \/ ReaderStep(i) \/ Hear(i)
  \/ \E c \in Calls : Dispatch(c) \/ TimesOut(c)
  \/ WorkerHandles \/ WorkerHasNoHandler \/ AnotherIsAnswered
  \/ RedisStep

(* Node runs what is ready; Redis executes commands and keeps their BLOCK   *)
(* timeouts.  No timer of a call has to fire, and no worker to answer.      *)
GatewayFairness ==
  /\ \A i \in Readers : WF_gVars(Resume(i)) /\ WF_gVars(ReaderStep(i) \/ Hear(i))
  /\ WF_gVars(XreadStarts /\ UNCHANGED gatewayVars)
  /\ WF_gVars((XreadReplies \/ XreadTimesOut) /\ UNCHANGED gatewayVars)

GatewaySpec == GatewayInit /\ [][GatewayNext]_gVars /\ GatewayFairness

-----------------------------------------------------------------------------
Request == [call : Calls, type : {"resp", messageType}]

GatewayTypeOK ==
  /\ TypeOK
  /\ registered \in 0..Routes
  /\ call \in [Calls -> {"idle", "pending", "answered", "failed"}]
  /\ requests \in Seq(Request)
  /\ responses \in Seq(Calls \cup {Foreign}) /\ Len(responses) = Len(entries[responseStream])
  /\ worker \in [taken : 0..Len(requests), stage : {"reading", "stuck"}, handles : EventTypes]
  /\ unhandled \subseteq Calls

(* Each registration ends the readers the route had, and only those: the    *)
(* abort meant for them never reaches the reader it has just made, so the   *)
(* route is never left without one.                                         *)
NewestReaderLives ==
  registered > 0 =>
    /\ reader[registered].active
    /\ reader[registered].stage \notin {"ended", "failed"}

(* The newest reader has got a position, or its XREAD is being executed,   *)
(* and a response to c lies beyond it.  A reader without a position has     *)
(* none again between one XREAD from '$' that has timed out and the next:   *)
(* what is written then is not attended.                                    *)
Attended(c) ==
  \E n \in 1..Len(responses) :
    /\ responses[n] = c
    /\ LET g == reader[Routes]
       IN \/ g.last[responseStream] # Latest /\ g.last[responseStream] < n
          \/ /\ conn # <<>> /\ Head(conn).started
             /\ Head(conn).reader = Routes /\ Head(conn).from[responseStream] < n

(* A response that the newest reader attends to reaches its call, among     *)
(* those to other calls and the XREADs that earlier readers left on the     *)
(* connection, unless the call gives up.  (One that is written before the   *)
(* reader's first XREAD is executed, or between two XREADs from '$', is     *)
(* lost.)                                                                   *)
AttendedIsAnswered ==
  \A c \in Calls : call[c] = "pending" /\ Attended(c) ~> call[c] # "pending"

replied == {c \in Calls : Contains(responses, c)}

(* With readers that come and go, the gateway still implements request and  *)
(* reply: one outcome for a call, final, and an answer only to what was     *)
(* written in response to it.                                               *)
RR == INSTANCE RequestReply WITH Requests <- Calls, outcome <- call

ImplementsRequestReply == RR!Spec

(* "The listeners on that stream decode the request, trigger an event": a   *)
(* worker with a handler for the route's type handles what the route sends. *)
(* The code does not have this.                                             *)
RequestsTriggerTheirEvent == messageType \in worker.handles => unhandled = {}
=============================================================================
