----------------------------- MODULE StreamConsumer ----------------------------
(***************************************************************************)
(* A StreamConsumer (@streamerson/consumer), and the pipeline it makes in  *)
(* connectAndListen(): the read stream of the incoming channel is piped    *)
(* into a Transform that runs the handler of each message, and that into   *)
(* the write stream of the outgoing channel, which XADDs each response.    *)
(*                                                                         *)
(*   incomingStream --> Transform (input | output) --> outgoingStream      *)
(*                                                                         *)
(* Messages are named by their position on the incoming stream.  The read  *)
(* stream hands them over in order (see StreamReader).                     *)
(*                                                                         *)
(* External, modelled as the code uses it: the object-mode streams of      *)
(* Node.  write() asks its caller to pause once highWaterMark chunks are   *)
(* unfinished; a paused pipe resumes on 'drain', when none is left; a      *)
(* Transform withholds its write callback while its readable side is full. *)
(***************************************************************************)
EXTENDS Naturals, SequencesExt

CONSTANTS
  Types,         (* message types                                          *)
  Handled,       (* types with a handler from the eventMap option          *)
  Outcomes,      (* what handlers do: a subset of the three below          *)
  Modes,         (* what the bidirectional option may be                   *)
  HighWaterMark, (* of both sides of the Transform and of the write stream *)
  MaxMessages,   (* messages on the incoming stream: bounds the model      *)
  MaxSwitches    (* changes of the handlers and of the outgoing channel    *)

ASSUME TypesAssumption == Handled \subseteq Types
ASSUME OutcomesAssumption == Outcomes \subseteq {"value", "void", "throw"}
ASSUME ModesAssumption == Modes \subseteq BOOLEAN
ASSUME BoundsAssumption ==
  HighWaterMark \in Nat \ {0} /\ {MaxMessages, MaxSwitches} \subseteq Nat

VARIABLES
  listening,    (* whether connectAndListen() has been called              *)
  piped,        (* whether the Transform is piped into outgoingStream      *)
  outgoingChannel, (* this.outgoingChannel: the one it was built with, one *)
                (* that was set later, or None                             *)
  outgoingStream,  (* the channel that the write stream writes on, or None *)
  connected,    (* the channels that have a client                         *)
  limit,        (* how far the incoming channel can read                   *)
  arrived,      (* how many messages the incoming stream holds             *)
  streamEvents, (* this.streamEvents: the types that have a handler        *)
  switches,     (* how often that changed                                  *)
  taken,        (* incomingStream: how many its generator has yielded      *)
  readBuffer,   (* incomingStream: what it has read ahead while paused     *)
  readPaused,   (* whether the Transform asked incomingStream to pause     *)
  input,        (* the Transform: chunks written to it and not called back *)
  stage,        (* the Transform: what has become of the first of these    *)
  result,       (* what process() made of each message                     *)
  output,       (* the Transform: pushed and not read                      *)
  outputPaused, (* whether outgoingStream asked the Transform to pause     *)
  writes,       (* outgoingStream: chunks written to it and not called back *)
  written,      (* the responses that XADD has put on the outgoing stream  *)
  crashed       (* whether the process has ended                           *)

channels == <<listening, piped, outgoingChannel, outgoingStream, connected, limit>>
handling == <<streamEvents, switches>>
vars == <<channels, arrived, streamEvents, switches, taken, readBuffer, readPaused, input, stage,
          result, output, outputPaused, writes, written, crashed>>

Results == {"none", "response", "nothing", "error"}
TransformStages == {"idle", "handling", "refusing", "held", "stuck"}

None == "none"
Outgoing == {"built", "set"}
Channels == {"incoming"} \cup Outgoing

(* The chunks the Transform has not pushed yet. *)
InTransform == IF stage = "held" THEN Tail(input) ELSE input

Init ==
  /\ listening = FALSE /\ piped = FALSE
  /\ outgoingChannel \in {IF bidirectional THEN "built" ELSE None : bidirectional \in Modes}
  /\ outgoingStream = outgoingChannel
  /\ connected = {}
  /\ limit = MaxMessages
  /\ arrived = 0
  /\ streamEvents = Handled
  /\ switches = 0
  /\ taken = 0
  /\ readBuffer = <<>>
  /\ readPaused = FALSE
  /\ input = <<>>
  /\ stage = "idle"
  /\ result = [m \in 1..MaxMessages |-> "none"]
  /\ output = <<>>
  /\ outputPaused = FALSE
  /\ writes = <<>>
  /\ written = <<>>
  /\ crashed = FALSE

-----------------------------------------------------------------------------
(* A read stream starts from '$': what came before is not for it. *)
Arrive ==
  /\ "incoming" \in connected
  /\ arrived < MaxMessages
  /\ arrived' = arrived + 1
  /\ UNCHANGED <<channels, handling, taken, readBuffer, readPaused, input, stage, result,
                 output, outputPaused, writes, written, crashed>>

Switch(types) ==
  /\ ~crashed
  /\ switches < MaxSwitches
  /\ switches' = switches + 1
  /\ streamEvents' = types
  /\ UNCHANGED <<arrived, taken, readBuffer, readPaused, input, stage, result,
                 output, outputPaused, writes, written, crashed>>

RegisterStreamEvent(type) == Switch(streamEvents \cup {type}) /\ UNCHANGED channels
DeregisterStreamEvent(type) == Switch(streamEvents \ {type}) /\ UNCHANGED channels

(* Another channel, or a new one for null, and bindStreamEvents() once      *)
(* more: what the eventMap has is registered again, and a write stream is   *)
(* made only if there is none.  Nothing is connected or piped.              *)
SetOutgoingChannel ==
  /\ Switch(streamEvents \cup Handled)
  /\ outgoingChannel' = "set"
  /\ outgoingStream' = IF outgoingStream = None THEN "set" ELSE outgoingStream
  /\ UNCHANGED <<listening, piped, connected, limit>>

pipeline == <<arrived, handling, taken, readBuffer, readPaused, input, stage, result, output,
              outputPaused, writes, written>>

ConnectAndListen ==
  /\ ~listening /\ ~crashed
  /\ listening' = TRUE
  /\ connected' = {"incoming", outgoingChannel} \cap Channels
  /\ piped' = (outgoingStream # None)
  /\ UNCHANGED <<outgoingChannel, outgoingStream, limit, pipeline, crashed>>

(* disconnect() takes the clients of both channels away and awaits nothing: *)
(* a channel that has none rejects a promise that nobody handles, and the   *)
(* process ends.  The generator hands over the rest of its batch, then its  *)
(* next XREAD throws.                                                       *)
Disconnect ==
  /\ ~crashed
  /\ connected' = connected \ {"incoming", outgoingChannel}
  /\ IF "incoming" \in connected THEN limit' \in taken..arrived ELSE UNCHANGED limit
  /\ crashed' = ~({"incoming", outgoingChannel} \ {None} \subseteq connected)
  /\ UNCHANGED <<listening, piped, outgoingChannel, outgoingStream, pipeline>>

(* Mutant: nobody looks at what write() returns. *)
TakeAnyway ==
  /\ listening /\ ~crashed
  /\ taken < arrived /\ taken < limit
  /\ taken' = taken + 1
  /\ input' = Append(input, taken')
  /\ UNCHANGED <<channels, arrived, handling, readBuffer, readPaused, stage, result, output,
                 outputPaused, writes, written, crashed>>

(* The next message leaves the generator: straight into the Transform, or   *)
(* into the buffer of one that Readable.from() fills while paused.          *)
Take ==
  /\ listening /\ ~crashed
  /\ taken < arrived /\ taken < limit
  /\ taken' = taken + 1
  /\ IF readPaused
       THEN /\ readBuffer = <<>>
            /\ readBuffer' = <<taken'>>
            /\ UNCHANGED <<input, readPaused>>
       ELSE /\ input' = Append(input, taken')
            /\ readPaused' = (Len(input) + 1 >= HighWaterMark)
            /\ UNCHANGED readBuffer
  /\ UNCHANGED <<channels, arrived, handling, stage, result, output, outputPaused,
                 writes, written, crashed>>

(* process() looks the handler of the message up, whatever its type is, and *)
(* calls it.                                                                *)
Process(type) ==
  /\ ~crashed
  /\ stage = "idle"
  /\ input # <<>>
  /\ stage' = IF type \in streamEvents THEN "handling" ELSE "refusing"
  /\ UNCHANGED <<channels, arrived, handling, taken, readBuffer, readPaused, input, result,
                 output, outputPaused, writes, written, crashed>>

(* Mutant: what was read ahead is lost when the pipe resumes. *)
CallBackForgetting ==
  /\ stage' = "idle"
  /\ input' = Tail(input)
  /\ readBuffer' = IF Len(input) = 1 THEN <<>> ELSE readBuffer
  /\ readPaused' = (readPaused /\ Len(input) > 1)

(* The write callback of the Transform: on to the next chunk, and 'drain'   *)
(* when there is none.                                                      *)
CallBack ==
  /\ stage' = "idle"
  /\ IF Len(input) = 1 /\ readPaused
       THEN /\ input' = readBuffer
            /\ readBuffer' = <<>>
            /\ readPaused' = (Len(readBuffer) >= HighWaterMark)
       ELSE /\ input' = Tail(input)
            /\ UNCHANGED <<readBuffer, readPaused>>

(* this.push(message), then callback().  A chunk goes straight to the       *)
(* outgoing stream while that does not ask to pause, and is buffered else.  *)
PushAndCallBack ==
  LET m == Head(input)
  IN IF piped /\ ~outputPaused
       THEN /\ writes' = Append(writes, m)
            /\ outputPaused' = (Len(writes) + 1 >= HighWaterMark)
            /\ UNCHANGED output
            /\ CallBack
       ELSE /\ output' = Append(output, m)
            /\ UNCHANGED <<writes, outputPaused>>
            /\ IF Len(output) + 1 < HighWaterMark
                 THEN CallBack
                 ELSE stage' = "held" /\ UNCHANGED <<input, readBuffer, readPaused>>

(* The handler resolves.  Whatever it returns becomes the payload. *)
HandlerReturns(outcome) ==
  /\ ~crashed
  /\ stage = "handling"
  /\ outcome \in Outcomes \ {"throw"}
  /\ result' = [result EXCEPT ![Head(input)] =
                  IF outcome = "value" THEN "response" ELSE "nothing"]
  /\ PushAndCallBack
  /\ UNCHANGED <<channels, arrived, handling, taken, written, crashed>>

(* Mutant: the callback of a message without a handler is called at once,   *)
(* and again when its Error has been pushed.                                *)
NoHandlerCallsBackTwice ==
  /\ ~crashed
  /\ stage = "refusing"
  /\ result' = [result EXCEPT ![Head(input)] = "error"]
  /\ input' = Tail(input)
  /\ UNCHANGED <<channels, arrived, handling, taken, readBuffer, readPaused, stage, output,
                 outputPaused, writes, written, crashed>>

(* No handler: process() resolves with an Error, which is pushed as well. *)
NoHandler ==
  /\ ~crashed
  /\ stage = "refusing"
  /\ result' = [result EXCEPT ![Head(input)] = "error"]
  /\ PushAndCallBack
  /\ UNCHANGED <<channels, arrived, handling, taken, written, crashed>>

(* The handler rejects: that is logged, and callback() is never called. *)
HandlerThrows ==
  /\ ~crashed
  /\ stage = "handling"
  /\ "throw" \in Outcomes
  /\ stage' = "stuck"
  /\ UNCHANGED <<channels, arrived, handling, taken, readBuffer, readPaused, input, result,
                 output, outputPaused, writes, written, crashed>>

(* Mutant: the last write does not resume the Transform. *)
XaddReturnsWithoutDrain ==
  /\ ~crashed
  /\ writes # <<>> /\ outgoingStream \in connected
  /\ result[Head(writes)] = "response"
  /\ written' = Append(written, Head(writes))
  /\ writes' = Tail(writes)
  /\ UNCHANGED <<channels, arrived, handling, taken, readBuffer, readPaused, input, stage, result,
                 output, outputPaused, crashed>>

(* XADD of the first chunk returns and its callback is called; on 'drain'   *)
(* the Transform hands over what it has buffered, and reading from it       *)
(* releases a callback it withheld.  A chunk without a messageId or payload *)
(* (an Error, a handler's undefined) is dropped without calling back: it    *)
(* stays at the head for good.                                              *)
XaddReturns ==
  /\ ~crashed
  /\ writes # <<>> /\ outgoingStream \in connected
  /\ result[Head(writes)] = "response"
  /\ written' = Append(written, Head(writes))
  /\ LET n == IF Len(output) < HighWaterMark THEN Len(output) ELSE HighWaterMark
     IN IF Len(writes) = 1 /\ outputPaused
          THEN /\ writes' = SubSeq(output, 1, n)
               /\ output' = SubSeq(output, n + 1, Len(output))
               /\ outputPaused' = (n >= HighWaterMark)
               /\ IF stage = "held" THEN CallBack
                                    ELSE UNCHANGED <<stage, input, readBuffer, readPaused>>
          ELSE /\ writes' = Tail(writes)
               /\ UNCHANGED <<output, outputPaused, stage, input, readBuffer, readPaused>>
  /\ UNCHANGED <<channels, arrived, handling, taken, result, crashed>>

(* write() of the write stream is an async function: its rejection has no   *)
(* handler, and an unhandled rejection ends the process.                    *)
XaddFails ==
  /\ ~crashed
  /\ writes # <<>>
  /\ result[Head(writes)] = "response"
  /\ crashed' = TRUE
  /\ UNCHANGED <<channels, pipeline>>

Next ==
  \/ Arrive
  \/ SetOutgoingChannel \/ ConnectAndListen \/ Disconnect
  \/ Take
  \/ \E type \in Types :
       RegisterStreamEvent(type) \/ DeregisterStreamEvent(type) \/ Process(type)
  \/ \E outcome \in Outcomes : HandlerReturns(outcome)
  \/ NoHandler
  \/ HandlerThrows
  \/ XaddReturns
  \/ XaddFails

(* Node runs what is ready, handlers settle, and Redis answers an XADD.     *)
(* The application listens; it need not disconnect.                         *)
Fairness ==
  /\ WF_vars(ConnectAndListen)
  /\ WF_vars(Take)
  /\ WF_vars((\E type \in Types : Process(type)) \/ NoHandler \/ HandlerThrows
                \/ \E outcome \in Outcomes : HandlerReturns(outcome))
  /\ WF_vars(XaddReturns \/ XaddFails)

Spec == Init /\ [][Next]_vars /\ Fairness

-----------------------------------------------------------------------------
Chunks == 1..MaxMessages

TypeOK ==
  /\ arrived \in 0..MaxMessages
  /\ streamEvents \subseteq Types
  /\ taken \in 0..arrived
  /\ switches \in 0..MaxSwitches
  /\ {listening, piped, readPaused, outputPaused, crashed} \subseteq BOOLEAN
  /\ {outgoingChannel, outgoingStream} \subseteq Outgoing \cup {None}
  /\ connected \subseteq Channels /\ limit \in taken..MaxMessages
  /\ \A q \in {readBuffer, input, output, writes, written} : q \in Seq(Chunks)
  /\ stage \in TransformStages
  /\ stage # "idle" => input # <<>>
  /\ result \in [Chunks -> Results]

(* Every message taken from the stream is at exactly one place of the       *)
(* pipeline, in the order of arrival: no pause, drain or withheld callback  *)
(* loses, repeats or overtakes one, and responses leave in that order.      *)
NothingLostOrReordered ==
  written \o writes \o output \o InTransform \o readBuffer = [k \in 1..taken |-> k]

(* A consumer that falls behind holds a bounded number of messages, however *)
(* many arrive: every stage pushes back on the one before.                  *)
PushesBack ==
  /\ Len(readBuffer) <= 1
  /\ \A q \in {input, output, writes} : Len(q) <= HighWaterMark

(* A withheld callback or a pause always has something ahead of it that     *)
(* will end it: stages never wait for each other in a circle.               *)
PausedForAReason ==
  /\ readPaused => input # <<>>
  /\ outputPaused => writes # <<>>
  /\ stage = "held" => Len(output) = HighWaterMark
  /\ piped /\ output # <<>> => outputPaused

(* Every message is answered in the end, unless it or one before it has no  *)
(* handler, a handler that returns nothing or throws, the consumer has been *)
(* disconnected before it was read, or the process ends.  Without a stream  *)
(* to pipe into, the messages that the Transform can buffer are handled     *)
(* (and no others).                                                         *)
EveryMessageAnswered ==
  \A m \in Chunks :
    (m <= arrived) ~>
      \/ Contains(written, m)
      \/ crashed
      \/ m > limit
      \/ ~piped /\ (result[m] # "none" \/ m > HighWaterMark)
      \/ \E k \in 1..m : result[k] \in {"nothing", "error"}
      \/ stage = "stuck"
=============================================================================
