------------------------------ MODULE WssGateway -------------------------------
(***************************************************************************)
(* WebSocketServer.streamRoute() of @streamerson/gateway-wss.              *)
(*                                                                         *)
(* A route writes the messages of its sockets to its topic through a       *)
(* Writable and reads, on the same connection, the stream it writes to:    *)
(* both ends of the route use the topic's consumerKey.  An XADD waits      *)
(* behind the blocking XREAD.  The routes of a server share `drained`, the *)
(* promise that holds back messages while some route's Writable is full.   *)
(***************************************************************************)
EXTENDS Integers, FiniteSets, SequencesExt

CONSTANTS
  Routes,         (* the routes of a server, each with a topic of its own  *)
  HighWaterMark,  (* of a route's Writable                                 *)
  MaxMessages,    (* messages from sockets: a bound                        *)
  MaxFalsy,       (* those among them that are 0, false or '': a bound     *)
  MaxForeign,     (* entries that other producers write: a bound           *)
  MaxFailures     (* failing XADDs: a bound                                *)

ASSUME RoutesAssumption == "none" \notin Routes
ASSUME MarkAssumption == HighWaterMark \in Nat \ {0}
ASSUME BoundsAssumption == {MaxMessages, MaxFalsy, MaxForeign, MaxFailures} \subseteq Nat

VARIABLES
  onMessage,  (* whether the route has an onMessage, which is awaited      *)
  falsy,      (* the messages whose payload is 0, false or '' when parsed  *)
  subscribed, (* routes whose socket is subscribed to its token            *)
  arrived,    (* the messages of each route, in order of arrival           *)
  handling,   (* messages whose onMessage has not returned                 *)
  parked,     (* messages that await `drained`, oldest first               *)
  drained,    (* this.drained: the route whose Writable it waits for       *)
  buffer,     (* each Writable: the message under way and those behind it  *)
  needDrain,  (* each Writable: it has refused, and owes a 'drain'         *)
  conn,       (* the commands on each connection, oldest first             *)
  entries,    (* the stream of each route                                  *)
  cursor,     (* how far a route has read, Latest before its first entry   *)
  sent,       (* history: the messages published to the token of each route *)
  failures

server == <<conn, entries>>
vars == <<onMessage, falsy, subscribed, arrived, handling, parked, drained, buffer, needDrain,
          conn, entries, cursor, sent, failures>>

None == "none"
Foreign == 0
Latest == -1

(* Messages are numbered in the order of their arrival.                     *)
Messages == UNION {ToSet(arrived[r]) : r \in Routes}
Total == Cardinality(Messages)
RouteOf(m) == CHOOSE r \in Routes : Contains(arrived[r], m)

(* An XADD that fails rejects the promise of an async write(), which nobody *)
(* handles.                                                                 *)
Crashed == failures > 0

Init ==
  /\ onMessage \in BOOLEAN
  /\ falsy \in SUBSET (1..MaxMessages) /\ Cardinality(falsy) <= MaxFalsy
  /\ subscribed = {}
  /\ arrived = [r \in Routes |-> <<>>]
  /\ handling = {}
  /\ parked = <<>>
  /\ drained = None
  /\ buffer = [r \in Routes |-> <<>>]
  /\ needDrain = [r \in Routes |-> FALSE]
  /\ conn = [r \in Routes |-> <<>>]
  /\ entries = [r \in Routes |-> <<>>]
  /\ cursor = [r \in Routes |-> Latest]
  /\ sent = [r \in Routes |-> <<>>]
  /\ failures = 0

Xread == [op |-> "xread", m |-> Foreign, from |-> Latest, started |-> FALSE]
Xadd(m) == [Xread EXCEPT !.op = "xadd", !.m = m]

-----------------------------------------------------------------------------
(* Writables.  The state of all of them, and of what holds messages back,   *)
(* is a record while several messages are written in a row.                 *)

Gate == [drained |-> drained, buffer |-> buffer, needDrain |-> needDrain, conn |-> conn]

(* The write() given to the Writable: an XADD; or, for a chunk with a falsy *)
(* payload, nothing, and no call back, so that the Writable never takes     *)
(* another.                                                                 *)
Started(c, m) == IF m \in falsy THEN c ELSE Append(c, Xadd(m))

(* outgoingStream.write(): started at once if nothing is under way, and false  *)
(* if the buffer is full; then `drained` is armed, unless it is already.    *)
Write(g, r, m) ==
  LET full == Len(g.buffer[r]) + 1 >= HighWaterMark
  IN [g EXCEPT !.drained = IF @ = None /\ full THEN r ELSE @,
               !.buffer[r] = Append(@, m),
               !.needDrain[r] = @ \/ full,
               !.conn[r] = IF g.buffer[r] = <<>> THEN Started(@, m) ELSE @]

Set(g) ==
  /\ drained' = g.drained /\ buffer' = g.buffer
  /\ needDrain' = g.needDrain /\ conn' = g.conn

(* `await this.drained`, then write: what was parked when the promise       *)
(* resolves is written in a row, whether or not it fills the buffer again.  *)
AwaitDrained(r, m) ==
  IF drained = None
    THEN Set(Write(Gate, r, m)) /\ UNCHANGED parked
    ELSE parked' = Append(parked, m) /\ UNCHANGED <<drained, buffer, needDrain, conn>>

WriteAll(g, q) ==
  LET w[i \in 0..Len(q)] == IF i = 0 THEN g ELSE Write(w[i - 1], RouteOf(q[i]), q[i])
  IN w[Len(q)]

-----------------------------------------------------------------------------
(* A socket of route r sends a message that JSON.parse() takes; the first   *)
(* one it sends subscribes it to its token, and its closing ends that.      *)
Message(r) ==
  /\ ~Crashed /\ Total < MaxMessages
  /\ subscribed' = subscribed \cup {r}
  /\ LET m == Total + 1
     IN /\ arrived' = [arrived EXCEPT ![r] = Append(@, m)]
        /\ IF onMessage
             THEN /\ handling' = handling \cup {m}
                  /\ UNCHANGED <<parked, drained, buffer, needDrain, conn>>
             ELSE AwaitDrained(r, m) /\ UNCHANGED handling
  /\ UNCHANGED <<onMessage, falsy, entries, cursor, sent, failures>>

OnMessageReturns(m) ==
  /\ ~Crashed /\ m \in handling
  /\ handling' = handling \ {m}
  /\ AwaitDrained(RouteOf(m), m)
  /\ UNCHANGED <<onMessage, falsy, subscribed, arrived, entries, cursor, sent, failures>>

Close(r) ==
  /\ ~Crashed /\ r \in subscribed
  /\ subscribed' = subscribed \ {r}
  /\ UNCHANGED <<onMessage, falsy, arrived, handling, parked, drained, buffer, needDrain,
                 server, cursor, sent, failures>>

(* The read stream's generator issues its next XREAD. *)
IssueXread(r) ==
  /\ ~Crashed
  /\ \A k \in 1..Len(conn[r]) : conn[r][k].op # "xread"
  /\ conn' = [conn EXCEPT ![r] = Append(@, Xread)]
  /\ UNCHANGED <<onMessage, falsy, subscribed, arrived, handling, parked, drained, buffer, needDrain,
                 entries, cursor, sent, failures>>

-----------------------------------------------------------------------------
(* Redis executes the command at the head of each connection. *)

Executes(r, op) == ~Crashed /\ conn[r] # <<>> /\ Head(conn[r]).op = op

Called(g, r) ==
  LET rest == Tail(g.buffer[r])
  IN [g EXCEPT !.buffer[r] = rest,
               !.conn[r] = IF rest = <<>> THEN Tail(@) ELSE Started(Tail(@), Head(rest))]

Drains(g, r) == Len(g.buffer[r]) = 1 /\ g.needDrain[r]

(* Mutant: 'drain' resolves the promise and leaves it in place. *)
CallBackStillDrained(g, r) ==
  IF Drains(g, r) THEN [Called(g, r) EXCEPT !.needDrain[r] = FALSE] ELSE Called(g, r)

(* The callback of a write: on to the next one, or 'drain'. *)
CallBack(g, r) ==
  IF Drains(g, r)
    THEN [Called(g, r) EXCEPT !.needDrain[r] = FALSE, !.drained = IF @ = r THEN None ELSE @]
    ELSE Called(g, r)

XaddReplies(r) ==
  /\ Executes(r, "xadd")
  /\ entries' = [entries EXCEPT ![r] = Append(@, Head(conn[r]).m)]
  /\ LET g == CallBack(Gate, r)
         resolved == drained = r /\ g.drained = None
     IN /\ Set(IF resolved THEN WriteAll(g, parked) ELSE g)
        /\ parked' = IF resolved THEN <<>> ELSE parked
  /\ UNCHANGED <<onMessage, falsy, subscribed, arrived, handling, cursor, sent, failures>>

XaddFails(r) ==
  /\ Executes(r, "xadd") /\ failures < MaxFailures
  /\ failures' = failures + 1
  /\ UNCHANGED <<onMessage, falsy, subscribed, arrived, handling, parked, drained, buffer, needDrain,
                 server, cursor, sent>>

(* '$' is the end of the stream when the XREAD is executed, which may be    *)
(* after the XADDs that waited with it.                                     *)
XreadStarts(r) ==
  /\ Executes(r, "xread") /\ ~Head(conn[r]).started
  /\ conn' = [conn EXCEPT ![r][1] =
                [@ EXCEPT !.started = TRUE,
                          !.from = IF cursor[r] = Latest THEN Len(entries[r]) ELSE cursor[r]]]
  /\ UNCHANGED <<onMessage, falsy, subscribed, arrived, handling, parked, drained, buffer, needDrain,
                 entries, cursor, sent, failures>>

Unread(r) == SubSeq(entries[r], Head(conn[r]).from + 1, Len(entries[r]))

(* Each event goes to those who subscribe to its messageSourceId, if any.   *)
Heard(batch) ==
  LET h[i \in 0..Len(batch)] ==
        CASE i = 0 -> <<>>
          [] i > 0 /\ batch[i] = Foreign -> h[i - 1]
          [] OTHER -> Append(h[i - 1], batch[i])
  IN h[Len(batch)]

(* Mutant: the events of a batch are published last first. *)
PublishReversed(r, batch) ==
  sent' = [sent EXCEPT ![r] = IF r \in subscribed THEN @ \o Heard(Reverse(batch)) ELSE @]

Publish(r, batch) ==
  sent' = [sent EXCEPT ![r] = IF r \in subscribed THEN @ \o Heard(batch) ELSE @]

XreadReplies(r) ==
  /\ Executes(r, "xread") /\ Head(conn[r]).started /\ Unread(r) # <<>>
  /\ cursor' = [cursor EXCEPT ![r] = Len(entries[r])]
  /\ Publish(r, Unread(r))
  /\ conn' = [conn EXCEPT ![r] = Tail(@)]
  /\ UNCHANGED <<onMessage, falsy, subscribed, arrived, handling, parked, drained, buffer, needDrain,
                 entries, failures>>

(* Mutant: an XREAD without a timeout. *)
XreadBlocksForEver(r) ==
  /\ Executes(r, "xread") /\ Head(conn[r]).started /\ Unread(r) = <<>>
  /\ UNCHANGED vars

XreadTimesOut(r) ==
  /\ Executes(r, "xread") /\ Head(conn[r]).started /\ Unread(r) = <<>>
  /\ conn' = [conn EXCEPT ![r] = Tail(@)]
  /\ UNCHANGED <<onMessage, falsy, subscribed, arrived, handling, parked, drained, buffer, needDrain,
                 entries, cursor, sent, failures>>

WrittenByOthers ==
  UNION {{<<q, i>> : i \in {i \in 1..Len(entries[q]) : entries[q][i] = Foreign}} : q \in Routes}

AnotherWrites(r) ==
  /\ ~Crashed
  /\ Cardinality(WrittenByOthers) < MaxForeign
  /\ entries' = [entries EXCEPT ![r] = Append(@, Foreign)]
  /\ UNCHANGED <<onMessage, falsy, subscribed, arrived, handling, parked, drained, buffer, needDrain,
                 conn, cursor, sent, failures>>

-----------------------------------------------------------------------------
Next ==
  \/ \E r \in Routes :
       \/ Message(r) \/ Close(r) \/ IssueXread(r)
       \/ XaddReplies(r) \/ XaddFails(r)
       \/ XreadStarts(r) \/ XreadReplies(r) \/ XreadTimesOut(r)
       \/ AnotherWrites(r)
  \/ \E m \in handling : OnMessageReturns(m)

(* onMessage returns, the generator keeps reading, and Redis executes what  *)
(* it is sent and keeps the BLOCK timeouts.  Nobody else has to write.      *)
Fairness ==
  /\ \A r \in Routes :
       /\ WF_vars(IssueXread(r))
       /\ WF_vars(\/ XaddReplies(r) \/ XaddFails(r)
                  \/ XreadStarts(r) \/ XreadReplies(r) \/ XreadTimesOut(r))
  /\ WF_vars(\E m \in handling : OnMessageReturns(m))

Spec == Init /\ [][Next]_vars /\ Fairness

-----------------------------------------------------------------------------
(* Whatever waits on `drained` waits for a Writable that owes a 'drain': it *)
(* has refused a message, and still has one under way.  The promise of a    *)
(* route that has drained is never left behind, nor one armed by another    *)
(* route overwritten with messages waiting on it.  (A 'drain' that is owed  *)
(* comes unless a chunk with a falsy payload has stopped the Writable.)     *)
DrainIsOwed ==
  /\ drained # None => needDrain[drained] /\ buffer[drained] # <<>>
  /\ parked # <<>> => drained # None

(* The elements of S in q are in the order of their arrival, none twice.    *)
Ascending(q, S) ==
  \A i, j \in 1..Len(q) : i < j /\ q[i] \in S /\ q[j] \in S => q[i] < q[j]

(* Without an onMessage the messages of a route are written, and echoed to  *)
(* its socket, in the order of their arrival, each of them once, though     *)
(* some were held back for another route's sake and some were not.          *)
InOrder ==
  onMessage \/
    \A r \in Routes :
      LET own == ToSet(arrived[r])
          written == entries[r] \o buffer[r]
      IN /\ Ascending(written \o parked, own) /\ own \subseteq ToSet(written \o parked)
         /\ ToSet(written) \subseteq own \cup {Foreign}
         /\ Ascending(sent[r], own) /\ ToSet(sent[r]) \subseteq own

(* A chunk that is dropped without a call back stops the route's Writable.  *)
Stopped(r) == buffer[r] # <<>> /\ Head(buffer[r]) \in falsy

(* Every message is written in the end, each behind an XREAD that has to    *)
(* return first, unless the process ends, or a chunk with a falsy payload   *)
(* has stopped the Writable that holds it or the one that it is held back   *)
(* for.                                                                     *)
EveryMessageWritten ==
  []<>(\/ Crashed
       \/ \A r \in Routes : \A m \in ToSet(arrived[r]) :
            \/ Contains(entries[r], m)
            \/ Contains(buffer[r], m) /\ Stopped(r)
            \/ Contains(parked, m) /\ drained # None /\ Stopped(drained))
=============================================================================
