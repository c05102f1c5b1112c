----------------------------- MODULE StreamReader ------------------------------
(***************************************************************************)
(* Readers over one StreamingDataSource of @streamerson/core.              *)
(*                                                                         *)
(* getReadStream() wraps the generator iterateStream(), which issues one   *)
(* blocking XREAD at a time and yields the entries of the reply.  All      *)
(* readers of a data source share its connection, on which Redis executes  *)
(* one command at a time: the next XREAD waits until the one before it has *)
(* been answered or has timed out.  addStreamId(), removeStreamId() and    *)
(* abort() reach the generators through an event emitter.                  *)
(***************************************************************************)
EXTENDS Integers, FiniteSetsExt, SequencesExt

CONSTANTS
  Streams,     (* Redis stream keys                                        *)
  Readers,     (* the readers getReadStream() may create                   *)
  EntryKinds,  (* what is written: "ok", and "bad" if deserialising throws *)
  MaxBatch,    (* COUNT of a single-stream XREAD                           *)
  MaxEntries,  (* entries per stream: bounds the model                     *)
  MaxChanges,  (* addStreamId, removeStreamId and abort calls: a bound     *)
  MaxLosses    (* lost connections: a bound                                *)

ASSUME StreamsExist == Streams # {}
ASSUME KindsAssumption == EntryKinds \subseteq {"ok", "bad"}
ASSUME BatchAssumption == MaxBatch \in Nat \ {0}
ASSUME BoundsAssumption == {MaxEntries, MaxChanges, MaxLosses} \subseteq Nat

VARIABLES
  entries,   (* the server: the kinds of the entries of each stream        *)
  conn,      (* the server: the XREADs of this connection, oldest first    *)
  streamIds, (* this.streamIdMap: its keys in insertion order              *)
  reader,    (* the generators                                             *)
  seen,      (* history: what each reader has yielded, <<stream, position>> *)
  changes,   (* how many times the streams were changed or abort() called  *)
  losses     (* how many times the connection was lost                     *)

server == <<entries, conn>>
counters == <<changes, losses>>
vars == <<entries, conn, streamIds, reader, seen, changes, losses>>

(* A cursor is a position, or '$': the end of the stream at the time the    *)
(* server executes the XREAD.                                               *)
Latest  == -1
Cursors == {Latest} \cup 0..MaxEntries
Positions == Streams \X (1..MaxEntries)

Stages == {"absent", "created", "deciding", "blocked", "updated", "yielding", "ended", "failed"}

(* stream/single: whether args.stream is set, to which stream; last: the    *)
(* cursor of each stream; fresh: hasNewStreams; batch: events yet to yield. *)
Generator ==
  [stage : Stages, single : BOOLEAN, stream : Streams, active : BOOLEAN,
   fresh : BOOLEAN, last : [Streams -> Cursors], batch : Seq(Positions)]

Generated(s, single, stage) ==
  [stage |-> stage, single |-> single, stream |-> s, active |-> TRUE,
   fresh |-> FALSE, last |-> [k \in Streams |-> Latest], batch |-> <<>>]

Init ==
  /\ entries = [s \in Streams |-> <<>>]
  /\ conn = <<>>
  /\ streamIds = <<>>
  /\ reader = [i \in Readers |-> Generated(CHOOSE s \in Streams : TRUE, FALSE, "absent")]
  /\ seen = [i \in Readers |-> <<>>]
  /\ changes = 0
  /\ losses = 0

-----------------------------------------------------------------------------
(* keyEvents. *)

(* emit(UPDATE): refreshStreams of every generator that has started, and    *)
(* the race of every generator that is blocked.                             *)
Updated(g) ==
  CASE g.stage = "blocked" -> [g EXCEPT !.fresh = TRUE, !.stage = "updated"]
    [] g.stage \in {"deciding", "updated", "yielding"} -> [g EXCEPT !.fresh = TRUE]
    [] OTHER -> g

(* emit(CANCEL): the once-listener of every generator that has started. *)
Cancelled(g) ==
  IF g.stage \in {"deciding", "blocked", "updated", "yielding"}
    THEN [g EXCEPT !.active = FALSE] ELSE g

Change ==
  /\ changes < MaxChanges
  /\ changes' = changes + 1

AddKey(s) ==
  streamIds' = IF Contains(streamIds, s) THEN streamIds ELSE Append(streamIds, s)

AddStreamId(s) ==
  /\ Change
  /\ AddKey(s)
  /\ reader' = [i \in Readers |-> Updated(reader[i])]
  /\ UNCHANGED <<server, seen, losses>>

RemoveStreamId(s) ==
  /\ Change
  /\ streamIds' = RemoveFirst(streamIds, s)
  /\ reader' = [i \in Readers |-> Updated(reader[i])]
  /\ UNCHANGED <<server, seen, losses>>

(* abort(): the connection is never controllable, so nothing is unblocked. *)
Abort ==
  /\ Change
  /\ reader' = [i \in Readers |-> Cancelled(reader[i])]
  /\ UNCHANGED <<server, streamIds, seen, losses>>

(* getReadStream({stream}) or getReadStream({topic}): the key is added at   *)
(* once, the generator runs only when somebody reads from it.               *)
GetReadStream(i, s, single) ==
  /\ reader[i].stage = "absent"
  /\ AddKey(s)
  /\ reader' = [j \in Readers |->
                  IF j = i THEN Generated(s, single, "created") ELSE Updated(reader[j])]
  /\ UNCHANGED <<server, seen, counters>>

-----------------------------------------------------------------------------
(* iterateStream. *)

Start(i) ==
  /\ reader[i].stage = "created"
  /\ reader' = [reader EXCEPT ![i].stage = "deciding"]
  /\ UNCHANGED <<server, streamIds, seen, counters>>

(* The head of the loop: leave, or switch to reading every key of the data  *)
(* source if one was added or removed meanwhile, and issue the next XREAD.  *)
Leave(i) ==
  /\ reader[i].stage = "deciding"
  /\ ~reader[i].active
  /\ reader' = [reader EXCEPT ![i].stage = "ended"]
  /\ UNCHANGED <<server, streamIds, seen, counters>>

Xread(i, g) ==
  [reader |-> i, started |-> FALSE,
   keys |-> IF g.single THEN <<g.stream>> ELSE streamIds,
   from |-> g.last,
   count |-> IF g.single THEN MaxBatch ELSE MaxEntries]

Switched(g) == [g EXCEPT !.single = @ /\ ~g.fresh, !.fresh = FALSE]

IssueXread(i) ==
  LET g == Switched(reader[i])
  IN /\ reader[i].stage = "deciding"
     /\ reader[i].active
     /\ IF ~g.single /\ streamIds = <<>>
          THEN /\ reader' = [reader EXCEPT ![i] = [g EXCEPT !.stage = "failed"]]
               /\ UNCHANGED conn
          ELSE /\ reader' = [reader EXCEPT ![i] = [g EXCEPT !.stage = "blocked"]]
               /\ conn' = Append(conn, Xread(i, g))
     /\ UNCHANGED <<entries, streamIds, seen, counters>>

(* Mutant: the loop goes on with the new set instead of ending. *)
InterruptAndGoOn(i) ==
  /\ reader[i].stage = "updated"
  /\ reader' = [reader EXCEPT ![i].stage = "deciding"]
  /\ UNCHANGED <<server, streamIds, seen, counters>>

(* The race was won by the update: abort(false), then `continue`. *)
Interrupt(i) ==
  /\ reader[i].stage = "updated"
  /\ reader' = [j \in Readers |->
                  IF j = i THEN [Cancelled(reader[i]) EXCEPT !.stage = "deciding"]
                           ELSE Cancelled(reader[j])]
  /\ UNCHANGED <<server, streamIds, seen, counters>>

(* The consumer of the Readable pulls the next event. *)
Yield(i) ==
  /\ reader[i].stage = "yielding"
  /\ seen' = [seen EXCEPT ![i] = Append(@, Head(reader[i].batch))]
  /\ reader' = [reader EXCEPT ![i].batch = Tail(@),
                              ![i].stage = IF Len(reader[i].batch) = 1 THEN "deciding" ELSE @]
  /\ UNCHANGED <<server, streamIds, counters>>

-----------------------------------------------------------------------------
(* The server, and what a reply does to the generator that waits for it. *)

Xadd(s, kind) ==
  /\ Len(entries[s]) < MaxEntries
  /\ entries' = [entries EXCEPT ![s] = Append(@, kind)]
  /\ UNCHANGED <<conn, streamIds, reader, seen, counters>>

(* The XREAD at the head gets its turn: '$' becomes the end of the stream. *)
XreadStarts ==
  /\ conn # <<>>
  /\ ~Head(conn).started
  /\ LET x == Head(conn)
         from == [s \in Streams |-> IF x.from[s] = Latest THEN Len(entries[s]) ELSE x.from[s]]
     IN conn' = [conn EXCEPT ![1] = [x EXCEPT !.started = TRUE, !.from = from]]
  /\ UNCHANGED <<entries, streamIds, reader, seen, counters>>

(* The positions an XREAD returns from one stream, and from all it names. *)
After(x, s) ==
  [n \in 1..Min({x.count, Len(entries[s]) - x.from[s]}) |-> <<s, x.from[s] + n>>]

Reply(x) == FlattenSeq([k \in 1..Len(x.keys) |-> After(x, x.keys[k])])

Malformed(batch) == \E k \in 1..Len(batch) : entries[batch[k][1]][batch[k][2]] = "bad"

(* Mutant: the cursor is that of the first event of the batch. *)
ReceivedFirst(g, batch) ==
  IF Malformed(batch) THEN [g EXCEPT !.stage = "failed"]
  ELSE [g EXCEPT !.stage = "yielding", !.batch = batch,
                 !.last = [@ EXCEPT ![batch[1][1]] = batch[1][2]]]

(* blockingStreamBatchMap returns the events with the position of the last  *)
(* one of each stream, or throws away the whole batch.                      *)
Received(g, batch) ==
  IF Malformed(batch) THEN [g EXCEPT !.stage = "failed"]
  ELSE [g EXCEPT !.stage = "yielding", !.batch = batch,
                 !.last = [s \in Streams |->
                             Max({@[s]} \cup {n \in 1..MaxEntries : Contains(batch, <<s, n>>)})]]

(* A reply nobody waits for any more, to a generator that lost its race to  *)
(* an update, is dropped.                                                   *)
XreadReplies ==
  /\ conn # <<>>
  /\ Head(conn).started
  /\ Reply(Head(conn)) # <<>>
  /\ conn' = Tail(conn)
  /\ LET i == Head(conn).reader
     IN reader' = IF reader[i].stage = "blocked"
                    THEN [reader EXCEPT ![i] = Received(@, Reply(Head(conn)))] ELSE reader
  /\ UNCHANGED <<entries, streamIds, seen, counters>>

(* Mutant: the XREAD blocks for ever (BLOCK 0). *)
XreadBlocksForEver == FALSE /\ UNCHANGED vars

(* The BLOCK timeout: no events, the cursor is what it was. *)
XreadTimesOut ==
  /\ conn # <<>>
  /\ Head(conn).started
  /\ Reply(Head(conn)) = <<>>
  /\ conn' = Tail(conn)
  /\ LET i == Head(conn).reader
     IN reader' = IF reader[i].stage = "blocked"
                    THEN [reader EXCEPT ![i].stage = "deciding"] ELSE reader
  /\ UNCHANGED <<entries, streamIds, seen, counters>>

(* Every command under way is rejected, and blockingStreamBatchMap throws. *)
ConnectionLost ==
  /\ losses < MaxLosses
  /\ losses' = losses + 1
  /\ conn' = <<>>
  /\ reader' = [i \in Readers |->
                  IF reader[i].stage = "blocked"
                    THEN [reader[i] EXCEPT !.stage = "failed"] ELSE reader[i]]
  /\ UNCHANGED <<entries, streamIds, seen, changes>>

-----------------------------------------------------------------------------
Next ==
  \/ \E s \in Streams :
       \/ AddStreamId(s)
       \/ RemoveStreamId(s)
       \/ \E kind \in EntryKinds : Xadd(s, kind)
       \/ \E i \in Readers, single \in BOOLEAN : GetReadStream(i, s, single)
  \/ \E i \in Readers : Start(i) \/ Leave(i) \/ IssueXread(i) \/ Interrupt(i) \/ Yield(i)
  \/ Abort
  \/ XreadStarts
  \/ XreadReplies
  \/ XreadTimesOut
  \/ ConnectionLost

(* The process runs what is ready, its consumer keeps pulling, and Redis    *)
(* executes the commands of a connection and keeps their BLOCK timeouts.    *)
(* Nobody is obliged to write entries or to change the set of streams.      *)
Fairness ==
  /\ \A i \in Readers :
       WF_vars(Start(i)) /\ WF_vars(Leave(i) \/ IssueXread(i) \/ Interrupt(i) \/ Yield(i))
  /\ WF_vars(XreadStarts)
  /\ WF_vars(XreadReplies \/ XreadTimesOut)

Spec == Init /\ [][Next]_vars /\ Fairness

-----------------------------------------------------------------------------
TypeOK ==
  /\ entries \in [Streams -> Seq(EntryKinds)]
  /\ streamIds \in Seq(Streams) /\ IsInjective(streamIds)
  /\ reader \in [Readers -> Generator]
  /\ \A i \in Readers :
       /\ reader[i].stage = "yielding" <=> reader[i].batch # <<>>
       /\ \A s \in Streams : reader[i].last[s] <= Len(entries[s])
  /\ seen \in [Readers -> Seq(Positions)]
  /\ changes \in 0..MaxChanges /\ losses \in 0..MaxLosses

(* Of each stream, one position comes after the other. *)
Consecutive(q) ==
  \A a, b \in 1..Len(q) :
    a < b /\ q[a][1] = q[b][1] /\ (\A c \in (a + 1)..(b - 1) : q[c][1] # q[a][1])
      => q[b][2] = q[a][2] + 1

(* From the first entry a reader yields of a stream on it yields every      *)
(* entry, once and in order, across batches, timeouts, and the switch from  *)
(* one stream to the set: the cursor never skips or repeats.                *)
NoGaps == \A i \in Readers : Consecutive(seen[i])

(* A generator never has two XREADs under way, so the reply that it threw   *)
(* away cannot be taken for the one it waits for.                           *)
OneXreadPerReader ==
  \A j, k \in 1..Len(conn) : conn[j].reader = conn[k].reader => j = k

(* Once a reader has a position in a stream, it yields every later entry,   *)
(* unless the stream is taken away or the reader comes to its end; an XREAD *)
(* of another reader on the same connection can delay it but not starve it. *)
KeepsReading ==
  \A i \in Readers, s \in Streams, n \in 1..MaxEntries :
    (reader[i].last[s] # Latest /\ reader[i].last[s] < n /\ n <= Len(entries[s]))
      ~> \/ Contains(seen[i], <<s, n>>)
         \/ reader[i].stage \in {"ended", "failed"}
         \/ ~Contains(streamIds, s)
=============================================================================
