----------------------------- MODULE ConsumerGroup -----------------------------
(***************************************************************************)
(* A Redis consumer group and its members (@streamerson/consumer-group).   *)
(*                                                                         *)
(* A ConsumerGroupMember is a StreamConsumer that reads with XREADGROUP    *)
(* and whose process() acknowledges each message once it has a result.     *)
(* XREADGROUP and XACK share the connection of its incoming channel, where *)
(* Redis executes one command at a time; responses travel on another one.  *)
(*                                                                         *)
(* Entries are named by their position on the stream.  StreamConsumer has  *)
(* the buffers of the pipeline in detail; here each member has the batch   *)
(* its generator yields from, the input of its Transform, and an outbox.   *)
(* The outbox does not push back: it never holds highWaterMark chunks.     *)
(*                                                                         *)
(* Redis executes an XREADGROUP at one moment and the member has the reply *)
(* at a later one; the process or the connection may be gone in between.   *)
(* ioredis then sends again what has no reply, '>' like the first time.    *)
(***************************************************************************)
EXTENDS Integers, SequencesExt

CONSTANTS
  Members,       (* group member ids, each used by one process at a time   *)
  None,          (* no member                                              *)
  Configs,       (* whether options carry a consumerGroupInstanceConfig    *)
  Outcomes,      (* what handlers do: a subset of {"value", "void", "throw"} *)
  HighWaterMark, (* of the Transform                                       *)
  MaxEntries,    (* entries on the stream: bounds the model                *)
  MaxCrashes,    (* processes that end: bounds the model                   *)
  MaxLosses      (* replies lost with a connection: bounds the model       *)

ASSUME MembersAssumption == None \notin Members
ASSUME ChoicesAssumption ==
  Configs \subseteq BOOLEAN /\ Outcomes \subseteq {"value", "void", "throw"}
ASSUME BoundsAssumption ==
  HighWaterMark \in Nat \ {0} /\ MaxEntries \in Nat
  /\ MaxCrashes \in Nat /\ MaxLosses \in Nat

VARIABLES
  entries,   (* the server: how many entries the stream has                *)
  delivered, (* the server: last-delivered-id of the group, or Absent      *)
  pending,   (* the server: the member each entry is pending for           *)
  acked,     (* the server: the entries acknowledged                       *)
  conn,      (* the server: the commands of each member's incoming channel *)
  member,    (* the processes                                              *)
  handled,   (* history: how often the handler of each entry was called    *)
  result,    (* history: what process() made of each entry                 *)
  answered,  (* the entries whose response is on the outgoing stream       *)
  orphaned,  (* history: entries pending for a process that ended          *)
  lost,      (* history: entries of a reply that a living process lost     *)
  crashes,   (* how many processes have ended                              *)
  losses     (* how many replies were lost                                 *)

server == <<entries, delivered, pending, acked>>
history == <<handled, result, answered, orphaned, lost, crashes, losses>>
vars == <<entries, delivered, pending, acked, conn, member,
          handled, result, answered, orphaned, lost, crashes, losses>>

Positions == 1..MaxEntries
Absent == -1

(* A command is an XREADGROUP, or the XACK of an entry. *)
Xreadgroup == 0

(* running: whether the generator reads; stage: what the Transform is at;   *)
(* batch: what the last XREADGROUP was answered with, which is on its way   *)
(* until it has arrived, and then what of it is left to yield.              *)
ConsumerGroupMember ==
  [stage : {"down", "idle", "handling", "refusing", "stuck"}, configured : BOOLEAN,
   running : BOOLEAN, batch : Seq(Positions), arrived : BOOLEAN,
   input : Seq(Positions), outbox : Seq(Positions)]

Started(configured) ==
  [stage |-> "idle", configured |-> configured, running |-> TRUE,
   batch |-> <<>>, arrived |-> TRUE, input |-> <<>>, outbox |-> <<>>]

Down == [Started(FALSE) EXCEPT !.stage = "down", !.running = FALSE]

Init ==
  /\ entries = 0
  /\ delivered = Absent
  /\ pending = [e \in Positions |-> None]
  /\ acked = {}
  /\ conn = [m \in Members |-> <<>>]
  /\ member = [m \in Members |-> Down]
  /\ handled = [e \in Positions |-> 0]
  /\ result = [e \in Positions |-> "none"]
  /\ answered = {}
  /\ orphaned = {}
  /\ lost = {}
  /\ crashes = 0
  /\ losses = 0

-----------------------------------------------------------------------------
(* Producers, and the owner of the group. *)

Xadd ==
  /\ entries < MaxEntries
  /\ entries' = entries + 1
  /\ UNCHANGED <<delivered, pending, acked, conn, member, history>>

(* createConsumerGroup passes resolve as the callback, so that it never     *)
(* rejects: without the stream (no MKSTREAM), or with the group there       *)
(* already, Redis refuses and nothing happens.                              *)
createConsumerGroup(cursor) ==
  /\ entries > 0
  /\ delivered = Absent
  /\ delivered' = cursor

Create(cursor) ==
  /\ createConsumerGroup(cursor)
  /\ UNCHANGED <<entries, pending, acked, conn, member, history>>

-----------------------------------------------------------------------------
(* A member. *)

(* The constructor and connectAndListen: a new process, or a restarted one. *)
ConnectAndListen(m, configured) ==
  /\ member[m].stage = "down"
  /\ member' = [member EXCEPT ![m] = Started(configured)]
  /\ UNCHANGED <<server, conn, history>>

(* The generator asks for more when it has yielded all of its last batch;   *)
(* it asks for '>' whatever was pending for its id before.                  *)
ReadAsGroup(m) ==
  /\ member[m].running
  /\ member[m].batch = <<>>
  /\ ~Contains(conn[m], Xreadgroup)
  /\ conn' = [conn EXCEPT ![m] = Append(@, Xreadgroup)]
  /\ UNCHANGED <<server, member, history>>

(* The reply of the XREADGROUP arrives. *)
Receive(m) ==
  /\ ~member[m].arrived
  /\ member' = [member EXCEPT ![m].arrived = TRUE]
  /\ UNCHANGED <<server, conn, history>>

(* Mutant: a Transform that is full is not waited for. *)
YieldAnyway(m) ==
  /\ member[m].arrived /\ member[m].batch # <<>>
  /\ member' = [member EXCEPT ![m].input = IF Len(@) < HighWaterMark
                                             THEN Append(@, Head(member[m].batch)) ELSE @,
                              ![m].batch = Tail(@)]
  /\ UNCHANGED <<server, conn, history>>

Yield(m) ==
  /\ member[m].arrived /\ member[m].batch # <<>>
  /\ Len(member[m].input) < HighWaterMark
  /\ member' = [member EXCEPT ![m].input = Append(@, Head(member[m].batch)),
                              ![m].batch = Tail(@)]
  /\ UNCHANGED <<server, conn, history>>

(* Mutant: the message is acknowledged before it is processed. *)
ProcessAcknowledged(m, known) ==
  LET e == Head(member[m].input)
  IN /\ member[m].stage = "idle"
     /\ member[m].input # <<>>
     /\ member[m].configured
     /\ member' = [member EXCEPT ![m].stage = IF known THEN "handling" ELSE "refusing"]
     /\ handled' = IF known THEN [handled EXCEPT ![e] = @ + 1] ELSE handled
     /\ conn' = [conn EXCEPT ![m] = Append(@, e)]
     /\ UNCHANGED <<server, result, answered, orphaned, lost, crashes, losses>>

(* process(): `this.options` is what the caller passed, not what the        *)
(* constructor gave super(); without a group id there it throws.  Otherwise *)
(* super.process() looks for a handler of the message's type.               *)
Process(m, known) ==
  LET e == Head(member[m].input)
  IN /\ member[m].stage = "idle"
     /\ member[m].input # <<>>
     /\ \/ /\ ~member[m].configured
           /\ member' = [member EXCEPT ![m].stage = "stuck"]
           /\ UNCHANGED handled
        \/ /\ member[m].configured
           /\ member' = [member EXCEPT ![m].stage = IF known THEN "handling" ELSE "refusing"]
           /\ handled' = IF known THEN [handled EXCEPT ![e] = @ + 1] ELSE handled
     /\ UNCHANGED <<server, conn, result, answered, orphaned, lost, crashes, losses>>

(* Mutant: the Transform calls back twice. *)
MarkProcessedTwice(m, outcome) ==
  LET e == Head(member[m].input)
  IN /\ member[m].stage = "handling" /\ outcome \in Outcomes \ {"throw"}
     /\ result' = [result EXCEPT ![e] = outcome]
     /\ conn' = [conn EXCEPT ![m] = Append(@, e)]
     /\ member' = [member EXCEPT ![m].input = Tail(@), ![m].outbox = Append(@, e)]
     /\ UNCHANGED <<server, handled, answered, orphaned, lost, crashes, losses>>

(* super.process() resolves, to an Error if there is no handler.  Either is *)
(* truthy: XACK is sent, nobody waits for its reply, and the result goes    *)
(* into the outgoing stream.                                                *)
MarkProcessed(m, outcome) ==
  LET e == Head(member[m].input)
  IN /\ \/ member[m].stage = "handling" /\ outcome \in Outcomes \ {"throw"}
        \/ member[m].stage = "refusing" /\ outcome = "error"
     /\ result' = [result EXCEPT ![e] = outcome]
     /\ conn' = [conn EXCEPT ![m] = Append(@, e)]
     /\ member' = [member EXCEPT ![m].stage = "idle", ![m].input = Tail(@),
                                 ![m].outbox = Append(@, e)]
     /\ UNCHANGED <<server, handled, answered, orphaned, lost, crashes, losses>>

(* Mutant: a handler that throws is passed over. *)
HandlerThrowsOn(m) ==
  /\ member[m].stage = "handling"
  /\ "throw" \in Outcomes
  /\ member' = [member EXCEPT ![m].stage = "idle", ![m].input = Tail(@)]
  /\ UNCHANGED <<server, conn, history>>

(* The handler throws: no XACK, and the Transform never calls back. *)
HandlerThrows(m) ==
  /\ member[m].stage = "handling"
  /\ "throw" \in Outcomes
  /\ member' = [member EXCEPT ![m].stage = "stuck"]
  /\ UNCHANGED <<server, conn, history>>

(* The response of the first result is written; a result without a payload  *)
(* is dropped without calling back, and stays at the head for good.         *)
Respond(m) ==
  /\ member[m].outbox # <<>>
  /\ LET e == Head(member[m].outbox)
     IN result[e] = "value" /\ answered' = answered \cup {e}
  /\ member' = [member EXCEPT ![m].outbox = Tail(@)]
  /\ UNCHANGED <<server, conn, handled, result, orphaned, lost, crashes, losses>>

(* The process ends: by itself, on a failed XADD or XACK (an unhandled      *)
(* rejection), or with its machine.  Redis drops what it has not executed.  *)
Crash(m) ==
  /\ member[m].stage # "down"
  /\ crashes < MaxCrashes
  /\ crashes' = crashes + 1
  /\ member' = [member EXCEPT ![m] = Down]
  /\ conn' = [conn EXCEPT ![m] = <<>>]
  /\ orphaned' = orphaned \cup {e \in Positions : pending[e] = m}
  /\ UNCHANGED <<server, handled, result, answered, lost, losses>>

(* The connection breaks under a reply: ioredis connects again and sends    *)
(* what has no reply, in its order, and '>' asks for what was not delivered *)
(* yet.  Nothing else changes when a connection breaks: what Redis has not  *)
(* executed is sent again, and an XACK executed twice finds nothing.        *)
ReplyLost(m) ==
  /\ ~member[m].arrived
  /\ losses < MaxLosses
  /\ losses' = losses + 1
  /\ conn' = [conn EXCEPT ![m] = <<Xreadgroup>> \o @]
  /\ member' = [member EXCEPT ![m].batch = <<>>, ![m].arrived = TRUE]
  /\ lost' = lost \cup ToSet(member[m].batch)
  /\ UNCHANGED <<server, handled, result, answered, orphaned, crashes>>

-----------------------------------------------------------------------------
(* The server executes the first command of a connection. *)

Executed(m) == conn' = [conn EXCEPT ![m] = Tail(@)]

NextIs(m, command) == conn[m] # <<>> /\ Head(conn[m]) = command

(* Mutant: the cursor is an id, which asks for what is pending for the      *)
(* member, and not '>'.                                                     *)
DeliverPending(m) ==
  LET all == [e \in Positions |-> IF delivered < e /\ e <= entries THEN m ELSE pending[e]]
  IN /\ NextIs(m, Xreadgroup)
     /\ delivered # Absent
     /\ \E e \in Positions : all[e] = m
     /\ delivered' = entries
     /\ pending' = all
     /\ member' = [member EXCEPT ![m].arrived = FALSE, ![m].batch =
                     SetToSortSeq({e \in Positions : all[e] = m}, <)]
     /\ Executed(m)
     /\ UNCHANGED <<entries, acked, history>>

(* '>': everything never delivered to the group, and no COUNT. *)
Deliver(m) ==
  /\ NextIs(m, Xreadgroup)
  /\ delivered # Absent
  /\ delivered < entries
  /\ delivered' = entries
  /\ pending' = [e \in Positions |-> IF delivered < e /\ e <= entries THEN m ELSE pending[e]]
  /\ member' = [member EXCEPT ![m].arrived = FALSE, ![m].batch =
                  [n \in 1..(entries - delivered) |-> delivered + n]]
  /\ Executed(m)
  /\ UNCHANGED <<entries, acked, history>>

(* Mutant: BLOCK 0. *)
XreadgroupNeverTimesOut(m) ==
  /\ NextIs(m, Xreadgroup)
  /\ delivered = entries
  /\ UNCHANGED vars

XreadgroupTimesOut(m) ==
  /\ NextIs(m, Xreadgroup)
  /\ delivered = entries
  /\ Executed(m)
  /\ UNCHANGED <<server, member, history>>

(* NOGROUP: the generator throws and the member reads no more. *)
XreadgroupFails(m) ==
  /\ NextIs(m, Xreadgroup)
  /\ delivered = Absent
  /\ Executed(m)
  /\ member' = [member EXCEPT ![m].running = FALSE]
  /\ UNCHANGED <<server, history>>

Xack(m, e) ==
  /\ NextIs(m, e)
  /\ acked' = acked \cup {e}
  /\ pending' = [pending EXCEPT ![e] = None]
  /\ Executed(m)
  /\ UNCHANGED <<entries, delivered, member, history>>

-----------------------------------------------------------------------------
Run(m) ==
  \/ ReadAsGroup(m)
  \/ Receive(m)
  \/ Yield(m)
  \/ \E known \in BOOLEAN : Process(m, known)
  \/ \E outcome \in Outcomes \cup {"error"} : MarkProcessed(m, outcome)
  \/ HandlerThrows(m)
  \/ Respond(m)

Serve(m) ==
  \/ Deliver(m)
  \/ XreadgroupTimesOut(m)
  \/ XreadgroupFails(m)
  \/ \E e \in Positions : Xack(m, e)

Next ==
  \/ Xadd
  \/ \E cursor \in {0, entries} : Create(cursor)
  \/ \E m \in Members :
       \/ \E configured \in Configs : ConnectAndListen(m, configured)
       \/ Run(m)
       \/ Serve(m)
       \/ Crash(m)
       \/ ReplyLost(m)

SafetySpec == Init /\ [][Next]_vars

(* Node runs what is ready, handlers settle, and Redis executes commands    *)
(* and keeps the BLOCK timeout (half an hour unless configured), and a      *)
(* reply arrives unless its connection breaks.  Nobody need write entries,  *)
(* create the group or start a member.                                      *)
Fairness ==
  \A m \in Members :
    /\ WF_vars(ReadAsGroup(m))
    /\ WF_vars(Receive(m))
    /\ WF_vars(Yield(m))
    /\ WF_vars(\/ \E known \in BOOLEAN : Process(m, known)
               \/ \E outcome \in Outcomes \cup {"error"} : MarkProcessed(m, outcome)
               \/ HandlerThrows(m))
    /\ WF_vars(Respond(m))
    /\ WF_vars(Serve(m))

Spec == SafetySpec /\ Fairness

(* The same where a member that is down is started again. *)
RestartSpec ==
  Spec /\ \A m \in Members :
            WF_vars(\E configured \in Configs : ConnectAndListen(m, configured))

-----------------------------------------------------------------------------
(* What a member has been given and not processed, or will have when the    *)
(* reply arrives.                                                           *)
Local(m) == ToSet(member[m].batch) \cup ToSet(member[m].input)

TypeOK ==
  /\ entries \in 0..MaxEntries
  /\ delivered \in {Absent} \cup 0..entries
  /\ pending \in [Positions -> Members \cup {None}]
  /\ acked \subseteq Positions
  /\ conn \in [Members -> Seq({Xreadgroup} \cup Positions)]
  /\ member \in [Members -> ConsumerGroupMember]
  /\ \A m \in Members :
       member[m].stage \in {"handling", "refusing", "stuck"} => member[m].input # <<>>
  /\ result \in [Positions -> {"none", "value", "void", "error"}]
  /\ answered \subseteq Positions
  /\ orphaned \subseteq Positions /\ lost \subseteq Positions
  /\ crashes \in 0..MaxCrashes /\ losses \in 0..MaxLosses

(* "messages promised to be delivered to a single of the multi-consumers":  *)
(* no handler is called twice for an entry, by two members or by one and    *)
(* its successor after a crash.                                             *)
HandledAtMostOnce == \A e \in Positions : handled[e] <= 1

(* An entry leaves the pending list only after its handling has come to a   *)
(* result, and a response is written only for a result: a crash at any      *)
(* moment leaves on the list whatever was delivered and not yet handled.    *)
AckedIsProcessed == \A e \in acked \cup answered : result[e] # "none"

(* The server's pending list and the members agree: an entry pending for a  *)
(* process that has lived since it was delivered is in a reply on its way   *)
(* to that process, in the process, or its XACK is on the way, unless it    *)
(* was in a reply that the process lost; such an entry stays on the list,   *)
(* and no member has it.                                                    *)
PendingIsHeld ==
  /\ \A e \in Positions, m \in Members :
       pending[e] = m /\ e \notin orphaned \cup lost => e \in Local(m) \/ Contains(conn[m], e)
  /\ \A e \in lost : pending[e] # None /\ \A m \in Members : e \notin Local(m)

(* The group is a work queue: entries are taken in order and by one member  *)
(* for good, a member starts and finishes what it has in order and one at a *)
(* time, nothing is acknowledged that is not finished, of what it has a     *)
(* process that ends loses exactly what is not, and one that lives loses at *)
(* most what it was given last, before it starts any of it.                 *)
status ==
  [e \in Positions |->
     IF e \in acked THEN "closed"
     ELSE IF pending[e] = None THEN "waiting"
     ELSE IF result[e] # "none" THEN "finished"
     ELSE IF e \in orphaned \cup lost THEN "lost"
     ELSE IF handled[e] = 0 THEN "taken" ELSE "started"]

WQ == INSTANCE WorkQueue
        WITH Items <- Positions, Workers <- Members, Nobody <- None, holder <- pending

ImplementsWorkQueue == WQ!Spec

(* The XACK that queues behind a blocking XREADGROUP is executed, and every *)
(* delivered entry acknowledged, those behind a lost reply too, unless the  *)
(* entry was in a lost reply itself or its member ends or is stuck.         *)
EveryDeliveryConcludes ==
  \A e \in Positions, m \in Members :
    (pending[e] = m) ~>
      (e \in acked \/ e \in orphaned \cup lost \/ member[m].stage = "stuck")

(* "Allows for recovery on crash of a given consumer within a group": an    *)
(* entry that was delivered to a process that ended is handled after all,   *)
(* given that the member is started again.  The code does not do this.      *)
RecoversFromCrash ==
  \A e \in Positions : (e \in orphaned) ~> (result[e] # "none")
=============================================================================
