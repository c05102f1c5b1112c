---------------------------- MODULE ConnectedTopic ----------------------------
(***************************************************************************)
(* ConnectedTopic of @streamerson/core, over the connection of its         *)
(* channel, and ConsumerGroupTopic of @streamerson/consumer-group, which   *)
(* extends it.                                                             *)
(*                                                                         *)
(* The constructor connects the channel and keeps the promise; connect()   *)
(* waits for it; `channel` throws until then.  If the promise is rejected  *)
(* before anyone waits, the rejection is unhandled and the process ends.   *)
(***************************************************************************)
EXTENDS RedisConnection

VARIABLE topic    (* the topic, and where its connect() is *)

vars == <<topic, rcVars>>

First == 1        (* the client that the constructor made *)

TopicInit == Init /\ topic = "absent"

Construct ==
  /\ topic = "absent"
  /\ topic' = "constructed"
  /\ Connect

(* The options of a group: a max of 0 is compared with nothing. *)
createConsumerGroupConfig(min, max) == min >= 1 /\ (max # 0 => min <= max)

(* A group's topic refuses bad options when it has been connected already.  *)
ConstructGroup(min) ==
  /\ topic = "absent"
  /\ topic' = IF createConsumerGroupConfig(min, Max) THEN "constructed" ELSE "refused"
  /\ Connect

(* `await topic.connect()` *)
ConnectTopic ==
  /\ topic = "constructed" /\ connecting[First] # "rejected"
  /\ topic' = "awaiting"
  /\ UNCHANGED rcVars

ConnectResumes ==
  /\ topic = "awaiting" /\ connecting[First] \in {"resolved", "rejected"}
  /\ topic' = IF connecting[First] = "resolved" THEN "connected" ELSE "threw"
  /\ UNCHANGED rcVars

Unheard ==
  /\ topic \in {"constructed", "refused"} /\ connecting[First] = "rejected"
  /\ topic' = "crashed"
  /\ UNCHANGED rcVars

(* create() and acquireGroupMemberId() take `channel`, which is handed out  *)
(* after a disconnect() too: `connected` stays true.                        *)
IssueOnChannel(x) == topic = "connected" /\ Issue(x) /\ UNCHANGED topic

(* topic._channel is public: it may be connected again, or disconnected by  *)
(* whoever has the topic.                                                   *)
Held == topic \notin {"absent", "refused"}
ConnectAgain == Held /\ Connect /\ UNCHANGED topic
DisconnectTopic == Held /\ Disconnect /\ UNCHANGED topic

Running(A) == topic # "crashed" /\ A
ConnectionStep(A) == Running(A) /\ UNCHANGED topic

Next ==
  \/ Construct \/ (\E min \in 0..Max : ConstructGroup(min))
  \/ ConnectTopic \/ ConnectResumes \/ Unheard
  \/ Running(ConnectAgain) \/ Running(DisconnectTopic)
  \/ \E x \in Commands : IssueOnChannel(x) \/ ConnectionStep(CommandStep(x))
  \/ \E c \in Clients : ConnectionStep(ClientStep(c))

(* An attempt to connect ends one way or the other; timers fire; a server   *)
(* that is connected answers or the connection breaks; awaits resume.       *)
Fairness ==
  /\ WF_vars(ConnectResumes) /\ WF_vars(Unheard)
  /\ \A c \in Clients :
       /\ WF_vars(ConnectionStep(Reached(c) \/ Closes(c)))
       /\ WF_vars(ConnectionStep(Ready(c) \/ Closes(c)))
       /\ WF_vars(ConnectionStep(Reconnect(c)))
       /\ WF_vars(ConnectionStep(PingReplies(c)))
  /\ \A x \in Commands : WF_vars(ConnectionStep(CommandStep(x)))

Spec == TopicInit /\ [][Next]_vars /\ Fairness

-----------------------------------------------------------------------------
TypeOK ==
  /\ TypeOKConnection
  /\ topic \in {"absent", "refused", "constructed", "awaiting", "connected", "threw", "crashed"}

(* No two members of a group get the same id, and none above max, though    *)
(* the client may send an INCR again that Redis has executed.               *)
MemberIdsDiffer ==
  \A x, y \in Commands :
    command[x].stage = "member" =>
      /\ command[x].number \in 1..Max
      /\ x # y /\ command[y].stage = "member" => command[x].number # command[y].number

StoppedUnder(x) == command[x].on # None /\ link[command[x].on] = "stopped"
Stopped == \E c \in Clients : link[c] = "stopped"

(* Every command issued on the channel is answered or fails, whatever       *)
(* breaks, unless its client was stopped while it waited to connect again:  *)
(* retry() gives up after three attempts and rejects what waits.            *)
EveryCommandSettles ==
  \A x \in Commands :
    command[x].stage # "idle" ~> \/ command[x].stage \in {"member", "refused", "failed"}
                                 \/ StoppedUnder(x) \/ topic = "crashed"

(* A connect() whose client has once told of a connection resolves or       *)
(* rejects, even if another connect() or a disconnect() came in between: it *)
(* hangs only if the server is never reached, or a client is stopped.       *)
ConnectSettlesOnceReached ==
  \A c \in Clients :
    c \in reached ~> connecting[c] # "pending" \/ Stopped \/ topic = "crashed"
=============================================================================
