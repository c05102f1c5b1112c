-------------------------- MODULE ConnectedTopicProofs -------------------------
(***************************************************************************)
(* Proofs about topics and their clients: types, and that members of a     *)
(* group get different ids, for any number of commands and clients, any    *)
(* max, and any broken connections.                                        *)
(***************************************************************************)
EXTENDS ConnectedTopic, TLAPS

-----------------------------------------------------------------------------
(* Commands whose number stands, unless their reply is lost. *)
Numbered(x) == command[x].stage \in {"executed", "replied", "member", "refused"}

Commanded ==
  [Commands -> [stage : {"idle", "queued", "executed", "replied", "failed", "member", "refused"},
                on : Clients \cup {None}, number : Nat]]

(* Every number was taken from the counter once. *)
NumbersDiffer ==
  \A x \in Commands : Numbered(x) =>
    /\ command[x].number \in 1..counter
    /\ \A y \in Commands : x # y /\ Numbered(y) => command[x].number # command[y].number

IInv ==
  /\ command \in Commanded /\ counter \in Nat /\ _client \in Clients \cup {None}
  /\ NumbersDiffer
  /\ \A x \in Commands : command[x].stage = "member" => command[x].number <= Max

LEMMA InitIInv == TopicInit => IInv
BY DEF TopicInit, Init, IInv, Commanded, NumbersDiffer, Numbered, None

(* A step that gives out no number, and makes no member. *)
LEMMA NothingCounted ==
  ASSUME IInv, command' \in Commanded, counter' = counter, _client' \in Clients \cup {None},
         \A x \in Commands : /\ command'[x].number = command[x].number
                             /\ Numbered(x)' => Numbered(x)
                             /\ command'[x].stage = "member" => command[x].stage = "member"
  PROVE  IInv'
<1>1. NumbersDiffer'
  BY DEF IInv, NumbersDiffer
<1>2. \A x \in Commands : command'[x].stage = "member" => command'[x].number <= Max
  BY DEF IInv
<1> QED BY <1>1, <1>2 DEF IInv

(* The same, of a step that only changes the stage of some commands. *)
LEMMA StagesChange ==
  ASSUME IInv, counter' = counter, _client' \in Clients \cup {None},
         NEW stage \in {"queued", "failed"}, NEW S,
         command' = [x \in Commands |-> IF x \in S THEN [command[x] EXCEPT !.stage = stage]
                                                   ELSE command[x]]
  PROVE  IInv'
<1>1. command' \in Commanded
  BY DEF IInv, Commanded
<1>2. ASSUME NEW x \in Commands
      PROVE  /\ command'[x].number = command[x].number
             /\ Numbered(x)' => Numbered(x)
             /\ command'[x].stage = "member" => command[x].stage = "member"
  BY DEF IInv, Commanded, Numbered
<1> QED BY <1>1, <1>2, NothingCounted

LEMMA SameCommands ==
  ASSUME IInv, UNCHANGED <<command, counter>>, _client' \in Clients \cup {None}
  PROVE  IInv'
BY DEF IInv, NumbersDiffer, Numbered

LEMMA FlushKeeps ==
  ASSUME IInv, NEW c, Flush(c), counter' = counter, _client' \in Clients \cup {None}
  PROVE  IInv'
<1> DEFINE S == {x \in Commands : Unsettled(x, c)}
<1>1. command' = [x \in Commands |-> IF x \in S THEN [command[x] EXCEPT !.stage = "failed"]
                                                ELSE command[x]]
  BY DEF Flush
<1> HIDE DEF S
<1> QED BY <1>1, StagesChange

-----------------------------------------------------------------------------
LEMMA ConnectKeeps == ASSUME IInv, Connect PROVE IInv'
BY SameCommands DEF Connect

LEMMA DisconnectKeeps == ASSUME IInv, Disconnect PROVE IInv'
<1>1. _client' \in Clients \cup {None} /\ counter' = counter
  BY DEF Disconnect
<1>2. CASE command' = command
  BY <1>1, <1>2, SameCommands
<1>3. CASE Flush(_client)
  BY <1>1, <1>3, FlushKeeps
<1> QED BY <1>2, <1>3 DEF Disconnect

LEMMA IssueKeeps == ASSUME IInv, NEW x \in Commands, Issue(x) PROVE IInv'
<1> USE DEF connections
<1>1. command' \in Commanded
  BY DEF IInv, Commanded, Issue
<1>2. ASSUME NEW y \in Commands
      PROVE  /\ command'[y].number = command[y].number
             /\ Numbered(y)' => Numbered(y)
             /\ command'[y].stage = "member" => command[y].stage = "member"
  BY DEF IInv, Commanded, Numbered, Issue
<1>3. _client' \in Clients \cup {None} /\ counter' = counter
  BY DEF IInv, Issue
<1> QED BY <1>1, <1>2, <1>3, NothingCounted

(* Redis counts: the new number is above all that were given. *)
LEMMA ExecuteKeeps == ASSUME IInv, NEW x \in Commands, Execute(x) PROVE IInv'
<1> USE DEF connections
<1>1. /\ command' = [command EXCEPT ![x].stage = "executed", ![x].number = counter + 1]
      /\ counter' = counter + 1 /\ _client' = _client
      /\ counter \in Nat /\ command \in Commanded
  BY DEF IInv, Execute
<1> DEFINE Rec == [stage : {"idle", "queued", "executed", "replied", "failed", "member", "refused"},
                   on : Clients \cup {None}, number : Nat]
           r == [command[x] EXCEPT !.stage = "executed", !.number = counter + 1]
<1>2. /\ command' \in Commanded /\ command'[x].number = counter + 1
      /\ command'[x].stage = "executed"
      /\ \A y \in Commands : y # x => command'[y] = command[y]
  <2>1. command \in [Commands -> Rec] /\ counter + 1 \in Nat
    BY <1>1 DEF Commanded
  <2>2. command[x] \in Rec
    BY <2>1
  <2>3. r \in Rec /\ r.stage = "executed" /\ r.number = counter + 1
    BY <2>1, <2>2
  <2>4. command' = [command EXCEPT ![x] = r]
    BY <1>1
  <2> HIDE DEF Rec, r
  <2>5. command' \in [Commands -> Rec] /\ command'[x] = r
        /\ \A y \in Commands : y # x => command'[y] = command[y]
    BY <2>1, <2>3, <2>4
  <2> QED BY <2>3, <2>5 DEF Commanded, Rec
<1>3. ASSUME NEW y \in Commands, y # x, Numbered(y)'
      PROVE  /\ Numbered(y) /\ command'[y].number = command[y].number
             /\ command'[y].number \in 1..counter
  BY <1>2, <1>3 DEF IInv, NumbersDiffer, Numbered
<1>4. NumbersDiffer'
  <2> DEFINE n(y) == command'[y].number
  <2>0. counter \in Nat /\ counter' = counter + 1 /\ n(x) = counter + 1
    BY <1>1, <1>2
  <2>1. ASSUME NEW y \in Commands, y # x, Numbered(y)'
        PROVE  n(y) \in 1..counter
    BY <1>3, <2>1
  <2>2. ASSUME NEW y \in Commands, NEW z \in Commands, y # x, z # x, y # z,
               Numbered(y)', Numbered(z)'
        PROVE  n(y) # n(z)
    BY <1>3, <2>2 DEF IInv, NumbersDiffer
  <2> HIDE DEF n
  <2>3. ASSUME NEW y \in Commands, NEW z \in Commands, y # z, Numbered(y)', Numbered(z)'
        PROVE  n(y) # n(z)
    <3>1. CASE y = x
      BY <2>0, <2>1, <2>3, <3>1
    <3>2. CASE z = x
      BY <2>0, <2>1, <2>3, <3>2
    <3> QED BY <2>2, <2>3, <3>1, <3>2
  <2>4. ASSUME NEW y \in Commands, Numbered(y)'
        PROVE  n(y) \in 1..counter'
    BY <2>0, <2>1, <2>4
  <2> QED BY <2>3, <2>4 DEF NumbersDiffer, n
<1>5. \A y \in Commands : command'[y].stage = "member" => command'[y].number <= Max
  BY <1>2 DEF IInv
<1>6. counter' \in Nat /\ _client' \in Clients \cup {None}
  BY <1>1 DEF IInv
<1> QED BY <1>2, <1>4, <1>5, <1>6 DEF IInv

(* A reply, and what acquireGroupMemberId() makes of it, keep the number. *)
LEMMA RepliesKeeps ==
  ASSUME IInv, NEW x \in Commands, Replies(x) \/ AcquireGroupMemberId(x)
  PROVE  IInv'
<1> USE DEF connections
<1>1. /\ command \in Commanded /\ Numbered(x)
      /\ \E s \in {"replied", "refused", "member"} :
           /\ command' = [command EXCEPT ![x].stage = s]
           /\ s = "member" => ~(command[x].number > Max)
      /\ counter' = counter /\ _client' = _client
  BY DEF IInv, Replies, AcquireGroupMemberId, Numbered
<1>2. PICK s \in {"replied", "refused", "member"} :
        /\ command' = [command EXCEPT ![x].stage = s]
        /\ s = "member" => ~(command[x].number > Max)
  BY <1>1
<1> DEFINE Rec == [stage : {"idle", "queued", "executed", "replied", "failed", "member", "refused"},
                   on : Clients \cup {None}, number : Nat]
           r == [command[x] EXCEPT !.stage = s]
<1>3. /\ command' \in Commanded
      /\ \A y \in Commands : /\ command'[y].number = command[y].number
                             /\ Numbered(y)' => Numbered(y)
      /\ \A y \in Commands : command'[y].stage = "member" =>
           command[y].stage = "member" \/ (y = x /\ ~(command[x].number > Max))
  <2>1. command \in [Commands -> Rec]
    BY <1>1 DEF Commanded
  <2>2. command[x] \in Rec
    BY <2>1
  <2>3. r \in Rec /\ r.stage = s /\ r.number = command[x].number
    BY <2>2
  <2>4. command' = [command EXCEPT ![x] = r]
    BY <1>2
  <2> HIDE DEF Rec, r
  <2>5. command' \in [Commands -> Rec] /\ command'[x] = r
        /\ \A y \in Commands : y # x => command'[y] = command[y]
    BY <2>1, <2>3, <2>4
  <2>6. \A y \in Commands : /\ command'[y].number = command[y].number
                            /\ Numbered(y)' => Numbered(y)
    BY <1>1, <2>3, <2>5 DEF Numbered
  <2>7. \A y \in Commands : command'[y].stage = "member" =>
           command[y].stage = "member" \/ (y = x /\ ~(command[x].number > Max))
    BY <1>2, <2>3, <2>5
  <2> QED BY <2>5, <2>6, <2>7 DEF Commanded, Rec
<1>4. NumbersDiffer'
  BY <1>1, <1>3 DEF IInv, NumbersDiffer
<1>5. \A y \in Commands : command'[y].stage = "member" => command'[y].number <= Max
  <2>1. Max \in Nat /\ command[x].number \in Nat
    BY <1>1, NatAssumption DEF Commanded
  <2> QED BY <1>3, <2>1 DEF IInv
<1> QED BY <1>1, <1>3, <1>4, <1>5 DEF IInv

LEMMA ClosesKeeps == ASSUME IInv, NEW c \in Clients, Closes(c) PROVE IInv'
<1>1. _client' \in Clients \cup {None} /\ counter' = counter
  BY DEF IInv, Closes
<1> DEFINE S == {x \in Commands : Unsettled(x, c)}
<1>2. \/ command' = [x \in Commands |-> IF x \in S THEN [command[x] EXCEPT !.stage = "queued"]
                                                   ELSE command[x]]
      \/ Flush(c)
  BY DEF Closes
<1> HIDE DEF S
<1> QED BY <1>1, <1>2, StagesChange, FlushKeeps

LEMMA ClientStepKeeps == ASSUME IInv, NEW c \in Clients, ClientStep(c) PROVE IInv'
<1>1. CASE Reached(c)
  BY <1>1, SameCommands DEF Reached, IInv
<1>2. CASE Ready(c) \/ Reconnect(c) \/ PingReplies(c)
  BY <1>2, SameCommands DEF Ready, Reconnect, PingReplies, IInv
<1>3. CASE Closes(c)
  BY <1>3, ClosesKeeps
<1> QED BY <1>1, <1>2, <1>3 DEF ClientStep

LEMMA NextIInv == IInv /\ [Next]_vars => IInv'
<1> SUFFICES ASSUME IInv, [Next]_vars PROVE IInv'
  OBVIOUS
<1> USE DEF rcVars, connections
<1>1. CASE Construct \/ \E min \in 0..Max : ConstructGroup(min)
  BY <1>1, ConnectKeeps DEF Construct, ConstructGroup
<1>2. CASE ConnectTopic \/ ConnectResumes \/ Unheard
  BY <1>2, SameCommands DEF ConnectTopic, ConnectResumes, Unheard, IInv
<1>3. CASE Running(ConnectAgain) \/ Running(DisconnectTopic)
  BY <1>3, ConnectKeeps, DisconnectKeeps DEF Running, ConnectAgain, DisconnectTopic
<1>4. ASSUME NEW x \in Commands, IssueOnChannel(x) \/ ConnectionStep(CommandStep(x))
      PROVE  IInv'
  BY <1>4, IssueKeeps, ExecuteKeeps, RepliesKeeps
  DEF IssueOnChannel, ConnectionStep, Running, CommandStep
<1>5. ASSUME NEW c \in Clients, ConnectionStep(ClientStep(c))
      PROVE  IInv'
  BY <1>5, ClientStepKeeps DEF ConnectionStep, Running
<1>6. CASE UNCHANGED vars
  BY <1>6, SameCommands DEF vars, IInv
<1> QED BY <1>1, <1>2, <1>3, <1>4, <1>5, <1>6 DEF Next

(* No two members get the same id, and none above max, however often a      *)
(* client loses a reply and sends its INCR again.                           *)
THEOREM MembersGetTheirOwnId == Spec => []MemberIdsDiffer
<1>1. IInv => MemberIdsDiffer
  <2> SUFFICES ASSUME IInv, NEW x \in Commands, NEW y \in Commands, command[x].stage = "member"
               PROVE  /\ command[x].number \in 1..Max
                      /\ x # y /\ command[y].stage = "member"
                           => command[x].number # command[y].number
    BY DEF MemberIdsDiffer
  <2>1. command[x].number \in 1..counter /\ command[x].number <= Max
    BY DEF IInv, NumbersDiffer, Numbered
  <2>2. Max \in Nat /\ counter \in Nat
    BY NatAssumption DEF IInv
  <2> QED BY <2>1, <2>2 DEF IInv, NumbersDiffer, Numbered
<1> QED BY <1>1, InitIInv, NextIInv, PTL DEF Spec

-----------------------------------------------------------------------------
(* Type correctness: the last conjunct of TypeOKConnection says that what   *)
(* waited on a client is rejected when the client ends, so it needs the     *)
(* number of attempts that a client has left.                               *)

Pinged(c) == \E d \in Clients : <<d, c>> \in pings
Waited(c) == \E x \in Commands : Unsettled(x, c)

(* What the links of the clients, their attempts, and those who wait on     *)
(* them have to do with each other.                                         *)
LinkInv ==
  /\ link \in [Clients -> Links]
  /\ times \in [Clients -> 0..3]
  /\ \A c \in Clients : times[c] = 3 => link[c] = "ended"
  /\ \A c \in Clients : link[c] = "ended" => ~Pinged(c) /\ ~Waited(c)

TypeInv ==
  /\ _client \in Clients \cup {None}
  /\ LinkInv
  /\ connecting \in [Clients -> {"none", "pending", "resolved", "rejected"}]
  /\ reached \subseteq Clients /\ pings \subseteq Clients \X Clients
  /\ breaks \in 0..MaxBreaks
  /\ topic \in {"absent", "refused", "constructed", "awaiting", "connected", "threw", "crashed"}

LEMMA TypeInvImplies == IInv /\ TypeInv => TypeOK
BY DEF IInv, TypeInv, LinkInv, TypeOK, TypeOKConnection, Commanded, Pinged, Waited, PingsOn

LEMMA InitTypeInv == TopicInit => TypeInv
BY NatAssumption
DEF TopicInit, Init, TypeInv, LinkInv, Links, None, Pinged, Waited, Unsettled

(* The promises of connect() are settled one way or the other. *)
LEMMA Settled ==
  ASSUME TypeInv, NEW calls, NEW how \in {"resolved", "rejected"}, Settle(calls, how)
  PROVE  connecting' \in [Clients -> {"none", "pending", "resolved", "rejected"}]
BY DEF TypeInv, Settle

(* A client that ends leaves nothing behind, and nobody else gets more. *)
LEMMA Flushed ==
  ASSUME TypeInv, IInv, NEW c \in Clients, Flush(c)
  PROVE  /\ connecting' \in [Clients -> {"none", "pending", "resolved", "rejected"}]
         /\ pings' \subseteq Clients \X Clients
         /\ ~Pinged(c)' /\ ~Waited(c)'
         /\ \A d \in Clients : (Pinged(d)' => Pinged(d)) /\ (Waited(d)' => Waited(d))
<1>1. connecting' \in [Clients -> {"none", "pending", "resolved", "rejected"}]
  BY Settled DEF Flush
<1>2. pings' \subseteq Clients \X Clients
  BY DEF TypeInv, Flush
<1>3. ~Pinged(c)' /\ \A d \in Clients : Pinged(d)' => Pinged(d)
  BY DEF Flush, Pinged
<1>4. \A x \in Commands, d \in Clients : Unsettled(x, d)' => Unsettled(x, d) /\ d # c
  BY DEF Flush, Unsettled, IInv, Commanded
<1> QED BY <1>1, <1>2, <1>3, <1>4 DEF Waited

(* The link of one client changes, and nobody comes to wait on one that has *)
(* ended.                                                                   *)
LEMMA Relinked ==
  ASSUME LinkInv, NEW c \in Clients,
         link' \in [Clients -> Links], times' \in [Clients -> 0..3],
         \A d \in Clients : d # c => link'[d] = link[d] /\ times'[d] = times[d],
         times'[c] = 3 => link'[c] = "ended",
         link'[c] = "ended" => ~Pinged(c)' /\ ~Waited(c)',
         \A d \in Clients : link[d] = "ended" => /\ Pinged(d)' => Pinged(d)
                                                 /\ Waited(d)' => Waited(d)
  PROVE  LinkInv'
<1>1. \A d \in Clients : times'[d] = 3 => link'[d] = "ended"
  BY DEF LinkInv
<1>2. \A d \in Clients : link'[d] = "ended" => ~Pinged(d)' /\ ~Waited(d)'
  BY DEF LinkInv
<1> QED BY <1>1, <1>2 DEF LinkInv

(* No link changes. *)
LEMMA SameLinks ==
  ASSUME LinkInv, UNCHANGED <<link, times>>,
         \A d \in Clients : link[d] = "ended" => /\ Pinged(d)' => Pinged(d)
                                                 /\ Waited(d)' => Waited(d)
  PROVE  LinkInv'
BY DEF LinkInv

-----------------------------------------------------------------------------
LEMMA ConnectKeepsType ==
  ASSUME TypeInv, Connect, topic' \in {"constructed", "refused", topic}
  PROVE  TypeInv'
<1>0. PICK c \in Clients :
        /\ link[c] = "none" /\ _client' = c
        /\ link' = [link EXCEPT ![c] = "connecting"]
        /\ connecting' = [connecting EXCEPT ![c] = "pending"]
        /\ UNCHANGED <<times, reached, pings, command, counter, breaks>>
  BY DEF Connect
<1>1. \A d \in Clients : (Pinged(d)' => Pinged(d)) /\ (Waited(d)' => Waited(d))
  BY <1>0 DEF Pinged, Waited, Unsettled
<1>2. LinkInv'
  <2>1. /\ LinkInv /\ link' \in [Clients -> Links] /\ times' \in [Clients -> 0..3]
        /\ \A d \in Clients : d # c => link'[d] = link[d] /\ times'[d] = times[d]
        /\ times'[c] # 3 /\ link'[c] # "ended"
    BY <1>0 DEF TypeInv, LinkInv, Links
  <2> QED BY <1>1, <2>1, Relinked
<1>3. connecting' \in [Clients -> {"none", "pending", "resolved", "rejected"}]
  BY <1>0 DEF TypeInv
<1> QED BY <1>0, <1>2, <1>3 DEF TypeInv, LinkInv

LEMMA DisconnectKeepsType ==
  ASSUME TypeInv, IInv, Disconnect, UNCHANGED topic
  PROVE  TypeInv'
<1>0. PICK c \in Clients : c = _client
  BY DEF Disconnect, TypeInv
<1>1. LinkInv /\ _client' = None /\ UNCHANGED <<times, reached, breaks>>
  BY DEF TypeInv, Disconnect
<1>2. CASE /\ link' = [link EXCEPT ![c] = "stopped"]
           /\ UNCHANGED <<connecting, pings, command>>
           /\ link[c] \in {"waiting", "stopped"}
  <2>1. \A d \in Clients : (Pinged(d)' => Pinged(d)) /\ (Waited(d)' => Waited(d))
    BY <1>2 DEF Pinged, Waited, Unsettled
  <2>2. /\ link' \in [Clients -> Links] /\ times' \in [Clients -> 0..3]
        /\ \A d \in Clients : d # c => link'[d] = link[d] /\ times'[d] = times[d]
        /\ times'[c] # 3 /\ link'[c] # "ended"
    BY <1>1, <1>2 DEF LinkInv, Links
  <2>3. LinkInv'
    BY <1>1, <2>1, <2>2, Relinked
  <2> QED BY <1>1, <1>2, <2>3 DEF TypeInv, LinkInv
<1>3. CASE link' = [link EXCEPT ![c] = "ended"] /\ Flush(c)
  <2>1. /\ link' \in [Clients -> Links] /\ times' \in [Clients -> 0..3]
        /\ \A d \in Clients : d # c => link'[d] = link[d] /\ times'[d] = times[d]
        /\ link'[c] = "ended"
    BY <1>1, <1>3 DEF LinkInv, Links
  <2>2. LinkInv'
    BY <1>1, <1>3, <2>1, Flushed, Relinked
  <2> QED BY <1>1, <1>3, <2>2, Flushed DEF TypeInv, LinkInv
<1> QED BY <1>0, <1>2, <1>3 DEF Disconnect

LEMMA IssueKeepsType ==
  ASSUME TypeInv, IInv, NEW x \in Commands, Issue(x), UNCHANGED topic
  PROVE  TypeInv'
<1>1. UNCHANGED connections
  BY DEF Issue
<1>2. ASSUME NEW d \in Clients, link[d] = "ended", Waited(d)' PROVE Waited(d)
  <2>1. PICK y \in Commands : Unsettled(y, d)'
    BY <1>2 DEF Waited
  <2>2. command \in Commanded
    BY DEF IInv
  <2>3. CASE y = x
    BY <1>2, <2>1, <2>2, <2>3 DEF Issue, Unsettled, Commanded
  <2>4. CASE y # x
    BY <2>1, <2>2, <2>4 DEF Issue, Unsettled, Commanded, Waited
  <2> QED BY <2>3, <2>4
<1>3. LinkInv'
  BY <1>1, <1>2, SameLinks DEF TypeInv, connections, Pinged
<1> QED BY <1>1, <1>3 DEF connections, TypeInv, LinkInv

(* A command that is executed or answered waited already. *)
LEMMA CommandStepKeepsType ==
  ASSUME TypeInv, IInv, NEW x \in Commands, CommandStep(x), UNCHANGED topic
  PROVE  TypeInv'
<1>1. UNCHANGED connections
  BY DEF CommandStep, Execute, Replies, AcquireGroupMemberId
<1>2. \A y \in Commands, d \in Clients : Unsettled(y, d)' => Unsettled(y, d)
  <2>1. command \in Commanded
    BY DEF IInv
  <2>2. CASE Execute(x)
    BY <2>1, <2>2 DEF Execute, Unsettled, Commanded
  <2>3. CASE Replies(x)
    BY <2>1, <2>3 DEF Replies, Unsettled, Commanded
  <2>4. CASE AcquireGroupMemberId(x)
    BY <2>1, <2>4 DEF AcquireGroupMemberId, Unsettled, Commanded
  <2> QED BY <2>2, <2>3, <2>4 DEF CommandStep
<1>3. LinkInv'
  BY <1>1, <1>2, SameLinks DEF TypeInv, connections, Pinged, Waited
<1> QED BY <1>1, <1>3 DEF connections, TypeInv, LinkInv

(* 'connect': a PING goes to this.client, unless that has ended.            *)
LEMMA ReachedKeepsType ==
  ASSUME TypeInv, NEW c \in Clients, Reached(c), UNCHANGED topic
  PROVE  TypeInv'
<1>1. /\ LinkInv /\ link[c] = "connecting" /\ link' = [link EXCEPT ![c] = "connected"]
      /\ UNCHANGED <<_client, times, command, breaks>> /\ reached' = reached \cup {c}
  BY DEF TypeInv, Reached
<1>2. /\ \A d \in Clients : link[d] = "ended" => (Pinged(d)' => Pinged(d))
      /\ pings' \subseteq Clients \X Clients
      /\ connecting' \in [Clients -> {"none", "pending", "resolved", "rejected"}]
  <2>1. CASE Settle({c}, "rejected") /\ UNCHANGED pings
    <3>1. connecting' \in [Clients -> {"none", "pending", "resolved", "rejected"}]
      BY <2>1, Settled
    <3> QED BY <2>1, <3>1 DEF TypeInv, Pinged
  <2>2. CASE /\ ~(_client = None \/ link[_client] = "ended")
             /\ pings' = pings \cup {<<c, _client>>} /\ UNCHANGED connecting
    <3>1. _client \in Clients /\ pings' \subseteq Clients \X Clients
      BY <2>2 DEF TypeInv
    <3>2. \A d \in Clients : link[d] = "ended" => (Pinged(d)' => Pinged(d))
      BY <2>2 DEF Pinged
    <3> QED BY <2>2, <3>1, <3>2 DEF TypeInv
  <2> QED BY <2>1, <2>2 DEF Reached
<1>3. LinkInv'
  <2>1. /\ link' \in [Clients -> Links] /\ times' \in [Clients -> 0..3]
        /\ \A d \in Clients : d # c => link'[d] = link[d] /\ times'[d] = times[d]
        /\ times'[c] # 3 /\ link'[c] # "ended"
    BY <1>1 DEF LinkInv, Links
  <2>2. \A d \in Clients : Waited(d)' => Waited(d)
    BY <1>1 DEF Waited, Unsettled
  <2> QED BY <1>1, <1>2, <2>1, <2>2, Relinked
<1> QED BY <1>1, <1>2, <1>3 DEF TypeInv, LinkInv

LEMMA RelinkKeepsType ==
  ASSUME TypeInv, NEW c \in Clients, Ready(c) \/ Reconnect(c), UNCHANGED topic
  PROVE  TypeInv'
<1>1. /\ LinkInv /\ UNCHANGED <<_client, connecting, reached, pings, command, breaks>>
      /\ link[c] \in {"connected", "waiting"}
      /\ \E v \in {"ready", "connecting"} : link' = [link EXCEPT ![c] = v]
      /\ times' = times \/ times' = [times EXCEPT ![c] = 0]
  BY DEF TypeInv, Ready, Reconnect
<1>2. /\ link' \in [Clients -> Links] /\ times' \in [Clients -> 0..3]
      /\ \A d \in Clients : d # c => link'[d] = link[d] /\ times'[d] = times[d]
      /\ times'[c] # 3 /\ link'[c] # "ended"
  BY <1>1 DEF LinkInv, Links
<1>3. \A d \in Clients : (Pinged(d)' => Pinged(d)) /\ (Waited(d)' => Waited(d))
  BY <1>1 DEF Pinged, Waited, Unsettled
<1>4. LinkInv'
  BY <1>1, <1>2, <1>3, Relinked
<1> QED BY <1>1, <1>4 DEF TypeInv, LinkInv

LEMMA PingRepliesKeepsType ==
  ASSUME TypeInv, NEW c \in Clients, PingReplies(c), UNCHANGED topic
  PROVE  TypeInv'
<1>1. /\ LinkInv /\ UNCHANGED <<_client, link, times, reached, command, breaks>>
      /\ Settle(PingsOn(c), "resolved") /\ pings' \subseteq pings
  BY DEF TypeInv, PingReplies
<1>2. \A d \in Clients : (Pinged(d)' => Pinged(d)) /\ (Waited(d)' => Waited(d))
  BY <1>1 DEF Pinged, Waited, Unsettled
<1>3. LinkInv'
  BY <1>1, <1>2, SameLinks
<1> QED BY <1>1, <1>3, Settled DEF TypeInv, LinkInv

(* A client with attempts left waits; one that gives up leaves nothing.     *)
LEMMA ClosesKeepsType ==
  ASSUME TypeInv, IInv, NEW c \in Clients, Closes(c), UNCHANGED topic
  PROVE  TypeInv'
<1>1. /\ LinkInv /\ link[c] # "ended" /\ UNCHANGED <<_client, reached>>
      /\ times[c] \in 0..2 /\ times' = [times EXCEPT ![c] = times[c] + 1]
  BY DEF TypeInv, Closes, LinkInv
<1>2. breaks' \in 0..MaxBreaks
  BY NatAssumption DEF Closes, TypeInv
<1>3. times' \in [Clients -> 0..3] /\ times'[c] = times[c] + 1
      /\ \A d \in Clients : d # c => times'[d] = times[d]
  BY <1>1 DEF LinkInv
<1>4. CASE /\ retry(times[c] + 1) /\ link' = [link EXCEPT ![c] = "waiting"]
           /\ command' = [x \in Commands |->
                IF Unsettled(x, c) THEN [command[x] EXCEPT !.stage = "queued"] ELSE command[x]]
           /\ UNCHANGED <<connecting, pings>>
  <2>1. /\ link' \in [Clients -> Links] /\ times'[c] # 3 /\ link'[c] # "ended"
        /\ \A d \in Clients : d # c => link'[d] = link[d]
    BY <1>1, <1>3, <1>4 DEF LinkInv, Links, retry
  <2>2. \A x \in Commands, d \in Clients : Unsettled(x, d)' => Unsettled(x, d)
    BY <1>4 DEF Unsettled, IInv, Commanded
  <2>3. \A d \in Clients : (Pinged(d)' => Pinged(d)) /\ (Waited(d)' => Waited(d))
    BY <1>4, <2>2 DEF Pinged, Waited
  <2>4. LinkInv'
    BY <1>1, <1>3, <2>1, <2>3, Relinked
  <2> QED BY <1>1, <1>2, <1>4, <2>4 DEF TypeInv, LinkInv
<1>5. CASE link' = [link EXCEPT ![c] = "ended"] /\ Flush(c)
  <2>1. /\ link' \in [Clients -> Links] /\ link'[c] = "ended"
        /\ \A d \in Clients : d # c => link'[d] = link[d]
    BY <1>1, <1>5 DEF LinkInv, Links
  <2>2. LinkInv'
    BY <1>1, <1>3, <1>5, <2>1, Flushed, Relinked
  <2> QED BY <1>1, <1>2, <1>5, <2>2, Flushed DEF TypeInv, LinkInv
<1> QED BY <1>4, <1>5 DEF Closes

LEMMA NextTypeInv == IInv /\ TypeInv /\ [Next]_vars => TypeInv'
<1> SUFFICES ASSUME IInv, TypeInv, [Next]_vars PROVE TypeInv'
  OBVIOUS
<1>1. CASE Construct \/ \E min \in 0..Max : ConstructGroup(min)
  BY <1>1, ConnectKeepsType DEF Construct, ConstructGroup
<1>2. ASSUME UNCHANGED rcVars,
             topic' \in {topic, "awaiting", "connected", "threw", "crashed"}
      PROVE  TypeInv'
  BY <1>2 DEF TypeInv, LinkInv, rcVars, connections, Pinged, Waited, Unsettled
<1>3. CASE ConnectTopic \/ ConnectResumes \/ Unheard \/ UNCHANGED vars
  BY <1>2, <1>3 DEF ConnectTopic, ConnectResumes, Unheard, vars
<1>4. CASE Running(ConnectAgain) \/ Running(DisconnectTopic)
  BY <1>4, ConnectKeepsType, DisconnectKeepsType DEF Running, ConnectAgain, DisconnectTopic
<1>5. ASSUME NEW x \in Commands, IssueOnChannel(x) \/ ConnectionStep(CommandStep(x))
      PROVE  TypeInv'
  BY <1>5, IssueKeepsType, CommandStepKeepsType DEF IssueOnChannel, ConnectionStep, Running
<1>6. ASSUME NEW c \in Clients, ConnectionStep(ClientStep(c))
      PROVE  TypeInv'
  BY <1>6, ReachedKeepsType, RelinkKeepsType, PingRepliesKeepsType, ClosesKeepsType
  DEF ConnectionStep, Running, ClientStep
<1> QED BY <1>1, <1>3, <1>4, <1>5, <1>6 DEF Next

(* Every variable of a topic and its connection keeps its type, and a       *)
(* client that has given up or was closed leaves no command and no PING     *)
(* waiting for it: all were rejected, and none is issued on it any more.    *)
THEOREM ConnectedTopicTypeOK == Spec => []TypeOK
BY InitIInv, NextIInv, InitTypeInv, NextTypeInv, TypeInvImplies, PTL DEF Spec
=============================================================================
