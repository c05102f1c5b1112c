--------------------------- MODULE RedisConnection ----------------------------
(***************************************************************************)
(* RedisDataSource of @streamerson/core: the life of its connections, and  *)
(* the commands (GET, SET, INCR) that travel on them.                      *)
(*                                                                         *)
(* connect() makes an ioredis client and waits until the client has told   *)
(* of a connection and answered a PING.  The client tries to connect, and  *)
(* to connect again, three times in a row, queues commands while it has no *)
(* connection and sends again those whose reply it lost.  connect() may be *)
(* called again; the new client takes the place of the old, which lives on.*)
(***************************************************************************)
EXTENDS Integers, FiniteSets

CONSTANTS
  MaxClients,  (* calls of connect(): a bound                              *)
  Commands,    (* commands issued                                          *)
  Max,         (* ConsumerGroupConfig.max                                  *)
  MaxBreaks    (* connections broken after they were made: a bound         *)

ASSUME NatAssumption == {MaxClients, Max, MaxBreaks} \subseteq Nat

VARIABLES
  _client,     (* this._client, None when undefined                        *)
  link,        (* the connection of each client                            *)
  times,       (* failed attempts in a row                                 *)
  connecting,  (* the promise that the connect() of each client returned   *)
  reached,     (* history: clients that told of a connection               *)
  pings,       (* <<call, client>>: a call whose PING waits on a client    *)
  command,     (* the commands                                             *)
  counter,     (* the number in Redis that commands increment              *)
  breaks

connections == <<_client, link, times, connecting, reached, pings, breaks>>
rcVars == <<connections, command, counter>>

Clients == 1..MaxClients
None == 0

Links == {"none", "connecting", "connected", "ready", "waiting", "ended", "stopped"}

Init ==
  /\ _client = None
  /\ link = [c \in Clients |-> "none"]
  /\ times = [c \in Clients |-> 0]
  /\ connecting = [c \in Clients |-> "none"]
  /\ reached = {}
  /\ pings = {}
  /\ command = [x \in Commands |-> [stage |-> "idle", on |-> None, number |-> 0]]
  /\ counter = 0
  /\ breaks = 0

-----------------------------------------------------------------------------
(* What ends with a client: its commands and PINGs are rejected. *)

Settle(calls, how) ==
  connecting' = [d \in Clients |->
                   IF d \in calls /\ connecting[d] = "pending" THEN how ELSE connecting[d]]

PingsOn(c) == {d \in Clients : <<d, c>> \in pings}
Unsettled(x, c) == command[x].on = c /\ command[x].stage \in {"queued", "executed"}

(* Mutant: commands are forgotten. *)
FlushPings(c) ==
  /\ Settle(PingsOn(c), "rejected")
  /\ pings' = {q \in pings : q[2] # c}
  /\ UNCHANGED command

Flush(c) ==
  /\ Settle(PingsOn(c), "rejected")
  /\ pings' = {q \in pings : q[2] # c}
  /\ command' = [x \in Commands |->
                   IF Unsettled(x, c) THEN [command[x] EXCEPT !.stage = "failed"] ELSE command[x]]

-----------------------------------------------------------------------------
(* The data source. *)

Connect ==
  \E c \in Clients :
    /\ link[c] = "none" /\ \A d \in 1..(c - 1) : link[d] # "none"
    /\ _client' = c
    /\ link' = [link EXCEPT ![c] = "connecting"]
    /\ connecting' = [connecting EXCEPT ![c] = "pending"]
    /\ UNCHANGED <<times, reached, pings, command, counter, breaks>>

(* A client that waits to connect again has nothing to close: it stops, and *)
(* what it had queued is neither sent nor rejected.                         *)
Disconnect ==
  /\ _client # None
  /\ _client' = None
  /\ IF link[_client] \in {"waiting", "stopped"}
       THEN /\ link' = [link EXCEPT ![_client] = "stopped"]
            /\ UNCHANGED <<connecting, pings, command>>
       ELSE link' = [link EXCEPT ![_client] = "ended"] /\ Flush(_client)
  /\ UNCHANGED <<times, reached, counter, breaks>>

(* get(), set() or incr(): without a client, or with one that has given up, *)
(* the call fails; otherwise the command is sent, or queued to be sent.     *)
Issue(x) ==
  /\ command[x].stage = "idle"
  /\ command' = [command EXCEPT ![x] =
                   IF _client = None \/ link[_client] = "ended"
                     THEN [@ EXCEPT !.stage = "failed"]
                     ELSE [@ EXCEPT !.stage = "queued", !.on = _client]]
  /\ UNCHANGED <<connections, counter>>

(* Mutant: every number is a member. *)
AcquireAnyMemberId(x) ==
  /\ command[x].stage = "replied"
  /\ command' = [command EXCEPT ![x].stage = "member"]
  /\ UNCHANGED <<connections, counter>>

(* acquireGroupMemberId() resumes: the number is the member, if there is room. *)
AcquireGroupMemberId(x) ==
  /\ command[x].stage = "replied"
  /\ command' = [command EXCEPT ![x].stage =
                   IF command[x].number > Max THEN "refused" ELSE "member"]
  /\ UNCHANGED <<connections, counter>>

-----------------------------------------------------------------------------
(* The clients. *)

(* Mutant: the handler has no catch. *)
ReachedUncaught(c) ==
  /\ link[c] = "connecting"
  /\ link' = [link EXCEPT ![c] = "connected"]
  /\ reached' = reached \cup {c}
  /\ pings' = IF _client = None \/ link[_client] = "ended" THEN pings
                ELSE pings \cup {<<c, _client>>}
  /\ UNCHANGED <<_client, times, connecting, command, counter, breaks>>

(* 'connect': the handler of the call that made c pings this.client, which  *)
(* may be another client by now, or gone.                                   *)
Reached(c) ==
  /\ link[c] = "connecting"
  /\ link' = [link EXCEPT ![c] = "connected"]
  /\ reached' = reached \cup {c}
  /\ IF _client = None \/ link[_client] = "ended"
       THEN Settle({c}, "rejected") /\ UNCHANGED pings
       ELSE pings' = pings \cup {<<c, _client>>} /\ UNCHANGED connecting
  /\ UNCHANGED <<_client, times, command, counter, breaks>>

Ready(c) ==
  /\ link[c] = "connected"
  /\ link' = [link EXCEPT ![c] = "ready"]
  /\ times' = [times EXCEPT ![c] = 0]
  /\ UNCHANGED <<_client, connecting, reached, pings, command, counter, breaks>>

PingReplies(c) ==
  /\ link[c] = "ready" /\ PingsOn(c) # {}
  /\ Settle(PingsOn(c), "resolved")
  /\ pings' = {q \in pings : q[2] # c}
  /\ UNCHANGED <<_client, link, times, reached, command, counter, breaks>>

Execute(x) ==
  /\ command[x].stage = "queued" /\ link[command[x].on] = "ready"
  /\ counter' = counter + 1
  /\ command' = [command EXCEPT ![x].stage = "executed", ![x].number = counter + 1]
  /\ UNCHANGED connections

Replies(x) ==
  /\ command[x].stage = "executed"
  /\ command' = [command EXCEPT ![x].stage = "replied"]
  /\ UNCHANGED <<connections, counter>>

retry(n) == n < 3

(* An attempt fails, or a connection breaks: the client waits five seconds  *)
(* and tries again, or gives up.  Commands without a reply are sent again.  *)
Closes(c) ==
  LET n == times[c] + 1
  IN /\ link[c] \in {"connecting", "connected", "ready"}
     /\ IF link[c] = "connecting" THEN UNCHANGED breaks
          ELSE breaks < MaxBreaks /\ breaks' = breaks + 1
     /\ times' = [times EXCEPT ![c] = n]
     /\ IF retry(n)
          THEN /\ link' = [link EXCEPT ![c] = "waiting"]
               /\ command' = [x \in Commands |->
                    IF Unsettled(x, c) THEN [command[x] EXCEPT !.stage = "queued"] ELSE command[x]]
               /\ UNCHANGED <<connecting, pings>>
          ELSE link' = [link EXCEPT ![c] = "ended"] /\ Flush(c)
     /\ UNCHANGED <<_client, reached, counter>>

(* The five seconds pass. *)
Reconnect(c) ==
  /\ link[c] = "waiting"
  /\ link' = [link EXCEPT ![c] = "connecting"]
  /\ UNCHANGED <<_client, times, connecting, reached, pings, command, counter, breaks>>

-----------------------------------------------------------------------------
(* What the clients do by themselves. *)
ClientStep(c) == Reached(c) \/ Ready(c) \/ Closes(c) \/ Reconnect(c) \/ PingReplies(c)
CommandStep(x) == Execute(x) \/ Replies(x) \/ AcquireGroupMemberId(x)

TypeOKConnection ==
  /\ _client \in Clients \cup {None}
  /\ link \in [Clients -> Links]
  /\ times \in [Clients -> 0..3]
  /\ connecting \in [Clients -> {"none", "pending", "resolved", "rejected"}]
  /\ reached \subseteq Clients /\ pings \subseteq Clients \X Clients
  /\ command \in [Commands -> [stage : {"idle", "queued", "executed", "replied", "failed",
                                        "member", "refused"},
                               on : Clients \cup {None}, number : Nat]]
  /\ counter \in Nat /\ breaks \in 0..MaxBreaks
  /\ \A c \in Clients : link[c] = "ended" =>
       PingsOn(c) = {} /\ \A x \in Commands : ~Unsettled(x, c)
=============================================================================
