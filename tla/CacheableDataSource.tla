------------------------- MODULE CacheableDataSource --------------------------
(***************************************************************************)
(* CacheableDataSource and StateCache of @streamerson/state-machine: a     *)
(* cache in each process over keys in Redis.                               *)
(*                                                                         *)
(* The owner of a key writes its cache at once and replicates the write    *)
(* behind its back; a renter writes to Redis and fills its cache when it   *)
(* reads.  Fills and replicated writes travel on cachedChannel, a renter's *)
(* writes on the data source's own client.  Nothing invalidates a cached   *)
(* entry but its time to live: the process's own call passes no message,   *)
(* and the tracking of clients is switched off.                            *)
(***************************************************************************)
EXTENDS Integers, Sequences, FiniteSets

CONSTANTS
  Processes,   (* processes with a StateCache                              *)
  Owners,      (* those whose state configuration is owner and replicated; *)
               (* the others rent                                          *)
  Keys,        (* keys in Redis                                            *)
  Fields,      (* fields of a hash                                         *)
  Index,       (* the field "0" that a string has when taken for a hash    *)
  MaxValue,    (* set() and setHash() write 1..MaxValue                    *)
  MaxWrites,   (* writes: a bound                                          *)
  MaxBreaks    (* disconnects and lost connections: a bound                *)

ASSUME OwnersAssumption == Owners \subseteq Processes
ASSUME FieldsAssumption == Index \in Fields /\ Fields # {Index}
ASSUME BoundsAssumption == {MaxValue, MaxWrites, MaxBreaks} \subseteq 0..49

VARIABLES
  type,     (* what the application keeps under a key; never changes       *)
  redis,    (* the value of each key in Redis                              *)
  cache,    (* this.cache of each process, a function on the keys it has   *)
  counting, (* an owner's incr() and decr() that have read the cache and   *)
            (* not yet written it                                          *)
  sent,     (* cachedChannel: commands on their way to Redis               *)
  replies,  (* cachedChannel: the replies to fills on their way back       *)
  own,      (* the data source's own client: a renter's writes             *)
  link,     (* the connections of each process                             *)
  raced,    (* history: <<process, key>> whose cache may differ from Redis *)
  writes, breaks

vars == <<type, redis, cache, counting, sent, replies, own, link, raced, writes, breaks>>

Strings == {k \in Keys : type[k] = "string"}   (* get, set, incr and decr *)
Hashes  == {k \in Keys : type[k] = "hash"}     (* getHash and setHash     *)

(* A hash maps fields to numbers.  A string is told from another by its     *)
(* number alone, so it is the hash with that number in every field.  The    *)
(* string "caching in progress" is no number when taken for one, and has a  *)
(* field "0" when taken for a hash.  Two numbers no counter reaches:        *)
Absent == -99
NaN == -98
Str(n) == [f \in Fields |-> IF f = Index THEN Absent ELSE n]
Missing == Str(Absent)
Placeholder == [Missing EXCEPT ![Index] = 1]
AsNumber(v) == IF v = Placeholder THEN NaN ELSE v[CHOOSE f \in Fields : f # Index]

Writing == {"set", "incr", "decr", "hset"}
Command == [op : Writing \cup {"get"}, key : Keys, value : [Fields -> Int]]
Cmd(op, k, v) == [op |-> op, key |-> k, value |-> v]
Count == [op : {"incr", "decr"}, key : Keys, value : Int]

Init ==
  /\ type \in [Keys -> {"string", "hash"}]
  /\ redis = [k \in Keys |-> Missing]
  /\ cache = [p \in Processes |-> << >>]
  /\ counting = [p \in Processes |-> <<>>]
  /\ sent = [p \in Processes |-> <<>>]
  /\ replies = [p \in Processes |-> <<>>]
  /\ own = [p \in Processes |-> <<>>]
  /\ link = [p \in Processes |-> {}]
  /\ raced = {}
  /\ writes = 0 /\ breaks = 0

-----------------------------------------------------------------------------
(* The local cache. *)

Has(p, k) == k \in DOMAIN cache[p]
Stored(p, k, v) == [cache EXCEPT ![p] = [j \in DOMAIN @ \cup {k} |-> IF j = k THEN v ELSE @[j]]]
Deleted(p, k) == [cache EXCEPT ![p] = [j \in DOMAIN @ \ {k} |-> @[j]]]

(* invalidateCache(message, key): every call in the code has no message. *)
InvalidateCache(p, message, k) == IF message THEN Deleted(p, k) ELSE cache

(* A command on cachedChannel, or on the data source's own client; without  *)
(* a connection it fails at once.                                           *)
SendOwn(p, c) ==
  own' = IF "client" \in link[p] THEN [own EXCEPT ![p] = Append(@, c)] ELSE own
Send(p, c) ==
  sent' = IF "cachedChannel" \in link[p] THEN [sent EXCEPT ![p] = Append(@, c)] ELSE sent

Pending(p, k, ops) == \E i \in 1..Len(sent[p]) : sent[p][i].op \in ops /\ sent[p][i].key = k
Filling(p, k) ==
  Pending(p, k, {"get"}) \/ \E i \in 1..Len(replies[p]) : replies[p][i].key = k
Replicating(p, k) == Pending(p, k, Writing)

(* Mutant: entries live for ever. *)
ExpireNever(p, k) ==
  /\ Has(p, k) /\ ~Filling(p, k)
  /\ UNCHANGED <<type, redis, cache, counting, sent, replies, own, link, raced, writes, breaks>>

(* Ten minutes pass; no fill takes as long. *)
Expire(p, k) ==
  /\ Has(p, k) /\ ~Filling(p, k)
  /\ cache' = Deleted(p, k)
  /\ UNCHANGED <<type, redis, counting, sent, replies, own, link, raced, writes, breaks>>

(* History: the cache of p and Redis part, or meet again. *)
Race(S) == raced' = raced \cup S
RaceIf(p, k, condition) == Race(IF condition THEN {<<p, k>>} ELSE {})

-----------------------------------------------------------------------------
(* get() and getHash().  A hit returns what is cached, a fill under way     *)
(* included, and changes nothing.                                           *)

Get(p, k) ==
  /\ ~Has(p, k)
  /\ cache' = Stored(p, k, Placeholder)
  /\ Send(p, Cmd("get", k, Missing))
  /\ raced' = IF "cachedChannel" \in link[p] THEN raced \ {<<p, k>>} ELSE raced \cup {<<p, k>>}
  /\ UNCHANGED <<type, redis, counting, replies, own, link, writes, breaks>>

(* Mutant: an empty reply leaves the cache alone. *)
FillReturnsNothing(p) ==
  /\ replies[p] # <<>>
  /\ replies' = [replies EXCEPT ![p] = Tail(@)]
  /\ LET r == Head(replies[p])
     IN cache' = IF r.value = Missing THEN cache ELSE Stored(p, r.key, r.value)
  /\ UNCHANGED <<type, redis, counting, sent, own, link, raced, writes, breaks>>

(* The reply decides the entry, whatever was cached meanwhile.  A missing   *)
(* hash is an empty object, which is cached; a missing string is not.       *)
FillReturns(p) ==
  /\ replies[p] # <<>>
  /\ replies' = [replies EXCEPT ![p] = Tail(@)]
  /\ LET r == Head(replies[p])
     IN cache' = IF r.value = Missing /\ r.key \in Strings
                   THEN Deleted(p, r.key) ELSE Stored(p, r.key, r.value)
  /\ UNCHANGED <<type, redis, counting, sent, own, link, raced, writes, breaks>>

-----------------------------------------------------------------------------
(* Writes. *)

Write == writes < MaxWrites /\ writes' = writes + 1

(* Replication is not awaited.  A fill under way will overwrite the entry. *)
OwnerWrites(p, k, v, c) ==
  /\ cache' = Stored(p, k, v)
  /\ Send(p, c)
  /\ UNCHANGED own

(* The renter's own call of invalidateCache has no message. *)
RenterWrites(p, k, c) ==
  /\ cache' = InvalidateCache(p, FALSE, k)
  /\ SendOwn(p, c)
  /\ UNCHANGED <<sent, raced>>

Unreplicated(p, k) == Filling(p, k) \/ "cachedChannel" \notin link[p]

Set(p, k, n) ==
  /\ Write
  /\ IF p \in Owners
       THEN /\ OwnerWrites(p, k, Str(n), Cmd("set", k, Str(n)))
            /\ raced' = IF Unreplicated(p, k) THEN raced \cup {<<p, k>>} ELSE raced \ {<<p, k>>}
       ELSE RenterWrites(p, k, Cmd("set", k, Str(n)))
  /\ UNCHANGED <<type, redis, counting, replies, link, breaks>>

(* An owner without an entry starts from nothing, Redis from what it has. *)
FromNothing(p, k) == ~Has(p, k) /\ (redis[k] # Missing \/ Replicating(p, k))

Counted(n, op) ==
  CASE n = NaN -> NaN
    [] n = Absent -> IF op = "incr" THEN 1 ELSE -1
    [] OTHER -> IF op = "incr" THEN n + 1 ELSE n - 1

(* A renter's counter.  An owner reads its cache and awaits what it read,   *)
(* CountWritten stands for the rest.                                        *)
Read(p, k) == IF Has(p, k) THEN AsNumber(cache[p][k]) ELSE 0

IncrOrDecr(p, k, op) ==
  /\ Write
  /\ IF p \in Owners
       THEN /\ counting' = [counting EXCEPT ![p] = Append(@, [op |-> op, key |-> k, value |-> Read(p, k)])]
            /\ UNCHANGED <<cache, sent, own, raced>>
       ELSE RenterWrites(p, k, Cmd(op, k, Missing)) /\ UNCHANGED counting
  /\ UNCHANGED <<type, redis, replies, link, breaks>>

(* The entry is not what it was when it was read. *)
Outdated(p, c) == Read(p, c.key) # c.value

(* The awaits end in the order they began, with anything in between.        *)
CountWritten(p) ==
  /\ counting[p] # <<>>
  /\ counting' = [counting EXCEPT ![p] = Tail(@)]
  /\ LET c == Head(counting[p])
     IN /\ OwnerWrites(p, c.key, Str(Counted(c.value, c.op)), Cmd(c.op, c.key, Missing))
        /\ RaceIf(p, c.key, Unreplicated(p, c.key) \/ FromNothing(p, c.key) \/ Outdated(p, c))
  /\ UNCHANGED <<type, redis, replies, link, writes, breaks>>

(* Object.assign() changes the cached object itself, a renter's too; the    *)
(* whole record is sent, not the field.                                     *)
SetHash(p, k, f, n) ==
  LET hashCurrent == IF Has(p, k) THEN cache[p][k] ELSE Missing
      assigned == [hashCurrent EXCEPT ![f] = n]
      c == Cmd("hset", k, assigned)
      aliased == Has(p, k) /\ hashCurrent # Placeholder
  IN /\ Write
     /\ IF p \in Owners
          THEN /\ OwnerWrites(p, k, assigned, c)
               /\ RaceIf(p, k, Unreplicated(p, k) \/ FromNothing(p, k))
          ELSE /\ cache' = IF aliased THEN Stored(p, k, assigned) ELSE cache
               /\ SendOwn(p, c)
               /\ RaceIf(p, k, aliased)
               /\ UNCHANGED sent
     /\ UNCHANGED <<type, redis, counting, replies, link, breaks>>

-----------------------------------------------------------------------------
(* Redis. *)

Applied(v, c) ==
  CASE c.op = "set"  -> c.value
    [] c.op = "incr" -> Str(Counted(AsNumber(v), "incr"))
    [] c.op = "decr" -> Str(Counted(AsNumber(v), "decr"))
    [] c.op = "hset" -> [f \in Fields |-> IF c.value[f] # Absent THEN c.value[f] ELSE v[f]]
    [] OTHER -> v

(* A write is missed by a process that has, or has fetched, the key. *)
Missed(q, k) == Has(q, k) /\ ~Pending(q, k, {"get"})
MissedBy(Q, k) == {<<q, k>> : q \in {q \in Q : Missed(q, k)}}

ExecuteCached(p) ==
  /\ sent[p] # <<>>
  /\ LET c == Head(sent[p])
     IN /\ redis' = [redis EXCEPT ![c.key] = Applied(@, c)]
        /\ replies' = IF c.op = "get"
                        THEN [replies EXCEPT ![p] = Append(@, [key |-> c.key, value |-> redis[c.key]])]
                        ELSE replies
        /\ Race(IF c.op = "get" THEN {} ELSE MissedBy(Processes \ {p}, c.key))
  /\ sent' = [sent EXCEPT ![p] = Tail(@)]
  /\ UNCHANGED <<type, cache, counting, own, link, writes, breaks>>

ExecuteOwn(p) ==
  /\ own[p] # <<>>
  /\ LET c == Head(own[p])
     IN /\ redis' = [redis EXCEPT ![c.key] = Applied(@, c)]
        /\ Race(MissedBy(Processes, c.key))
  /\ own' = [own EXCEPT ![p] = Tail(@)]
  /\ UNCHANGED <<type, cache, counting, sent, replies, link, writes, breaks>>

-----------------------------------------------------------------------------
(* The connections of a process.  StateCache.connect() opens cachedChannel, *)
(* waits a second, and opens the client.                                    *)

BeginCacheListener(p) ==
  /\ "cachedChannel" \notin link[p]
  /\ link' = [link EXCEPT ![p] = @ \cup {"cachedChannel"}]
  /\ UNCHANGED <<type, redis, cache, counting, sent, replies, own, raced, writes, breaks>>

Connect(p) ==
  /\ "cachedChannel" \in link[p] /\ "client" \notin link[p]
  /\ link' = [link EXCEPT ![p] = @ \cup {"client"}]
  /\ UNCHANGED <<type, redis, cache, counting, sent, replies, own, raced, writes, breaks>>

Break == breaks < MaxBreaks /\ breaks' = breaks + 1

(* Mutant: commands under way outlive their connection. *)
EndAndResend(p) ==
  /\ Break
  /\ "cachedChannel" \in link[p]
  /\ link' = [link EXCEPT ![p] = @ \ {"cachedChannel"}]
  /\ UNCHANGED <<type, redis, cache, counting, sent, replies, own, raced, writes>>

(* disconnect(), or the connection ends: what is under way fails, and a     *)
(* fill leaves its placeholder behind.  disconnect() throws before it comes *)
(* to the client, which stays connected.                                    *)
EndCacheListener(p) ==
  /\ Break
  /\ "cachedChannel" \in link[p]
  /\ link' = [link EXCEPT ![p] = @ \ {"cachedChannel"}]
  /\ sent' = [sent EXCEPT ![p] = <<>>]
  /\ replies' = [replies EXCEPT ![p] = <<>>]
  /\ Race({<<p, k>> : k \in {k \in Keys : Filling(p, k) \/ Replicating(p, k)}})
  /\ UNCHANGED <<type, redis, cache, counting, own, writes>>

(* The client's connection ends, and with it a renter's writes. *)
ClientEnds(p) ==
  /\ Break
  /\ "client" \in link[p]
  /\ link' = [link EXCEPT ![p] = @ \ {"client"}]
  /\ own' = [own EXCEPT ![p] = <<>>]
  /\ UNCHANGED <<type, redis, cache, counting, sent, replies, raced, writes>>

-----------------------------------------------------------------------------
Next ==
  \E p \in Processes :
    \/ BeginCacheListener(p) \/ Connect(p)
    \/ EndCacheListener(p) \/ ClientEnds(p)
    \/ FillReturns(p) \/ ExecuteCached(p) \/ ExecuteOwn(p) \/ CountWritten(p)
    \/ \E k \in Keys : Get(p, k) \/ Expire(p, k)
    \/ \E k \in Strings :
         \/ \E n \in 1..MaxValue : Set(p, k, n)
         \/ \E op \in {"incr", "decr"} : IncrOrDecr(p, k, op)
    \/ \E k \in Hashes, f \in Fields \ {Index}, n \in 1..MaxValue : SetHash(p, k, f, n)

(* Redis answers, an await ends and entries live for ten minutes.  Nobody   *)
(* has to read, to write, to connect or to stay connected.                  *)
Fairness ==
  \A p \in Processes :
    /\ WF_vars(CountWritten(p))
    /\ WF_vars(FillReturns(p)) /\ WF_vars(ExecuteCached(p)) /\ WF_vars(ExecuteOwn(p))
    /\ \A k \in Keys : WF_vars(Expire(p, k))

SafetySpec == Init /\ [][Next]_vars
Spec == SafetySpec /\ Fairness

-----------------------------------------------------------------------------
Value == [Fields -> Int]

TypeOK ==
  /\ type \in [Keys -> {"string", "hash"}]
  /\ redis \in [Keys -> Value]
  /\ \A p \in Processes :
       /\ DOMAIN cache[p] \subseteq Keys
       /\ \A k \in DOMAIN cache[p] : cache[p][k] \in Value
       /\ sent[p] \in Seq(Command) /\ own[p] \in Seq(Command)
       /\ counting[p] \in Seq(Count)
       /\ replies[p] \in Seq([key : Keys, value : Value])
       /\ "cachedChannel" \notin link[p] => sent[p] = <<>> /\ replies[p] = <<>>
       /\ "client" \notin link[p] => own[p] = <<>>
  /\ link \in [Processes -> SUBSET {"cachedChannel", "client"}]
  /\ raced \subseteq Processes \X Keys
  /\ writes \in 0..MaxWrites /\ breaks \in 0..MaxBreaks

Agrees(p, k) == Has(p, k) => cache[p][k] = redis[k]

(* Once a process has no command under way for a key, its entry is the      *)
(* value in Redis, unless one of these came in between: an owner's write    *)
(* during a fill or with no entry to start from, an owner's incr() or       *)
(* decr() whose entry changed while it awaited what it had read, a write by *)
(* another process, a renter's own write, or a lost connection.             *)
AgreeUnlessRaced ==
  \A p \in Processes, k \in Keys :
    Filling(p, k) \/ Replicating(p, k) \/ <<p, k>> \in raced \/ Agrees(p, k)

(* Races wear off: when the writes have come to an end, every entry of a    *)
(* process whose cachedChannel stays connected comes to be what Redis       *)
(* holds, or a fill under way: the data is eventually consistent.           *)
EventuallyAgree ==
  \A p \in Processes :
    <>[]("cachedChannel" \in link[p]) => <>[](\A k \in Keys : Agrees(p, k) \/ Filling(p, k))
=============================================================================
