# Streamerson, specified in TLA+

Streamerson is a set of TypeScript packages that put Redis Streams between the
HTTP or WebSocket front-ends of a system and the services behind them. This
directory holds TLA+ modules of its core, configurations that check them
with TLC, and proofs checked by TLAPS.

Contents: [the system](#1-the-system) ·
[modules and code](#2-modules-and-the-code-they-model) ·
[what the runs show](#3-what-the-runs-check-and-show) ·
[fairness](#4-fairness) · [proofs](#5-what-is-proved) ·
[where code and documentation disagree](#6-where-the-code-and-its-documentation-disagree) ·
[limits](#7-what-is-not-modelled) · [plan](#8-plan)

To check everything by hand, in this directory:

    tlc -workers 2 -config awaiter_calls.cfg MCStreamAwaiter    # any run of section 3
    tlapm StreamAwaiterProofs.tla                               # any proof module

## 1. The system

A request enters at a gateway, which draws a message id, writes the request to
an outgoing stream with XADD and waits. A consumer reads that stream with a
blocking XREAD, runs the handler of the message's type, and writes the result
to a response stream under the same message id. The gateway's reader of the
response stream settles the promise that waits for the id.

| component (under `src/packages/`) | state it keeps | operations | interacts with | what is hard | what makes it correct |
|---|---|---|---|---|---|
| Deferral tracker `core/src/deferral/deferred-promise-tracker.ts` | the table id → {promise, resolve, reject, timeout} | promise, responseEvent, errorEvent, cancel, cancelAll, delete, two kinds of timer | stream awaiter, gateways | a record outlives its entry; timers delete by id; an unhandled rejection ends the process | every promise settles; a response finds the call that waits |
| Stream awaiter `core/src/deferral/stream-awaiter.ts` | the `dispatch()` calls under way | dispatch, readResponseStream | tracker, a write channel, a read channel | the response overtakes the XADD's reply; duplicates; late answers; a timeout during the XADD | one outcome per call, an answer only if there was one; every call concludes |
| Streaming data source `core/src/datasource/streamable.ts` | streamIdMap, keyEvents, a generator per reader | getReadStream, addStreamId, removeStreamId, abort, getWriteStream, writeToStream, group reads, XACK | Redis, consumer, awaiter | a change of the set races a blocking read; shared connection; relative cursor `$` | no entry skipped or repeated; a reader keeps reading |
| Redis connection `core/src/datasource/base/remote.ts`, `core/src/utils/connectedTopic.ts` | the client, its connection, the commands it has queued | connect, the PING, retry, reconnect, disconnect, GET/SET/INCR | data sources | retries; a reply lost after its command was executed; a client replaced while calls wait | a caller learns of failure; ids handed out differ |
| Stream consumer `consumer/src/stream-consumer.ts` | streamEvents, streams piped together | connectAndListen, setOutgoingChannel, process, (de)registerStreamEvent, addStream, removeStream, produceMessage, disconnect | data source, handlers | three buffers in a row, each pausing the one before; handlers that throw or return nothing | order, bounded buffers, every message answered |
| Consumer group `consumer-group/src/*.ts` | member ids, pending entries (in Redis) | create group and members, process and acknowledge | consumer, data source | crash of a member; when to acknowledge; XACK behind a blocking read | at-least-once |
| Cache and replication `state-machine/src/datasources/cacheable.ts`, `state-cache.ts` | a local cache over keys in Redis; fills and writes under way | get, set, incr, hash operations, fill, expire, disconnect | data source | a fill under way against a newer write; read-change-write; connections lost with writes on them | an entry with nothing under way is what Redis holds; caches and Redis agree in the end |
| Fastify gateway `gateway-fastify/src/stream-plugin.ts` | awaiters on one channel | register a route, dispatch, reply | awaiter, Fastify | several readers on one response stream | each request gets its own reply |
| WebSocket gateway `gateway-wss/src/wssapi.ts` | a Writable and a read stream per route, the shared promise `drained` | on message, drain, publish | data source | reads and writes on one connection; one `drained` for all routes | order per route, no message left waiting |
| State emitter `emitter/emitter.ts` | an object and its listeners | update, set, get, on | subscribers | re-entrancy, a subscriber that throws | who listens knows the state |
| Topics and keys `core/src/utils/{topic,keys,streamConfiguration}.ts` | none | names of streams and shards | all | the two sides must agree on names | distinct topics, distinct keys |

The hazards of this code, each at its line and with the property that would
catch it, are listed in `PROJECT.json` under `hazards`.

## 2. Modules and the code they model

    RequestReply           abstract: a call has one, final outcome
      ^ implements           ^ implements
    StreamAwaiter          HttpGateway         routes over one response stream
      | EXTENDS              | EXTENDS           | EXTENDS
    DeferralTracker        StreamReader        Topics
                           readers, one        the key scheme
                           connection

    StreamConsumer         the pipeline from the incoming to the outgoing stream
    WorkQueue              abstract: an item is taken once, by one worker, for good
      ^ implements
    ConsumerGroup          members that share a stream, and their crashes
    ConnectedTopic  --EXTENDS-->  RedisConnection   clients, retries, commands
    CacheableDataSource    caches of several processes over keys in Redis
    WssGateway             routes of a WebSocket server
    StateEmitter           a tree of values and its subscribers

**DeferralTracker.** A record of the table is an object that its timer and its
caller still hold after the entry is gone, so `heap` holds the objects and
`promises` the table that points at them. A record is *deferred* (made by
`promise()`, its timer rejects it) or *early* (made by a response or an error
that nobody has asked for; born settled, its timer deletes the entry of its id,
whichever record is there by then). `loose` holds the records with a promise that
has no rejection handler yet: no `unhandledRejection` handler is installed
anywhere in the packages, so a loose rejected promise ends the process
(`Crashed`), after which nothing happens. One action per method; `TimerFires`
is both `setTimeout` callbacks. Two callers of `promise()` with one id share a
record, and `Await` is taken to attach the handlers of both.

**StreamAwaiter** extends it with the stages of each `dispatch()`: promise
taken and XADD under way (`writing`), reply of the XADD seen and promise awaited
(`awaiting`), `returned` or `threw`. The two channels are separate connections,
so a response may come before the reply to its own XADD (`ResponseArrives`
needs `executed`, not `awaiting`), up to `MaxResponses` times, and at any time
after. A message id is a fresh uuid: a call *is* its id.

**RequestReply** says what a caller may rely on, without promises, timers or
streams: a call is pending, then answered or failed for good, and answered only
if it was replied to. `StreamAwaiter` implements it with `outcome` and `replied`
as the refinement mapping; so does `HttpGateway`, with `call` for the outcome.

**StreamReader** models the generator `iterateStream()` step by step (head of
the loop, blocked in XREAD, interrupted, yielding), the emitter through which
`addStreamId`, `removeStreamId` and `abort` reach it, and the connection: the
XREADs of all readers wait in `conn`, and Redis serves the first one alone until
it is answered or times out. `$` is resolved when the server *starts* the XREAD.
An entry is `"ok"` or `"bad"`: the latter is one whose JSON does not parse, which
makes `blockingStreamBatchMap` throw with its whole batch.

**Topics** holds the key scheme as operators on sequences of tokens (a name may
itself contain the separators): `Topic`, `subtopic`, the producer and consumer
key, and where the consumer and the awaiter apply a shard. It has no state, and
is what theorems say which parts meet on which stream.

**HttpGateway** is one route of the Fastify plugin over `StreamReader`.
Registering the n-th route makes the plugin start readers again for every route
there is: `Register` aborts and creates the reader of the first route, on a
connection that still has the XREADs of its earlier readers. A call waits, is
answered by whichever reader gets a response of its id, or times out; a worker,
with a handler for the route's type or for `resp`, takes requests from the
stream whose key `Topics` gives and writes responses; other gateways' responses
(`AnotherIsAnswered`) come on the same stream. What a request looks like on
the wire (its `messageType`) is decided by `writeToStream`. The connection of the
route does not break here (`GatewayNext` leaves out `StreamReader`'s
`ConnectionLost`): on a break that the client gives up on, the newest reader fails
too, and the route has none. A call is `Attended` once the newest reader has a
position, or while its XREAD from `$` is being executed; a response written between
two such XREADs is lost, and nothing is claimed of it.

**StreamConsumer** models what `pipe()` makes of `connectAndListen()`: a read
stream that reads one entry ahead while paused, a `Transform` with its two
buffers, and a `Writable`. Node's object streams are external and modelled as
this code uses them (see the module's header). A chunk is its position on the
incoming stream. What a handler does (returns a value, returns nothing,
throws) is chosen at each message, and so is whether there is one. A message's
type only matters when `process()` looks its handler up, so it is chosen there.
`ConnectAndListen`, `SetOutgoingChannel` and `Disconnect` may come in any order:
`connected` is the set of channels that have a client, `outgoingStream` the
channel that the write stream was made for, which `setOutgoingChannel` does not
change; `limit` is where a disconnected channel stopped reading, and `crashed`
that a rejection nobody awaits has ended the process.

**ConsumerGroup** models the server's side of a group (`delivered`, `pending`,
`acked`) and each member's process with the connection of its incoming channel.
An XACK is sent without waiting for its reply and queues in `conn` behind the
XREADGROUP that the generator has already issued; the response goes out on
another connection, before or after. `Crash` ends a process at any moment, and
Redis drops what it has not executed; `ConnectAndListen` starts it again under the
same id. `Create` does nothing when Redis refuses (no stream yet, or a group
already), because the code passes `resolve` as the callback. `configured` says
whether the options a member was given carry a `consumerGroupInstanceConfig` of
their own (section 6). Redis executes an XREADGROUP (`Deliver`) before the member has
the reply (`Receive`); the connection may break in between, and ioredis, as the code
configures it, connects again and sends what has no reply, which for `>` asks for what
comes *next*: the entries of the reply that went astray (`lost`) stay pending for a
member that lives and never holds them (`ReplyLost`). A break that is under no such
reply changes nothing, since what Redis has not executed is sent again and an XACK
executed twice finds nothing.

**WorkQueue** says what a group promises, without connections, cursors, pending lists
or buffers: items are taken in order, each by one worker and for good; a worker starts
and finishes what it has in order, one at a time; an item is closed only when
finished; when a worker ends, what it has open is lost (`Lose`), and one that goes on may
miss what it took last, before it starts any of it (`Miss`). `ConsumerGroup` implements it
with `status` and `pending` as the refinement mapping.

**RedisConnection** has the clients that calls of `connect()` made: each with its
`link` to the server, its failed attempts in a row (`times`) and the promise
its `connect()` returned. `connect()` resolves when its PING is answered; a call
finds the client that is current *when the client tells of a connection*, so
`pings` are pairs of call and client. `command` has the commands with the stages
an ioredis client takes them through: queued while offline, executed by Redis,
replied; a connection that breaks sends again what is not replied, executed or
not. What the client does by itself is ioredis's, external, as the code configures it.

**ConnectedTopic** adds the topic, whose constructor connects and keeps the
promise, and the group's topic, which looks at its options only after that.

**CacheableDataSource** models the caches of processes that own or rent keys. An
owner changes its cache at once and replicates behind its back; fills and
replicated writes share one connection (`sent`, `replies`), a renter's writes go
by its `own` client. `incr()` and `decr()` of an owner await between reading the cache
and writing it (`counting`): `IncrOrDecr` reads, `CountWritten` writes, with anything
in between. Values are functions of fields: a string has its number in every field but
`Index`, a hash may have one in each. `raced` is history: the caches that one of six named
races has touched and no fill or later write since repaired.

**WssGateway** models `streamRoute()`: messages of sockets, an optional
`onMessage` that is awaited, `drained` (the promise all routes of a server
share), each route's Writable, and its connection, on which XADDs wait behind
the blocking XREAD of the *same* key. A message may parse to `0`, `false` or `''`
(`falsy`): `_write` then returns without an XADD and without calling back, so that the
route's Writable never takes another chunk (`Started`, `Stopped`). Left out are messages
that are no JSON and the message `null`, both of which throw in the socket's handler
before anything is written.

**StateEmitter** models `update()`, `set()` and `emitChanges()`. An object is a
function from some of `Names` to trees that are less deep, down to `Primitives`,
which include arrays, null and `Undefined`; `DeepMerge` recurs as `deepMerge` does, and
`ChangedPaths` says by a condition on paths what `getChangedPaths` collects. The code
holds a path as text: keys joined with dots, `currentPath` being left out while it is
falsy, so that a key `''` on the way leaves no trace (`Text`). `get()` splits the text
again, by `split`, and takes `*` for the whole state. A key with a dot, a `''` above
others, or a leading `*` is therefore read somewhere else than where the change was; the
paths whose text reads back are `Readable`, and include all of keys without dots other
than `''` and `*`.

`stack` holds the `emitChanges()` calls under way, since a subscriber may call `update()`
itself; a subscriber may throw, through any number of them. Two subscribers suffice to
show what the order of subscription does. `known` is what the first has made of
the changes it was told: the values below the text of an event replace what it
knew there; a value that is undefined tells it nothing. `heard` has the paths whose
present value the second was told at some time since it is what it is, which says
nothing of what it was told afterwards: it may hear an older value last.

Definitions and the lines they stand for are listed in `PROJECT.json`, `map`.
Each module's mutants (marked *Mutant* in comments) are plausible errors in
the code; each property is violated by one of them.

## 3. What the runs check and show

| run | instance | checks | shows |
|---|---|---|---|
| `tracker_api` | 2 ids, 3 objects, any order of calls | `NeverHangs`, `EveryPromiseSettles` | no sequence of calls on the table leaves a promise that nothing will settle |
| `awaiter_calls` | 2 calls, 4 objects, 2 responses per call | `TypeOK`, `IInv`, `Reachable`, `OnlyUnwrittenCallsCrash`, `ImplementsRequestReply`, `EveryCallConcludes` | responses reach their call and only that; one outcome per call; every caller concludes; only a call still being written can end the process |
| `readers` | 2 streams, 2 entries each, batches of 1; 1 reader with good and malformed entries, 1 change, 1 lost connection; or 2 readers on one connection, with a silent stream and none of these | `NoGaps`, `KeepsReading` | a reader that has a position neither skips nor repeats an entry, whatever interrupts it, and goes on until it ends, delayed but not starved by a reader that shares its connection |
| `consumer_pipeline` | 7 messages, as many as all buffers (1 + 3 x 2) hold together, 2 types, 1 of them handled, every handler outcome, with and without an outgoing stream, 1 switch of handlers or of the outgoing channel, disconnect, highWaterMark 2 | `TypeOK`, `NothingLostOrReordered`, `PushesBack`, `PausedForAReason`, `EveryMessageAnswered` | no pause, drain or withheld callback loses, repeats, overtakes or blocks, also when every stage pushes back at once |
| `group_members` | 2 members, 2 entries, 1 crash, 1 lost reply, members configured or not, handlers that answer, return nothing, throw or are missing | `TypeOK`, `HandledAtMostOnce`, `AckedIsProcessed`, `PendingIsHeld`, `ImplementsWorkQueue`, `EveryDeliveryConcludes` | nothing is handled twice, across members, a restart or an XREADGROUP sent again; nothing is acknowledged before it has a result; what is pending for a living process is in it or was in a reply it lost; a group is a work queue; the XACK behind a blocking read goes through |
| `group_recovery` | 1 member, restarted, 2 entries, 1 crash | `RecoversFromCrash` **violated** | section 6, 1 |
| `cache` | an owner and a renter, 1 key, string or hash of 2 fields besides the index, 2 values, 2 writes, 1 lost connection or disconnect | `TypeOK`, `AgreeUnlessRaced`, `EventuallyAgree` | a cache entry with nothing under way is what Redis holds, unless one of six named races came in between; when writing stops, every cache that stays connected comes to agree with Redis, whatever raced |
| `connection` | 2 clients, 2 commands, max 2, 2 broken connections | `TypeOK`, `MemberIdsDiffer`, `EveryCommandSettles`, `ConnectSettlesOnceReached` | members get different ids although INCRs are sent again; commands settle, and so does every connect() whose server was reached once |
| `gateway_http` | 3 routes, 2 calls, 3 responses of which 1 to someone else, a worker with or without the route's handler | `GatewayTypeOK` (with the reader's `TypeOK`), `NewestReaderLives`, `OneXreadPerReader`, `AttendedIsAnswered`, `ImplementsRequestReply` | a route always has one reader that lives; a response written once that one reads reaches its call; a call has one outcome |
| `gateway_types` | the same | `RequestsTriggerTheirEvent` **violated** | section 6, 2 |
| `gateway_ws` | 2 routes, highWaterMark 1, 3 messages of which 1 may be falsy, 1 entry of another producer, 1 failing XADD | `DrainIsOwed`, `InOrder`, `EveryMessageWritten` | the promise shared between routes strands no message, except behind a Writable that a falsy payload has stopped, and overtakes none; XADDs get through behind blocking reads |
| `emitter` | the keys `''`, `*`, `user`, `name` and `user.name`, trees 2 deep, 4 partial states (overwriting a value by an object and the reverse, keys that read as something else, a key set to undefined), 3 updates from outside or from subscribers, throws | `UpdateIsPathwise`, `FirstKnowsTheState`, `SecondHearsTheState` | an update changes what it names and nothing else; who listens to the events knows the state at every path whose text reads back, once they are all out |

*Why the bounds are enough.* The tracker's hazards need an early and a deferred
record under one id and a second id to show that entries do not mix. A duplicate
response is the second one. A reader's hazards are a switch from one stream to
two, a timeout between two batches, and a reply to an XREAD that was given up:
two streams, two entries and one change reach them all. That readers delay one another
takes two and a stream on which nothing comes. A pipeline needs each
buffer full at once; `highWaterMark` is 16 in Node and 2 here, the smallest value
at which a buffer can be neither empty nor full. A group's hazards need an
entry that is handled while another is delivered, to the same member or to the other,
and one crash or one lost reply; two entries reach that, and a Transform that takes one
chunk at a time leaves the second of a batch in the generator. A cache's races are
between two writes of different values, two `incr()`s that await at once, or a write and
a fill. A
connection's hazards need a client replaced by a second one and a break before
and after a reconnection. With three routes the first has had two readers taken
from it, so that an abandoned XREAD stands behind another; the readers it
leaves take turns on the connection. Two routes share
`drained`; with a mark of one, one message fills a route, the second is held back, and
the third comes to another route or while the second is written. The emitter needs an update by a subscriber inside one
by a subscriber, and an object below an object, so that a path can lie under, over
or beside another.

Deadlock is checked in `cache`, which never stops. It is not checked in the other
runs: a behaviour may stop when every bound is used up, the process has ended,
or (in a consumer) the pipeline is stuck, and what must not stop is stated as a
liveness property.

## 4. Fairness

Only what Node and Redis promise. *Node* runs timers that are due, continuations
of settled promises, and stream callbacks that are ready. *Redis* executes the
commands of a connection in order and answers a blocking XREAD at its BLOCK
timeout at the latest. All of it is weak fairness.

| module | fair | not fair |
|---|---|---|
| `DeferralTracker`, `StreamAwaiter` | timers, continuations | XADDs, responses: `dispatch()` must cope with their loss |
| `StreamReader` | steps of a generator, start and reply or timeout of an XREAD | writers, changes of the set of streams, lost connections |
| `StreamConsumer` | `ConnectAndListen`, each stream's steps, handlers settle, XADD returns or fails | `Disconnect`, `SetOutgoingChannel`, changes of handlers |
| `ConsumerGroup` | a member's steps, the server executing the next command (an XREADGROUP delays it, by half an hour by default), a reply arrives unless its connection breaks | crashes; lost replies; restarts, but for `RestartSpec`, under which `group_recovery` would otherwise be worthless |
| `ConnectedTopic` | an attempt to connect ends, timers fire, a connected server answers or the connection breaks, awaits resume | `connect()`, `disconnect()`, commands being issued |
| `HttpGateway` | the readers and Redis | timers of calls, workers: a response is promised to no one |
| `WssGateway` | `onMessage` returns, the generator reads, Redis executes or refuses | messages, other producers |
| `CacheableDataSource` | Redis answers, an await ends, an entry expires after ten minutes | reading, writing, connecting, staying connected: `EventuallyAgree` speaks of processes whose `cachedChannel` stays connected |
| `StateEmitter` | nothing: its properties are safety | |

That a handler and an `onMessage` settle is an assumption on user code; one that
never does stops its consumer or holds its message.

## 5. What is proved

TLAPS proves these for any values of the constants. The assumptions on them are
those that TLC evaluates in the runs: bounds are natural numbers, marks are
positive, "no record" is not a record and "none" not a route, tokens include the
separators, there is a stream to read (`StreamsExist`), entries can be well-formed,
as workers write them (`KindAssumption`), a response to someone else is to no call
of this gateway (`ForeignAssumption`), what handlers do is one of three things
(`ChoicesAssumption`), a hash has a field besides the one that
stands for a string (`FieldsAssumption`), and, in `StateEmitter`, `''` and `*` are keys and a key splits into at least one
(`KeysAssumption`), no object is a primitive
(`PrimitivesAssumption`) and the initial state and what `update()` and `set()` are given
are trees (`ObjectsAssumption`: with no cycle, on which `deepMerge` throws, and of a
depth that is bounded).

The readers' three theorems are about `Spec` of `StreamReader`; they stand in
`HttpGatewayProofs` because the gateway's build on their lemmas, and cite no assumption
of `HttpGateway`.

| theorem | says |
|---|---|
| `StreamAwaiterProofs!TrackerSafety` | `TrackerSpec => [](TrackerTypeOK /\ NeverHangs)` |
| `StreamAwaiterProofs!TypeCorrect` | `SafetySpec => []TypeOK` |
| `StreamAwaiterProofs!Inductive` | `SafetySpec => []IInv` |
| `StreamAwaiterProofs!ResponsesReachTheirCall` | `SafetySpec => []Reachable` |
| `StreamAwaiterProofs!WrittenCallsNeverCrash` | `SafetySpec => []OnlyUnwrittenCallsCrash` |
| `StreamAwaiterProofs!Implements` | `SafetySpec => ImplementsRequestReply` |
| `HttpGatewayProofs!ReaderTypeOK` | `Spec => []TypeOK` |
| `HttpGatewayProofs!ReaderNoGaps` | `Spec => []NoGaps` |
| `HttpGatewayProofs!ReaderOneXread` | `Spec => []OneXreadPerReader` |
| `HttpGatewayProofs!RouteTypeOK` | `GatewaySpec => []GatewayTypeOK` |
| `HttpGatewayProofs!RouteOneXread` | `GatewaySpec => []OneXreadPerReader` |
| `HttpGatewayProofs!RouteIsServed` | `GatewaySpec => []NewestReaderLives` |
| `HttpGatewayProofs!RouteImplements` | `GatewaySpec => ImplementsRequestReply` |
| `HttpGatewayProofs!DirectionsDiffer` | the two keys of a topic are different streams |
| `HttpGatewayProofs!UnshardedMeet` | without a shard, consumer and awaiter meet in both directions |
| `HttpGatewayProofs!ShardedMiss` | with one, they miss each other in both |
| `StreamConsumerProofs!ConsumerTypeOK` | `Spec => []TypeOK` |
| `StreamConsumerProofs!PipelineKeepsOrder` | `Spec => []NothingLostOrReordered` |
| `StreamConsumerProofs!PipelineIsBounded` | `Spec => []PushesBack` |
| `StreamConsumerProofs!PausesEnd` | `Spec => []PausedForAReason` |
| `ConsumerGroupProofs!GroupTypeOK` | `SafetySpec => []TypeOK` |
| `ConsumerGroupProofs!GroupHandlesOnce` | `SafetySpec => []HandledAtMostOnce` |
| `ConsumerGroupProofs!GroupAcksWhatIsProcessed` | `SafetySpec => []AckedIsProcessed` |
| `ConsumerGroupProofs!GroupHoldsWhatIsPending` | `SafetySpec => []PendingIsHeld` |
| `ConsumerGroupProofs!GroupIsRecorded` | `SafetySpec => []WInv` |
| `ConsumerGroupProofs!GroupIsAWorkQueue` | `SafetySpec => ImplementsWorkQueue` |
| `ConnectedTopicProofs!ConnectedTopicTypeOK` | `Spec => []TypeOK` |
| `ConnectedTopicProofs!MembersGetTheirOwnId` | `Spec => []MemberIdsDiffer` |
| `CacheableDataSourceProofs!CacheTypeOK` | `Spec => []TypeOK` |
| `CacheableDataSourceProofs!CacheAgrees` | `Spec => []AgreeUnlessRaced` |
| `WssGatewayProofs!WsDrainIsOwed` | `Spec => []DrainIsOwed` |
| `WssGatewayProofs!WsInOrder` | `Spec => []InOrder` |
| `StateEmitterProofs!EmitterUpdate` | `Spec => UpdateIsPathwise` |
| `StateEmitterProofs!EmitterFirstKnows` | `Spec => []FirstKnowsTheState` |
| `StateEmitterProofs!EmitterSecondHears` | `Spec => []SecondHearsTheState` |

**The awaiter.** `Reachable` (the record of a pending call is the one the table has
under its id) is not inductive. An early record's timer deletes *by id*, so
nothing in `Reachable` itself says that the entry it deletes is not a live call's.
It is not because an early record can only be made under an id whose call is
over or whose promise has settled (`EarlyComesLate`); that holds since responses
come only for requests that were sent (`SentIsExpected`) and a call takes its
promise before it sends; and a call that finds no entry under its id makes a record
of its own since nothing was there before (`IdleIsUntouched`).
`AnsweredWasReceived` links a resolved promise to a response received, which the
refinement needs, and `LooseIsUnwritten` gives `OnlyUnwrittenCallsCrash`. `IInv`
is their conjunction with the tracker's own invariant, whose preservation the
tracker's lemmas (`RegisterKeeps`, `SettledKeeps`, `CancelledKeeps`,
`TrackerStep`) give for every step of the table.

**The reader.** That a reader has one XREAD under way (`OneXreadPerReader`) is kept
by where it is: one whose XREAD is on the connection is blocked on it, or has been
told to end and will not issue another (`Busy`). `NoGaps` follows a position from
the reply to the generator: a cursor is advanced for the whole batch while most of
the batch is still to be yielded, so the invariant is about what has been yielded *and*
what is in the batch (`Pulled`): its positions are consecutive in each stream, the last
of them is the cursor (`LastOf`), and the XREAD that a blocked generator waits for
was made from that cursor. That a batch, flattened from the replies of several
streams, has the entries of each in a row is a lemma about `FlattenSeq`.

**The HTTP gateway.** The readers of a route are those of `StreamReader`, and each
step of the gateway is one of its steps or leaves it alone, so its invariant carries
over. `NewestReaderLives` needs two facts beside it (`LivesInv`): while a reader that
has been told to end is still on its way, the newest one has not started and cannot
hear what the others were told; and nothing on the response stream is malformed,
which is what makes a reader fail. For the refinement, the outcome of a call changes
once, and it is answered only by a response of its id, which exists since a worker
replied to a request that was made.

**The consumer.** That a buffer never exceeds its mark depends on who is paused:
a stage writes on only while the next one has room, and a message that process()
has finished waits in the Transform (`held`) while its readable side is full.
`Slack` states this room for each stage in each state of the pauses; with the
type invariant it makes `NothingLostOrReordered`, `PushesBack` and
`PausedForAReason` inductive together. The order is an equation between sequences
that every action only rebrackets.

**The group.** `HandledAtMostOnce` rests on what Redis delivers: the queues of
members hold increasing, different positions up to `delivered` (`DeliveredOnce`),
the handler of a position that waits has not been called (`WaitingIsUnhandled`), a member that is down
holds nothing (`DownIsEmpty`), and a member never has two XREADGROUPs under way,
nor one while its batch is not empty (`OneXreadgroup`), which is what keeps a
reply from overwriting a batch; a reply on its way has entries (`ReplyHasEntries`), so that
a member waits for it. An XACK in a connection is for a position with a
result (`XackIsProcessed`). The first half of `PendingIsHeld` (`HeldUnlessLost`) is part
of this invariant; the second follows from what the refinement of `WorkQueue` adds
(`Recorded`): nothing
beyond `delivered` has a record, an entry with a result is pending until it is
acknowledged, what a member holds is pending for it, without a result, not orphaned and
not lost, and what was lost stays pending without a result (`LostStaysPending`). With `PendingIsHeld`, which is the converse, the head of a member's queue is
the first of what it has open, which is the guard of an abstract start or finish. Each
step then maps to one of the queue's or to none: a second XACK would change nothing,
a crash loses exactly what is open, and a lost reply is what the member took last and
has not started, since it is behind all else in its queue (`Miss`).

**The ids.** A command's number stands from the moment Redis executed it; lost
replies make the client send it again and take another. `NumbersDiffer`: numbers
that stand are different and not above the counter. It needs no fact about
clients or connections, and so holds however they fail.

The type invariant of the connection says more than types: a client that has given
up or was closed has no command and no PING waiting for it. Every way for a client to
end rejects what it has (`Flushed`), and nothing is issued on one that has ended.

**The cache.** `AgreeUnlessRaced` speaks of moments without a command under way, so
nothing in it survives the first write. What does: the commands that a process has
under way for a key, executed on the value that Redis has, give the entry that the
process has (`Replays`), unless it was raced. They are replayed by a trace of the
values in between; a command that Redis executes shortens it at the front, one that
is sent extends it at the back, and a set() makes what was before it irrelevant. A
fill is the last command of its key (`Unraced`), and its reply is the value in Redis
with nothing behind it. A counter that awaits is not yet a command: when it is written,
the entry is the value it was read with, or it is `Outdated`. That and all else that could
happen are the six races, which are the steps at which the proof would fail without
`raced`.

**The WebSocket gateway.** `DrainIsOwed` holds through a row of writes because a Writable
refuses a message only with that message in its buffer; only the route that armed the promise
resolves it, and the writing of what was held back may arm it again in the middle of the row,
the rest of which is written all the same. It says what waits on whom, not that a drain comes:
a falsy payload at the head of a buffer has no XADD on the connection, and an XADD there is
always of the head (`OneXadd`), so such a Writable is never called back.
`GateOK` is what a single write and a single callback preserve, and the row
by induction. `InOrder` needs where the messages of each route are: in the stream, in the buffer,
held back, in this order (`Placed`). Within the row this holds from the message on that is next
(`Flushed`). That echoes are in order needs the positions they were read from: an XREAD begins where
the last one that was answered ended, unless none was, when nothing has been echoed (`Reading`).

**The emitter.** `DeepMerge` is a recursion on paths; that it is a function, that what
it returns is a tree within the same `Depth`, and what it has at a path
(`MergedGet`, `MergeIsPathwise`) are proved by induction on the length of what is left
of the path. The converse of emitting is `ChangesAreSeen`: where the new tree has a value
that the old one does not have, some changed path is a prefix of it, though the recursion
of `getChangedPaths` stops where one of the two has no object. For the first subscriber the
invariant (`FirstWillKnow`) is that each value is known to it *or to come*: some notification
under way, however far down the stack, still has a path that leads to it, and it will read
the value then, not the one it has now. This is why updates from within a notification do
not harm it. The second is told of an event only when the first has returned,
with the value that the first had, which may be an older one by then. `SecondWillHear`
is that each value has been told to it since it is what it is (`heard`), or is to come, or is
the value of an event that is half told (`HalfWay`): a change in between takes out of `heard`
what it changes, and brings a notification of its own for exactly that. A notification
that is at its last event has no paths left (`LastIsLast`).

Both are about paths whose text reads back. `TextIs` gives the recursion of the text,
`ReadableTold` that an event for a path above a readable one tells of it, and
`PlainIsReadable` that paths of undotted keys other than `''`, not beginning with `*`, are
readable, so that the theorems are about all paths of such trees.

*Induction.* What a recursive function computes (`WriteAll`, `Heard`, `DeepMerge`, the folds
of `FlattenSeq`) is proved from the least element of what a set of natural numbers misses;
the function itself is shown to exist in the same way.

*Only model-checked*: the liveness properties (`EveryPromiseSettles`,
`EveryCallConcludes`, `KeepsReading`, `EveryMessageAnswered`, `EveryDeliveryConcludes`,
`EventuallyAgree`, `EveryCommandSettles`, `ConnectSettlesOnceReached`,
`AttendedIsAnswered`, `EveryMessageWritten`), and what liveness depends on, ENABLED. The prover has
no rules for either.

## 6. Where the code and its documentation disagree

Shown by a run:

1. *A crash loses what was delivered* (`group_recovery`). Members read `>` only, and
   nothing claims what a process left pending; `src/README.md:114` says that groups
   allow for recovery on the crash of a consumer.
2. *A request does not trigger its event* (`gateway_types`). `writeToStream` puts
   `responseType`, which is `resp` unless someone sets it, in place of the
   message's type (`streamable.ts:88`, `:60`); `src/README.md:177` says that listeners
   decode the request and trigger an event.

Met while modelling. The models do all of these, and the properties name them as
their exceptions. Four go against a statement of the documentation, which no run
here refutes:

- *Fan-in.* `addStreamId` "adds a stream to the set for consumption"
  (`streamable.ts:114`), and a consumer "supports consuming from multiple streams at once"
  (`src/packages/consumer/README.md:81`). But it emits the update that aborts
  (`streamable.ts:562-566`): a reader that is blocked in its XREAD ends instead of
  going on with the larger set (`Interrupt` and `Leave` of `StreamReader`), one that happens
  to be yielding switches to it. `NoGaps` and `KeepsReading` are about readers up to their
  end.
- *Messages without a handler* are a normal case (`src/packages/consumer/README.md:36`),
  but with an outgoing stream they stop all later responses: the write stream drops the
  result and never calls back (`streamable.ts:415-420`).
- *Members.* The example of `src/packages/consumer-group/README.md` makes a member whose
  `process()` refuses every message: the parameter property `public override options` puts
  the caller's options over those that the constructor gave `super()`, which carry the
  group id, unless the caller passed a `consumerGroupInstanceConfig` himself.
- *Subscribing to an object.* `src/packages/emitter/README.md:88-91` subscribes to changes
  in the entire `user` object; a change below `user` emits only the path of the leaf, and
  a subscriber to the parent path is not called.

*Calls.* A slow Redis ends the process: `dispatch()` takes the promise, and its
timer starts, before `await writeToStream`, and an XADD slower than the timeout
leaves a rejection nobody hears (README.md:257 promises that the front-end keeps its
connections; `WrittenCallsNeverCrash` shows this window is the only one). The entry
of a call that timed out stays in the table (`stream-awaiter.ts:64` is not reached),
and a second late response clears the timer of the entry that the first made
(`deferred-promise-tracker.ts:58`).

*Readers.* A reader whose cursor is still `$` passes over what is written between
two of its XREADs. An abandoned XREAD gets the first response of every route but
the last registered, and it is lost.

*Consumers.* A handler that returns nothing or throws stops all later responses. An
XADD whose reply is lost with the connection is sent again, so that an entry may be
written twice (`RedisConnection` has commands executed again). A unidirectional consumer
stops when its Transform's readable side is full, as nothing reads it.
`setOutgoingChannel` keeps the write stream that there is, on a channel that
`connectAndListen` then does not connect, so that the first response ends the process.
`disconnect()` with responses pending, before `connectAndListen()`, twice, or after
`setOutgoingChannel` ends it too.

*Groups.* The entries of an XREADGROUP whose reply is lost stay pending for a living
member that never sees them. `createConsumerGroup` reports success when
Redis refused. Member ids are never given back: after `max` starts no member gets
one. A `ConsumerGroupTopic` with refused options leaves a connection behind.

*Connections.* `connect()` never settles if the server is never reached; `connected`
stays true after `disconnect()`; `getConnection` is never used and `controllable`
is forced to false.

*Cache.* A renter's entry is invalidated by nothing but its time to live;
"caching in progress" is returned as a value; `endCacheListener` always rejects. The
races that `raced` names: an owner's write during a fill, one with no entry to
start from, an `incr()` whose entry changed during its await (`cacheable.ts:31-32`),
another process's write, a renter's own, a lost connection.

*Gateways and emitter.* The WebSocket gateway echoes its own messages and reads
nothing from the producer key where consumers respond. A socket's message `0`, `false`
or `''` stops its route's Writable for good, and with it every route once `drained`
waits for that one. The emitter does not report deleted keys; a change at a key with a
dot, below a key `''` or at a leading `*` is reported with another path's value; the
second of two subscribers hears the older value last when the first makes a change; and
states share objects with the caller's input.

*Topics.* Two sides given the same shard read and write different streams
(`ShardedMiss`); a subtopic of a bare topic has no namespace.

## 7. What is not modelled

- Payloads, headers and the wire format, except the type of a message and that a
  malformed entry makes deserialising throw or, in `WssGateway`, that a payload is falsy. Logging and wording.
- `produceMessage()` of a consumer, which writes past the pipeline with no state of
  its own, and `createGroupMember`, which nothing calls.
- In `ConsumerGroup`, the push-back of the outgoing stream (it is in
  `StreamConsumer`) and changes of the set of streams (`StreamReader`). A member
  that switches to reading many streams leaves its group: the multi-stream
  branch of `blockingStreamBatchMap` ignores the group.
- In `ConsumerGroup`, a client that gives up after its retries (`RedisConnection`), and an
  XREADGROUP or XACK that fails for it. Redis is taken to notice a broken connection and to
  drop what it has not executed of it. A reply without entries, or NOGROUP, that is lost is
  as if the command had not been executed.
- In `CacheableDataSource`, commands sent again after a lost reply: a connection that
  breaks takes what is under way with it. An INCR that Redis executes twice is in
  `ConnectedTopic`; for a cache it would be one more write that no entry has.
- In `HttpGateway`, broken connections: readers that fail on them are in `StreamReader`.
- In `StateEmitter`, what is inside arrays, keys of `Object.prototype`, and the properties
  that a string has: each is a way for `get()` to find something where the tree has nothing.
- The HTTP and WebSocket protocols, authentication and the upgrade: a library's, and
  a user's function. In `HttpGateway` a call's wait is reduced to its outcome;
  `StreamAwaiter` has the rest.
- Server-assisted invalidation of the cache, which the code has switched off; `del()`
  and `enableCache()`, which do nothing.
- `StreamStateMachine`: its constructor passes to `buildStreamConfiguration`
  something that is no Topic, so no instance of it can exist.
- Logger, ids, time, environment; benchmarks, examples, test utilities, tools,
  infrastructure and documentation sources.

## 8. Plan

Everything in the inventory that can run is modelled, and every safety property that a
passing run checks is a theorem. Left, should the code change:

- The hazards of `PROJECT.json` without a property. The models have each of them, and some
  property exempts it by name: the cursor `$` that each XREAD resolves anew, chunks without a
  payload, consumers without an outgoing stream, members that refuse every message, the
  races of a cache that wear off, the rejection of an early connect(), subscribers that throw,
  and keys that read as something else. What should hold is for the code to decide.
- Each run's liveness on instances larger than its bounds.
- `StreamStateMachine`, once it can be constructed.
