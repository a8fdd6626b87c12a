# A TLA+ model of the NATS client for Deno

TLA+ modules for the client (`src/nats-base-client/`), its transport for Deno
(`src/src/`) and JetStream (`src/jetstream/`), TLC configurations that check them on
small instances, and TLAPS proofs of the properties that matter most.

## 1. The system

The client keeps one connection to one of several servers. Everything runs on one
event loop: calls of the application, frames from the parser, timers, notifications of
the transport and continuations of promises interleave, and state read before an
`await` may be stale after it. Above the connection, every consumer, bucket and object
is a conversation of several requests with a server that other clients change in
between.

| Part | State | Operations | Hard behaviour | Correct when |
|---|---|---|---|---|
| **Protocol handler** (`protocol.ts`) | `outbound`, `pongs`, `connected`, `infoReceived`, `_closed`, `transport`, dial promise | publish, subscribe, unsub, flush, drain, close, disconnect, frame handlers, `prepare`, `dial` | a disconnect at any point, PINGs buffered during a dial, microtask flush | `flush()` is a barrier, nothing is stranded, calls settle |
| **Subscriptions** (`protocol.ts`) | table by `sid`, `max`, `received`, `draining`, timers | add, cancel, unsubscribe, drain, close, timeout | limits and drains across reconnects; iterator versus callback | the server's interest follows the table, limits hold, drains lose nothing |
| **Server pool, dial loop** (`servers.ts`, `protocol.ts`) | ordered list, current server, gossip marks, attempts, `lastError` | select, rotate, remove, update, delay, resolve, dial, stop | gossip and removal while dialling, close during a dial | no server is lost, starved or given up on early; the loop ends |
| **Requests** (`request.ts`, `muxsubscription.ts`, `nats.ts`) | `reqs`, mux subscription and inbox, timers, iterators | request, requestMany, noMux request, dispatch, cancel, permission errors | reply, error, timer, close, drain and reader race | each request ends once and leaves nothing behind |
| **Heartbeats** (`heartbeats.ts`) | timer, PINGs in flight | start, cancel, schedule, reset | late PONGs, PINGs of an earlier connection, half open connections, close() during a dial | a stale connection is left, a live one is not; no timer leaks |
| **Parser, transport** (`parser.ts`, `deno_transport.ts`) | place in a frame, arguments and payload read so far | peekInfo, iterate, parse | a read ends at any byte | the frames that were sent, however they are cut |
| **Buffers, headers, identifiers** (`databuffer.ts`, `denobuffer.ts`, `headers.ts`, `nuid.ts`) | arrays and offsets; fields; prefix and sequence | fill, drain, write, read, grow; set, append, delete, encode, decode; next | growth, sliding and packing; names that match in three ways; overflow | a queue; what was written is read; no identifier twice |
| **Services** (`service.ts`) | handlers, subscriptions, `stopped` | add, addEndpoint, stop, close | requests on their way while it stops | none is lost, `stopped` resolves |
| **Pull consumer** (`consumer.ts`) | pending messages and bytes, pulls, monitor, iterator | consume, fetch, next, pull, reset, stop, close | statuses of old pulls, missed heartbeats, lost consumers and connections | it goes on until the stream is read, a fetch ends |
| **Ordered consumers** (`consumer.ts`, `jsclient.ts`) | cursor, serial, source; deliver subject | reset, setSource, check, recreate | messages of an earlier incarnation, resets that overlap | every message once and in order |
| **Subscriptions of JetStream** (`jsclient.ts`, `typedsub.ts`, `jsmsg.ts`) | filters, `didAck`, acks under way | subscribe, pull, ack, flow control, legacy fetch | redelivery, lost acks, statuses between messages | what is acknowledged was processed; the stream is read |
| **JetStream API** (`jsclient.ts`, `jslister.ts`, `jsm*_api.ts`) | tries, offset and total of a list, configuration read | publish, list, info, update | answers that are late or lost, changes between two requests | a publication is stored once, a list is complete |
| **Key-value bucket** (`kv.ts`) | revisions, watcher's count of initial values | create, put, update, delete, purge, watch, keys, history, purgeDeletes | two clients on one key, values arriving while the watch is set up | compare-and-set, watches initialise |
| **Object store** (`objectstore.ts`) | chunks and meta messages | put, delete, update, link, seal, list, watch, get | failure half way, two users of one name | a live object is complete, lists end |

They interact by calls (connection API to handler, handler to pool and transport),
callbacks (parser to handler, handler to subscription, mux to request, filter to
consumer) and promises (`pongs`, `closed`, answers of requests). JetStream is built on
subscriptions and requests only.

`PROJECT.json` lists every component of the repository with its status, and under
`hazards` what is hard to test in this code, line by line, with the properties that
are about it.

## 2. Modules

| Module | Models | The rest of the world |
|---|---|---|
| `Protocol` | handler, subscriptions, drain, close, both directions of the wire | a server that handles commands in order |
| `Reconnect` | server pool, dial loop, authentication errors, close | the outcome of every dial |
| `Requests` | request, requestMany, noMux request, mux, permission errors | a server that answers at any time, any number of times |
| `Heartbeats` | the PING timer, the queue of PONGs it shares with flush(), the dials and the close() around it | a server that may fall silent |
| `Parser` | peekInfo, the parser, its dispatcher | the bytes of a stream of frames, cut anywhere |
| `Buffers` | `DataBuffer` and `DenoBuffer` | any sequence of calls |
| `Headers` | `MsgHdrsImpl` and its encoding | any sequence of edits |
| `Nuid` | prefix, sequence and increment of identifiers | - |
| `Services` | endpoints, callbacks, stop, close, the connection closing under them | requests, denied subscriptions |
| `PullConsumer` | `PullConsumerMessagesImpl`: consume(), fetch(), next() | the consumer at the server, lost frames, connections and consumers |
| `OrderedPull` | `OrderedPullConsumerImpl`, `OrderedConsumerMessages` | sources (what `PullConsumer` hands on), consumers by serial |
| `OrderedPush` | the ordered push consumer | consumers by deliver subject |
| `OrderedDelivery` | *abstract:* the messages one after the other, none missing, none twice | - |
| `PushSubscription` | subscribe(), pullSubscribe(), typed subscription, acknowledgements | a consumer that sends again what is not acknowledged |
| `Fetch` | the legacy fetch() | one pull at the server |
| `JsApi` | publish() with retries, paged lists, update() of a consumer | other clients, lost and late answers |
| `Kv` | a bucket, its clients and a watcher | the stream of the bucket |
| `ObjectStore` | an object store, its users, a list() or watch() | the stream of the store |

`MCProtocol`, `MCReconnect` and `MCRequests` extend one module each with the values of
its constants. `MCHandler` (what must happen in a connection: `Protocol`, `Requests` and
`Reconnect` with their fairness), `MCConsumers`, `MCStores` and `MCClient` put components that do not
share state side by side, one of them in use in each behaviour, so that one run explores all of
them; a component that is not in use keeps its state (`Unused`, `...Unused`). `...Proofs` modules
hold theorems and extend the module they are about.

`OrderedDelivery` is the abstract specification of both ordered consumers. `PullIsOrdered`
and `PushIsOrdered` instantiate it with the refinement mapping (`delivered` as it is,
`open` from the state of the iterator or of the subscription) and are checked as properties, with its
liveness.

**Steps.** One action is one run of the event loop with the promise continuations
that follow before the next event; a wait for an answer, a timer or the reader of an
iterator is where one action ends and another begins. Definitions carry the names of
the code where TLA+ allows it. A definition whose name ends in `_Something` and that
stands above another one is a deliberately faulty variant of it, used to show that a
property can fail.

### Protocol

* `outbound`, `pongs`, `subs`, `sidCounter`, `connected`, `infoReceived`, `closed`
  are the fields of `ProtocolHandler`. `dialing` is `connectPromise !== null`.
  `flushQueued` is the microtask of `sendCommand`. `c2s` and `s2c` are the two
  directions of the socket; `srv` is the server's table. `flushed` is the outcome of
  each promise that waits for a PONG. `recent`, `owed`, `served` and `limit` are
  history, used only in properties.
* A PING and its PONG carry a tag, the caller on whose behalf it was written. The tag
  is not on the wire: `processPong` takes the caller from `pongs`, as the code does.
* Writing is a pure function of an *io* value (buffer, wire, queued flush) because one
  handler makes several writing calls; `drainIO` is the closed form of the loop in
  `drain()`.
* A connection that fails is noticed in three ways: `socketLost` (the socket dies),
  `disconnect` + `transportLeft` (the client leaves; reads go on until the transport
  notifies), `dialFail` (during a dial). Messages in flight are then lost.
* Callers lower a limit they set and never raise it (guard of `unsubscribe(s, m)`): the
  statement "the smallest limit asked for" is otherwise not what the code intends.
* `close` ends the dial loop at once here. That it does not quite do so is the
  subject of `Reconnect` (the run `reconnect_closed`), and what becomes of the timers
  then is in `Heartbeats`.

### Reconnect

* Servers are identified by their listen address, distinct in a pool. Gossiped servers
  are appended in the order of the constant `Listens`. `recent` replaces `lastConnect`
  and the reconnect wait: a server is recent until its wait is over, at any time.
* `servers.clear()` of a closed handler happens at the top of the loop (`Pool`).
* The dial timer, a refused connection and a broken handshake are one action,
  `dialFailed("none")`; the other arguments are the `-ERR` the server sent first.
* `reconnects` and `tries` stop counting at `CountCap`, at least the configured limit.
* `Filter` keeps of the pool what gossip reported, in its order; it is a recursive
  function instead of a library operator so that `TransportProofs` can reason about it.

### Requests

* A request record holds its promise (`st`), whether it is registered, its timer, its
  inbox and, for requestMany, the countdown `left` and the queue of its iterator.
* A denied mux subscription (`muxError`) fails every request on it and the next request
  makes a mux with a new inbox; a frame about the old mux is then recognised by its
  inbox.
* `drain()` of the connection takes the mux subscription away under pending requests
  (`muxDrained`) and that of noMux requests (`subDrained`).

### The consumers

* `PullConsumer` keeps the object as one record `it`, the functions pushed on its
  iterator as entries of `it.yields` beside the messages, and a pull as what it asks for.
  `resets` are the calls of `resetPendingWithInfo()` that wait for an answer or for a
  back-off.
* `OrderedPull` names a consumer by the serial it was created under. A source is what
  `PullConsumer` hands on to it; `adds` are the requests `api.add()` under way, and the
  handler of a source is bound to the serial *at the time it is set*, as in the code. The
  loop of a user takes the messages it finds as a batch (`Take`, `inbatch`) and ends behind
  a batch when the iterator was stopped meanwhile (`EndBatch`).
* `OrderedPush` numbers the deliver subjects: `gen` is at the same time the subject and
  the `sid` `resub()` gives the subscription. `creates` are create requests, which are
  repeated until they are answered.
* `PushSubscription` covers the consumer found, made or bound by subscribe(), the filters
  of `_buildTypedSubscriptionOpts()`, `didAck`, automatic and explicit acknowledgements,
  flow control, statuses of pulls and redelivery.
* `Fetch` distinguishes what the subscription counts (`received`), what the iterator
  holds (`yields`, `inbatch`) and what fetch() counts (`given`): its hazards come from the
  differences.

### The stores

* `Kv`: the stream is a log of revisions with the maximal number of values per key and
  roll-ups; a call is a record with the phase between its requests. Every entry keeps, as
  history, the revision and the operation it found (`prev`, `prevop`). A watcher counts its
  initial values as the code does, while values arrive.
* `ObjectStore`: `meta` is the last meta message of a name, `chunks` how many chunks the
  stream has of a nuid. A put() keeps its chunk publications in flight, any of which may
  fail, and purges what it replaced after its meta message was acknowledged. Operations that
  share their name with one of the bucket carry the prefix `os`, so that `MCStores` can
  extend both modules. link() goes by the info its caller has; a rename asks for the new
  name in a request of its own (`newName`).

### The smaller parts

* `Parser` works on bytes: a step is one read of any length. The parser's record has the
  fields of `Parser`; `events` is what it pushed. `parse` is a fold of one step per byte
  over the read, with a jump over payloads as in the code.
* `Buffers` runs the operations of both buffers beside the queue `held` they stand for.
* `Heartbeats` has the PONG queue shared with flush(), a half open connection
  (`silent`), and the timer with the number of timers that will fire. `close` is not the
  end of it: it cancels the timer and rejects the dial under way (`doomed`), but a loop that is
  behind its top goes on to the next address and may connect, which starts the timer again.
  `StaleLeft` says what is left of "ensure we don't leak timers" then: the timer is the one
  `cancel()` knows, and it stops by itself when that connection is lost.
* `Services` keeps of a subscription whether it is open, draining or closed, and of the
  requests how many were sent, answered, failed, queued and lost.

## 3. Runs

Seven runs pass; five show a disagreement between the code and its documentation. Each
takes at most two minutes with two workers. `CHECK_DEADLOCK FALSE` is set because a closed
client, or one whose bounded calls are used up, stops.

| Run | Instance | Shows |
|---|---|---|
| `protocol_workloads` | four workloads (below); subscription 1 is an iterator, 2 has a callback, both have timeouts; buffer limit 2 | `FlushBarrier`, `NothingStranded`, `InterestInSync`, `LimitRespected`, `DrainLosesNothing` |
| `handler_live` | commands: an iterator, 1 flush, 1 unsubscribe, 2 connections; or requests: a request and a requestMany, 2 frames, 2 connections; or the dial loop: 2 configured servers of 2 addresses and a gossiped one, five sets of options | `CallsSettle`, `Settles`, `LoopEnds`, `NoServerStarves` |
| `reconnect_pool` | 2 configured servers and a gossiped one; 2 attempts, or 1 behind a first connection that is waited for | `PoolWellFormed`, `GivesUpOnlyWhenExhausted`, `ExpiryAbortsOnlyInARow` |
| `requests_safety` | any two of a request, a requestMany by count 2, one by sentinel and a noMux request; 3 frames, 2 connections | `NoLeak`, `Answerable`, `ReaderWillEnd`, `ErrorSurfaces`, `CountRespected` |
| `consumers_all` | eight uses of the pull consumer, six of the ordered one, the ordered push consumer | `EndsBehindMessages`, `Consumes`, `FetchEnds`, `PullIsOrdered`, `SourceRestored`, `PushIsOrdered` |
| `stores_all` | eleven sets of operations on a bucket by two clients and a watcher, eight on an object store by two users and a lister | `CompareAndSet`, `WatchInitializes`, `LiveComplete`, `ListEnds` |
| `client_parts` | nine parts, one at a time (below) | `FramesDispatched`, `StaleLeft`, `StopIsGraceful`, `AcksAreTrue`, `StreamConsumed`, `PublishOnce`, `PagesComplete`, `DeletedStaysDeleted`, `FetchReturns`, `HeadersSurvive`, `BuffersAreQueues`, `NuidsDistinct` |
| `consumers_overlap` | an ordered consumer with a callback, two resets at once | violates `PullIsOrdered` |
| `protocol_drain_closes` | one subscription, 2 connections | violates `DrainedMeansClosed` |
| `requests_nomux` | one noMux request | violates `NoMuxSettles` |
| `reconnect_closed` | 2 servers, 2 attempts, close() during the loop | violates `ClosedForGood` |
| `stores_put_ack` | a put() with a lost answer | violates `LiveComplete` |

### Bounds, and why they are enough

*Protocol.* The constraint `SomeWorkload` keeps each behaviour of `protocol_workloads` to
one of four workloads: *Publishing* (2 publications, 2 flushes), *Flushing* (a
subscription, a flush, a publication, so that flush, drain and final flush share the queue
of PONGs), *Limited* (a subscription with or without limit 2, three messages, one
unsubscribe, three connections), *Draining* (two subscriptions and a message). Each has at
least two connections, which is what a reconnect needs; the third in *Limited* lets the
server's count restart twice under one limit, and three messages reach the limit with one
left over. A buffer limit of 2 makes both the inline and the queued flush happen. Two
flushes (or a flush and a drain) are what a wrong pairing needs.

*Reconnect.* Two servers show rotation and a third, gossiped one every update; two
addresses show the loop over `alts`; attempts are limited to 2, to 1 or not at all. One
attempt is in `reconnect_pool` only with `waitOnFirstConnect`: without it a server is removed
twice, which breaks `GivesUpOnlyWhenExhausted` (and `OthersKept`, which is therefore
stated in a theorem with that exception and in no run). In `handler_live` the loop without a
limit runs with reconnects, and as a first loop in which the third server comes and goes at
any moment, so that the rotation of `NoServerStarves` meets every update; gossip in a loop
after a lost connection is in `reconnect_pool` only, the states being too many for liveness.

*Requests.* Three frames exceed a count of 2, and two requests are what a shared mux needs
to confuse them. That requests end is checked with two frames, one for each or a late one.

*Consumers.* A scenario of `MCConsumers` names what may go wrong in it: pulls that are
refused or late, a consumer that is deleted, a connection that is lost, an error thrown
by the handler. The pull consumer runs over 2 messages with limits of 2 messages (threshold 1
or none) or 5 bytes of 2 each, so that a pull is refilled once before the stream ends; up
to 2 resets overlap. The ordered consumers run over 3 messages: one before a gap, one lost
in it, one behind it. The pull consumer has up to 6 serials and the push consumer 5
deliver subjects, so that a reset is itself disturbed by the fault left; a bound of two
frames on the wire lets a frame of the old incarnation arrive behind one of the new. What
shares a consumer between calls is run as next(); an ordered fetch() read with an iterator is
left out because it drops messages (below).
`consumers_overlap` allows two `api.add()` at a time, `consumers_all` with a callback and
frames lost allows two with one fault.

*Stores.* Two clients on two keys with 3 revisions: read, change by the other, write.
One request may time out, which is what a lost answer needs. The object store has objects
of 2 chunks, so that a put() fails between them, and 3 puts and 3 meta messages, so that
one is replaced twice; one request fails. In `stores_all` any request of a put() may, a lost answer to
a stored meta being left to `stores_put_ack`; answers to a delete() may be lost as well.
Updates and renames run with a single user (below).

*Client parts.* The parser reads streams of three frames (the INFO, any frame of the
nine of `Frames`, a PING or an HMSG), cut into reads in every way; the payloads contain
what looks like the end of a frame and the start of another. Heartbeats: 3
dials, close() at any moment of them, `maxPingOut` 2, a server behind by at most 4 PINGs. A service has one
internal endpoint, one handler and one iterator. A stream of 2 messages, the legacy
fetch() with batches of 2 and 3. Lists of 6 entries on pages of 2, two managers of one
consumer with five calls. Buffers: arrays of at most 2 bytes, a maximal size of 6 with a minimal read of
2, at most 3 arrays in a `DataBuffer`: both ways to grow, sliding and the limit all
happen. Identifiers of 2 binary digits overflow within 4 draws. Edits of headers: 3.

### Fairness, and why the code justifies it

Microtasks run, frames that arrived are parsed, a server answers on a live connection, a
started transport connects or fails, and a dial loop goes on (`Fairness` in `Protocol`).
Failures are never fair, and there are finitely many of them. In `Reconnect` the loop's
own steps and the end of a dial are fair, since each dial has a timeout and every look-up
returns; no dial need succeed. In `Requests`, timers fire, frames are parsed and readers go
on reading. In the consumers, the stores and the parts the same holds of the client's
timers, handlers and readers, of the requests (which end with an answer or a timeout) and of
the server: it takes pulls, delivers what it has, sends heartbeats, and a consumer or a
connection that was lost comes back where the scenario is about what happens next.
What the *user* may never do is not fair: no call, close, stop or edit. The loop of a user over an
iterator does go on, which `ListEnds`, `Consumes` and `StreamConsumed` say of themselves.
`StaleDetected` needs only that timers fire.

### Disagreements between documentation and code

Five runs state what the documentation says and find it violated; the findings in
`PROJECT.json` quote both sides.

| Run | The documentation says | The code |
|---|---|---|
| `consumers_overlap` | an ordered consumer presents messages in the correct order (`jetstream.md:586`) | when two resets overlap, the consumer created first gets the handler of the second serial; both start at the same sequence and the user sees a message twice (`consumer.ts:1197`) |
| `protocol_drain_closes` | drain() resolves when the connection closes (`core.ts:622`) | a connection lost at the last flush ends in a `catch` marked "cannot happen"; the connection stays open |
| `requests_nomux` | a request times out (`core.ts:403`) | close() or drain() cancels the timer and nothing settles the promise |
| `reconnect_closed` | close() closes the connection and resolves when it is closed (`core.ts:543`) | a loop that is looking up a name, or has another address, does not read `_closed` and connects behind it (`protocol.ts:598`, `606`) |
| `stores_put_ack` | a put() that fails removes its partials (`objectstore.ts:435`) | when the meta was stored and only its answer is lost, what is removed are the chunks of a live object (`objectstore.ts:436`) |

### What the code does that a reader may not expect

Met while modelling. Where a property is stated with an exception, this is why.

*Connection.* `drain()` of a subscription calls `unsub()` without a max, which clears the
limit (`LimitRespected` excepts draining subscriptions). After a reconnect the server counts
a limit from zero, so that it may keep interest for a subscription the client has dropped
(`InterestInSync` allows that). The timer of a subscription with a callback is not
cancelled by its first message, although `core.ts:217` says so. A server that fails is
removed twice from the pool when it has a single attempt and never was connected to; the
second `splice` takes another server (`protocol.ts:677`, `servers.ts:270`), so that of two
servers the second is given up on without a dial (left out of `reconnect_pool`). A connection may be established after close() when the loop is in a
look-up or has another address to dial (`reconnect_closed`); its heartbeats run until it is lost.
Requests in flight are not rejected when the connection is lost but wait for their timers
(`core.ts:702`). Errors of authentication other than expiry are remembered across a
successful reconnect, so that two that are not in a row abort it too
(`ExpiryAbortsOnlyInARow` is about expiry). `LoopEnds` excepts gossip: a server that is removed and
reported again is a new one with a new count. `NoLeak` excepts noMux requests on a
connection that is closed or draining, `Answerable` a connection that is draining.
`peekInfo()` reuses the buffer of the parser: when the first read ends inside the INFO
the bytes behind it are lost or repeated (`deno_transport.ts:108`; `SplitInfo = TRUE` breaks
`FramesDispatched`). The late PONG of a heartbeat that was reset does not count, and more
than `maxPingOut` PINGs may be on their way.

*Services.* `nc.close()` or `nc.drain()` makes `stopped` resolve with an error; a `stop()`
called while the connection closes never resolves; an endpoint added after `stop()` leaks;
`stop()` does not end the iterators.

*Consumers.* After a back-off and a reconnect the monitor is lost and the consumer
stalls; limits in bytes have to leave room for a lost pull; a fetch that is reset may give
more than `max_messages`. A `close()` during a reset leaks the new source. `info()` after
`delete()` or a gap creates the consumer again at its start. A tail lost on a disconnect is
unnoticed until the next message. `deliver_policy` New and a reset before the first message
skip messages; an ordered push consumer with `opt_start_seq` above 1 and a reset before the
first message starts again at 1 (`First` is 1 in the runs). An ordered fetch() read with an iterator
drops messages: the last message it asked for stops the iterator at once
(`OrderedConsumerMessages.stop()`), while the functions a pull consumer queues would wait for
their turn; when the user is at an earlier message then, the loop breaks off behind it
(`if (this.done)`, `queued_iterator.ts`), what has come since is never handed on, and
the next fetch() starts behind it. In the legacy fetch() a message
that arrives while another is processed is dropped when the limit of the subscription closes
it; a status ends the iterator but leaks the subscription; heartbeats and statuses count
towards the limit; `no_wait` without heartbeats waits for ever for a lost pull
(`FetchReturns` excepts it). `next()` of a message does not set `didAck`; with the policy
"all" an acknowledgement covers lost messages that were never processed (`AcksAreTrue`
needs a connection that loses nothing there).

*JetStream API.* An entry removed between two pages makes the list skip another one;
`info()` throws on a later page that is empty; two `update()` of a consumer lose one of
the changes; `listKvs()` ends at the first page without a bucket (`PagesComplete` excepts
it). The iterator of a direct `getBatch()` does not end when its request fails.

*Stores.* `watch()` with `ignoreDeletes` never calls `initializedFn` when the last initial
entry is a delete, and calls it before the user has seen the initial values. `history()` ends at
every message that has none pending; when its end is queued already it queues `undefined`
(`kv.ts:721`). A watch that
is set up while the bucket is purged may never initialise. `purgeDeletes()` with no age
to keep purges a value that was put meanwhile. Two puts of one object, or a put and a
delete, leave chunks nobody refers to; when the answer of the meta message of a put() is
lost, its chunks are purged, as those of a put() that failed, although the object is live
(`objectstore.ts:434-436`, `stores_put_ack`); an `update()` or a rename beside a `put()` or `delete()` of another user leaves
a live object without chunks as well. `get()` waits for ever when the chunks
are purged between its two steps.

*Small parts.* `set()` of a header with an invalid value deletes the header before it
throws; `equals()` ignores the description. A sequence of identifiers that begins with 0
and hits `36^10` exactly repeats one (`>` for `>=`, `nuid.ts:117`; `NuidsDistinct` excepts
it). `SimpleMutex` serves last come, first. `DenoBuffer.readFrom()` writes at the length
instead of the end of its contents, which is right only when nothing was read before;
its one caller, `readAll()`, uses a fresh buffer.

## 4. Proofs

Checked by TLAPS for every value of the constants, from the named assumptions of the
modules. Where a theorem needs more it says so in its `ASSUME`, and the text below says why.

**`ProtocolProofs`**

* `TypeCorrect`: `Spec => []TypeOK`. One lemma per writing operator and per group of
  actions.
* `NeverStranded`: `Spec => []NothingStranded`. Not inductive: `flush()` writes into the
  buffer without queueing a flush, and is right only because `flushPending` empties the
  buffer of every connected handler. For that, `connected => infoReceived` is needed,
  which a PONG before an INFO would break, so the invariant `StrandedInv` adds `DialInv`
  (a dial loop and a connection exclude each other) and `WireInv` (nothing is on the wire
  without a usable transport, and no PONG before an INFO).
* `ConnectedMeansReady`: the first part of that, as a theorem of its own.
* `LimitKept`: `Spec => LimitRespected`, a property of steps. `LimitInv` says that a listed
  subscription that does not drain has exactly the smallest requested limit and is below
  it. It holds only while the handler is open: `closed => transport = "gone"` shows that
  a closed one counts nothing.

* `BarrierHolds`: `Spec => []FlushBarrier`. When flush() resolves, the server has processed
  what was published before it since the buffer was last reset. The code never looks at
  what a PONG answers: it
  resolves the first entry of `pongs`. So `PairInv` says that `pongs` is, in order, what
  the PONGs on the wire and then the PINGs still to be answered belong to. The commands
  to come are taken as `Written`, those on the wire followed by those in the buffer, because
  `flushPending` and a transport that is ready only move commands from the second part to the first.
  A dial puts the PING of CONNECT before everything (`Starting`), and a transport that is
  left still delivers the PONGs of a beginning of `pongs`. `CoverInv` says that what a
  caller is owed was processed or is ahead of its PING, and is processed once the PONG is
  under way. `FreshInv` and `CallInv` say that who has not called is waited for nowhere, so
  that a second PING never stands for the same caller.

**`SubscriptionProofs`** goes on from `BarrierInv`.

* `DrainsLoseNothing`: `Spec => DrainLosesNothing`, what drain() of a subscription and of the
  connection promise. `DrainInv`: the PING of a drain is behind an UNSUB, or the interest has
  ended already; from its PONG on nothing subscribes again and no message of the
  subscription is behind the PONG. `HandInv`: until the dial is done, the PING of CONNECT and
  its PONG are the only ones. `FinalInv`: nothing is published after the last flush of
  drain(), so `BarrierInv` applies to all that was.
* `InterestSynced`: `Spec => []InterestInSync`. The table of the server differs from that of
  the client by the commands still under way. `InterestInv` states it so: what is not listed
  is muted at the server, or the last command about it ends it (`UnlistedInv`); what is to be
  served has its interest, or a SUB under way, or has reached its limit, and no UNSUB
  on the way ends it before that limit (`WantedInv`); a `sid` that was not given out is unknown
  (`NewInv`), and so is everything before a dial is done (`MutedInv`).

**`RequestsProofs`**

One inductive invariant, `ReqInv`, is stated per request (`Good`) and proved per
operation on one request (`settleOneGood`, `cancelManyGood`, `messageManyGood`,
`failMuxedGood`, ...), so that the proofs about actions only say which requests they
touch. It adds to the properties that a registered requestMany has not failed and counts
down to above zero, and that an existing mux has its subscription unless the connection
drains. From it: `RequestsTyped`, `NeverLeaks`, `AlwaysAnswerable`, `ReaderAlwaysEnds`,
`ErrorAlwaysSurfaces`, `CountAlwaysRespected`.

The module also has the theorem about the messages of `PushSubscription`, which are answered
like requests:

* `AcksAreTruthful`: `PsSpec => []AcksAreTrue`. What the server takes as acknowledged was
  processed by the user. `AckInv` says so of the acks on the wire too, and that a message
  has one reply. With the policy "all" an ack stands for all messages before it. This is
  right because nothing on the wire, in the queue or in the hands of the user overtakes a
  message that is not processed (`Ordered`). `PushAssumption` says that with this policy no
  message is lost between server and client: the server would take a lost one as acknowledged by the
  ack of a later one, and nothing in the client can notice that.

**`TransportProofs`** is about what is around a connection, `Reconnect` and `Buffers`.

* `PoolStaysWellFormed`: `Spec => []PoolWellFormed`, from `ReconnectAssumption` (the
  configured addresses are distinct). `PoolInv` adds when the current server has to be in the
  pool (`Working`), what the first selection still knows, and that no server has a
  count of failures before the first connection.
* `OthersAreKept` and `GivesUpLate`: `OthersKept` and `GivesUpOnlyWhenExhausted` as properties of
  steps. Both assume `Patience`: no server has a single attempt before the first connection.
  Without it the code removes a failing server twice, and the second `splice` takes another
  one (section 3). `SpentInv` compares the counter of the code with the failures since the
  last connection (`tries`): an absent configured server has used all its attempts.
* `ExpiryIsForgiven`: `ExpiryAbortsOnlyInARow`. The invariant `Remembered` says that a remembered
  expiry was the last outcome of a dial.

Gossip filters the pool. That `Filter` gives a sequence of the kept servers, distinct when
the pool is, is an induction over its length. It is done as a least counterexample: the
lengths for which it fails, if any, have a least one (`LeastNat`, from well-foundedness), and
that is refuted by the one before it (`Induction`).

* `QueuesHold`: `BuffersSpec => []BuffersAreQueues`, for any sizes and any sequence of calls.
  `BufInv` adds the types and that a `DenoBuffer` has its contents inside its memory, which never
  exceeds `MAX_SIZE` (`Fits`). For `DenoBuffer` each way to make room (behind the contents, by
  sliding, in a larger array) returns an index at which what is written continues the
  contents (`Grows`, `CopySlice`); for `DataBuffer` flattening a list of arrays is compared with its
  first and its last array (`FlattenHead`, `FlattenAppend`), again by a least counterexample. From
  `BuffersAssumption`, which only says that the sizes are numbers and the maximum is not below the
  two bytes a buffer may start with.

**`OrderedPushProofs`**

* `PushImplementsOrder`: `Spec => Promise!Safe`, the safety part of the refinement that
  `PushIsOrdered` checks. Initial states map to initial states, and every step to a delivery
  of the next message, a close, or a stutter. The argument is `Numbered`: for everything that
  bears the current deliver subject (frames on the wire, the consumer however often it was
  created, requests to create it) the difference between the number of a message in the stream and
  that of its delivery is `Origin`, the one between the two halves of the cursor; what
  bears an earlier subject is dropped by its `sid`. A message with the next delivery number
  therefore is the next message. It assumes `First = 1`: with a later `opt_start_seq` and a
  reset before the first message the code starts again at 1.

**`OrderedPullProofs`**

* `PullImplementsOrder`: `Spec /\ Undisturbed => PullIsOrdered`, the same for the ordered pull
  consumer: any stream, first message, uses, faults and number of consumers. `Undisturbed`
  leaves out four steps, each of which breaks the promise and is described in section 3: a
  reset that begins while another waits for its consumer (`NoOverlap`; `consumers_overlap` shows
  it), info() that makes the consumer again after messages of a fetch() or next()
  (`InfoInTime`), the close() of a callback during a reset (`CloseInTime`), and the loop over a
  fetch() that ends with messages in its queue (`ReadInTime`). All other interleavings are in:
  resets with frames of old sources on the wire, lost frames, consumers and connections,
  delete(), errors of `api.add()`. The invariant `PullInv` has three ideas. The one request under way
  is for the current serial and begins behind the cursor (`Asked`), and no source has the handler
  of a serial that is not answered (`Known`). As for the push consumer, the numbers of
  the stream and of the deliveries differ by `Origin` in everything that bears the current serial
  (`Numbered`). And what the user was given, followed by what the iterator holds, are the messages from
  the first on, up to the cursor (`Cursor`).

**`StoresProofs`**

* `LiveStaysComplete`: `OsSpec => []LiveComplete`. `StoreInv` says that a nuid belongs to one name
  (`OneName`), that the nuid of a put() is in no meta message before that is
  stored (`Fresh`), that a put() which publishes its meta message has all its chunks
  stored, that what is being purged is not live, and that what is live is whole.
  `StoreAssumption` excludes `update()` of an object, which can bring an old nuid back or
  move it, and a lost answer to the meta message of a put(), after which the code purges the
  chunks of a live object (`stores_put_ack`). Both are described in section 3; TLC checks
  `LiveComplete` for updates and renames that meet nothing else.

* `WritesCompare`: `KvSpec => []CompareAndSet`. A create() that found a deleted key goes on
  with the revision of the delete. The invariant `Expects` says that this revision, as
  long as the stream has it, is a delete: revisions are never used again, so it is still
  one when the stream compares it, however stale the read was and whatever was purged since.
  That the last revision of a key exists is `Largest`, again by well-foundedness.

**`JetStreamProofs`**

* `PublishesOnce`: `ApiSpec => []PublishOnce`. Every call of publish() accounts for one message:
  `PubInv` bounds what is stored, plus what is on its way, plus one when a try was refused
  and may be repeated, by the number of calls. It holds because only a 503 is repeated, and
  a 503 says that nothing was stored.
* `DeletedIsDeleted`: `ApiSpec => []DeletedStaysDeleted`. A request made by update() has the action
  "update" for as long as it is on its way, also after its manager gave it up.
* `PagesAreComplete`: `ApiSpec => []PagesComplete`. A list from which nothing is removed while it
  is read has everything that was there at the start. `ListInv`: all entries that have fewer than
  `offset` entries before them are in hand, and `info()` has asked for as many as it has.
  What one page brings is counted by the places of its entries (`Firsts`, `PageSize`, as least
  counterexamples). From `ListAssumption`: a finite set of entries and pages that are not empty.
* `EndsBehind`: `Spec => []EndsBehindMessages` of `PullConsumer`. The functions that end an iterator
  stand in its queue among the messages, and none stands before a message. `Good` says
  why: `stop()` ends the subscription before it queues the end, and no message is queued for
  a subscription that has ended.

### What is only model-checked

* Liveness: `CallsSettle`, `LoopEnds`, `NoServerStarves`, `Settles`, `Consumes`, `FetchEnds`,
  `SourceRestored`, `WatchInitializes`, `ListEnds`, `StopIsGraceful`, `StreamConsumed`,
  `FetchReturns`, the liveness of `OrderedDelivery` and of `StaleLeft`. The prover has no
  rules for fairness here.
* `PullIsOrdered` for uses in which a step that `Undisturbed` leaves out happens and does no
  harm: `consumers_all` has two resets at once with a single fault, and info() before the
  first message.
* `FramesDispatched`, `HeadersSurvive`: what the parser makes of a stream of bytes, and what
  decoding makes of an encoded header, are inductions over data with a function of many
  fields, and the parser recurses over bytes; they are checked over bounded inputs instead.
  `NuidsDistinct` is bounded too: it compares sums with powers of the base.

## 5. Not modelled, and plan

Not modelled, because there is nothing for a model checker in it:

* authenticators (functions of a nonce that call a cryptographic library), base64, codecs and
  JSON, versions and host names, digests of objects: pure conversions of one value;
* validation of options that only rejects; the effect of options is in constants;
* TLS, the benchmark, statistics and profiles, events for the user, type declarations.

Left out although they have state, each because what it adds is another request and answer
or is modelled elsewhere in the same form:

* permission errors of ordinary subscriptions, `respondMessage`, `rtt()`, `requestMany()` without
  the mux (it reads a subscription of its own, which `Protocol` models);
* statistics, groups, metadata and the client of services;
* `destroy()`, `status()` of buckets and stores; requests of the managers of streams that
  are one round trip; direct `getBatch()`;
* limits in bytes of the legacy fetch(), `SimpleMutex`.

What would add most next, in this order: `OrderedPull` with `PullConsumer` as its source
instead of what the source promises; permission errors in `Protocol`; the parser one frame at a
time, against the frame it was made from, as a step towards `FramesDispatched` as a theorem.
