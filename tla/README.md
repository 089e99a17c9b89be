# Formal model of ya-service-bus

The service bus (GSB) connects processes of one node.  A *router* accepts
connections; *clients* register services under names, call one another's
services by address, and publish to and subscribe to topics.  This directory
holds TLA+ modules that model the router and the client library, TLC
configurations that check them on small instances, and TLAPS proofs.  Line
numbers of every modelled definition are in `PROJECT.json` under `map`.

## 1. The system

| component | state | operations | talks to | what is hard |
|---|---|---|---|---|
| router registry (`crates/router/src/router.rs`) and connection actor (`connection.rs`) | `registered_instances`, `registered_endpoints`; per connection `instance_id`, `services`, `default_id` | Hello, Register, Unregister, DropConnection, stop, cleanup | connections share the router under an `RwLock`, on several worker threads; `DropConnection` is a message between two of them | reconnects: two or three connections of one client at once, timeouts, cancelled messages |
| router output (`connection.rs`, `crates/util/src/writer.rs`) | `SinkWrite` buffer, `hold_queue` | `send_message`, `send_reply`, `buffer_empty` | every source of traffic waits for its own message | back-pressure, overflow, cancelled senders |
| topics (`router.rs`, `connection.rs`) | `topics`, `topic_map`, broadcast channels | Subscribe, Unsubscribe, Broadcast, `router_gc_worker` | tokio broadcast channels | lookups and sweeps under separate locks, lagging receivers |
| calls (`connection.rs`, `connection/reader.rs`) | mailboxes, `reply_map`, the reply stream, the input stream's pending future | CallRequest, push, CallReply, forward timeout | connection to connection | timeouts against late answers, leaving peers, request ids chosen by clients |
| prefix lookup (`crates/util/src/lib.rs`) | `dict` | insert, remove, get | registry and local router | segment boundaries, empty segments |
| client connection (`src/connection.rs`) | reply queues, `call_reply`, channels, writer | bind, unbind, subscribe, unsubscribe, broadcast, call, push, streaming call | router over a socket | replies without ids, `ctx.wait`, the end of the connection |
| serving side (`src/connection.rs`, `src/local_router.rs`, `into_actix.rs`, `untyped.rs`) | folds over service streams | CallRequest, push | the service's actor | partial failure of a stream, exactly one end of stream |
| remote and local router of a client (`src/remote_router.rs`, `src/local_router.rs`) | `handlers`, `local_bindings`, `connection`, `pending_calls` | bind, unbind, UpdateService, connect, reconnect, calls | client connection | reconnecting while services come and go |
| framing (`crates/proto/src/codec.rs`) | `msg_header` | encode, decode | every socket | frames in pieces |
| ping monitor and input stream (`crates/router/src/connection.rs`, `connection/reader.rs`) | `last_packet`, the interval timer, the pending future of the last message | ping, stop, read | the peer; the connections messages are forwarded to | time: rounds of the timer against messages, partial messages and blocked input |
| start-up (`router.rs`, `crates/router/src/unix_socket.rs`) and addresses (`crates/proto/src/lib.rs`, `bin.rs`) | a path in the file system, its socket | `bind_url`, `prepare_for_bind`, `bind_unix`, `set_owner_only_permissions` | other routers on the machine, through the file system | check-then-act over several system calls, crashes between them |

Not modelled: accepting, dialling and TLS, the REST interface, the
typed/untyped/actix wrappers, serialization.  They are I/O, stateless
conversions or generated code (section 7).

What makes each component correct, in one line: a name has one live owner and
a client that reconnects finds a clean slate (registry); nothing overtakes,
and what a sender is told is true (output); subscribers get what was published
while they were subscribed, in one order (topics); a reply reaches its caller
once, a failure means not delivered, nobody waits for ever (calls); longest
prefix on a segment boundary (lookup); an answer belongs to its request and
every request is resolved (client); every served call is closed by one full
reply (serving side); what is bound is registered (remote router); what is
decoded is what was sent (framing); who is silent is dropped, who answers is
kept (ping monitor); a client finds its router, and starting one harms nobody
else's files and no running router (start-up).

## 2. Modules

```
ServiceOwnership ----- implemented by ---- RouterRegistry -- RouterRegistryProofs
      |                                         |
      +-- composed into -- RouterCalls       MCRegistry
                               |  \
CallPromise -- implemented by -+   +-- RouterCallsProofs
RouterOutput -- RouterOutputProofs     RouterTopics -- RouterTopicsProofs
ClientConnection -- ClientConnectionProofs
RemoteRouter, ServedCalls, PrefixLookup -- LocalRouterProofs
Framing -- extended by -- InputMonitor -- InputMonitorProofs (of both)
GsbAddress -- extended by -- RouterStartup -- RouterStartupProofs
```

Each `MC*` module instantiates one module for its `.cfg` files.

**RouterRegistry.**  One action per handler; an action ends where another
thread can look: a section under the router's lock with the changes to the
actor's fields around it.  `Register` is therefore two steps (`Register`,
`AnnounceNode`), because `NodeEvent::New` is sent under a second lock.
`drop_request` is the set of connections with an uncancelled `DropConnection`
in the mailbox; `hello` and `predecessor` are the future that
`new_connection` returns.  actix is external and taken from its use: handlers
run to completion, a stopped actor's mailbox and futures are dropped, dropping
the future of `Addr::send` cancels a message that was not handled.
`HelloFirst` separates clients that say Hello before they register (the
library does) from others.

**ServiceOwnership** is what the registry promises: a name has at most one
owner, which is there; only the owner gives it away; who leaves loses all
names at once.  RouterRegistry implements it with `owner` the endpoint table
and `left` the connections that were cleaned up.

**RouterOutput.**  One connection's way out: messages of sources (callers,
pushers, topics) and direct replies pass the buffer or the hold queue.
`BufferEmpty` is the whole of `buffer_empty`: drain, filter, take, notify.

**RouterTopics.**  A topic's channel is a log with a position per subscription;
`Backlog` messages are kept.  `FindTopic`/`SendBroadcast` and
`GcCollect`/`GcRemove` are separate because the code releases the lock between
them.

**RouterCalls** composes `ServiceOwnership` with the call path: the input
stream waits for the forward future, requests pass a mailbox and perhaps the
hold queue, `reply_map` says whom to answer.  `Lossy` is the set of connections whose
hold queue may overflow, which `RouterOutput` shows can happen; `Streams` the
calls that may get a partial reply.

**CallPromise** is what a caller may rely on: a request is delivered to one
service, once, or never; "refused" means never; replies end with one full
reply; after "stalled" anything may still come.  RouterCalls implements it,
with `delivered` the number of times a request was written to a service and
`heard` the replies written to the caller.

**PrefixLookup.**  The loop of `RevPrefixes` as steps over the length of what
is left of the address.

**ClientConnection.**  The client's actor with its mailbox, reply queues and
channels, and the router as an external environment that answers commands in
order and calls in any order, late and twice, and sends a ping, a broadcast or
its Hello at any time.  `waiting` is `ctx.wait`.  Replies on the socket carry
two fields the program does not have, `of` (the command a reply answers) and
`nr` (the number of a call's reply).  They are history: no action reads them,
and the proofs use them to say what a queue or a channel stands for.

**ServedCalls.**  `handle_call_request` as a fold over the events of a service
stream, for each kind of endpoint: none, typed, raw, typed stream, raw stream.
The events tell the service's own error ("error") from a failure of the bus
("fail": no endpoint, a body that cannot be decoded, a closed mailbox, a stream
call that its actor refuses).  A typed handler's `Result` is encoded as a whole,
so its error is the body of an OK reply and ends nothing; a raw handler's error
is the `Err` of the item and becomes ServiceFailure; an `Err` of a raw stream
ends `forward()` and is lost.

**RemoteRouter.**  The local handlers, the future of `unbind`, `UpdateService`
messages, and the supervised actor that dials, registers, fails and restarts;
`Joins` are the registrations it sends for all bindings on a new connection.
`Foreign` names are held by another client; `LazyUnbind` says whether a name
may be bound again before the future of its unbind was awaited.

**Framing.**  The byte stream as positions; header and body are taken as soon
as enough has arrived.

**InputMonitor** adds time to Framing's decoder.  `since` is the age of
`last_packet`, `timer` that of the interval timer's last round, `held` how long
the input stream has waited for the future of its last message.  `quiet` and
`asked` are history: the time since bytes arrived, and since a ping that no
message followed.  A tick passes only when nothing is due, so the router's own
work takes no time; the network takes as long as it likes.

**GsbAddress** is the resolution of addresses as operators: the default path of
each platform, its way through a URL and back, `GsbAddr::from_url`, and what
the binary does instead.  **RouterStartup** extends it with processes that bind
a path, one action per system call, a file with inode, owner and mode at each
path, and `Kill` anywhere.  `UnixListener::bind` is two steps, because bind(2)
creates the file and listen(2) makes it answer.  `rivals[p]` records whose
start overlapped p's.

Properties stand at the end of each module, after the specification; the
mutated operators next to the definitions they vary (`X_Something` before `X`)
exist to show that each property can fail.

## 3. Runs

| run | instance | result |
|---|---|---|
| MCRegistry | 3 connections, 2 instances, 2 services, Hello first | no stale entry, every superseded connection was asked to drop, a reconnect finds a clean slate, node events balance, ServiceOwnership is implemented, and Hello never hangs, without the 10 s timeout |
| MCOutput | a caller, a pusher and a topic, mark 2, 6 messages | order, truth of outcomes, loss only when more is held than the mark, held-back senders are released |
| MCTopics | 2 clients, 1 topic in up to 2 channels, backlog 1, 3 messages, collector on | who listens to the topic's channel misses only what lags, clients agree on the order, nothing from before a subscription |
| MCTopicsGcRace | the same with backlog 2 | **violation**: a subscription between the collector's scan and its sweep is cut off |
| MCCalls | 2 calls and a push, 3 connections, two of them serve and call each other, 2 leave, 2 overflow, forward timeouts | replies reach callers, CallPromise is implemented, requests keep their order, calls are answered, no input blocks for ever |
| MCCallsDisconnect | 2 calls and a push of two clients to one service that leaves | **violation**: a call written to a service that disconnects is never answered |
| MCPrefixLookup | all names up to 4 characters over `a` and `/`, 2 bound | longest prefix on a boundary |
| MCClient | two of 3 commands, a push, a call with up to 2 and a stream with up to 3 replies, channel buffer 1 | replies are matched to commands without ids; streams are prefixes, complete on a live connection; requests resolve, streams end, pings, broadcasts and Hello are handled |
| MCServed | 2 requests, all kinds of endpoint, 3 events each | answers are closed once; what the caller sees ends with ServiceFailure exactly if the bus or a raw handler failed |
| MCRemote | 2 addresses, one held by another client, 2 calls, 3 (un)binds, 2 faults | bindings, handlers and registrations agree; the client reconnects, registers and resolves calls |
| MCInput | three frames in arbitrary pieces, one of an unknown type; interval 2, timeout 3, forward timeout 4, answers within 1 tick | what is decoded is what was sent; the timer stops only silent peers and no peer that answers; what has arrived is read or the connection ends |
| MCStartup | 3 processes, 3 starts, 3 inodes, 11 environments, kills | a client dials where the router answers; a running router and other files are left alone; a stale socket is reclaimed |

Ten of the properties carry a proviso, because without it the code does not
keep them (section 4): NoStaleRegistration (`HelloFirst`), LostOnlyOnOverflow
(overflow), BroadcastReachesAttached (a channel the collector did not remove),
CallsAreAnswered (a service that leaves with the request), AnswerIsClosed
(`StopsAtFull`: a service that goes on after a result that could not be encoded,
or a raw stream handler after its own full chunk), BindingsFollowHandlers (`LazyUnbind`),
OnlySilentIsKilled and AnsweringIsKept (`HeldTooLong`: an input held longer
than ping_timeout; the former also a message that is still arriving), and
ClientFindsRouter with EstablishedIsSafe (`rivals`: starts that overlap).

### Bounds

Three connections are the least with which a superseded connection is itself
superseding, and with which two callers of one service can differ while caller
and service also wait for each other in a circle.
With a mark of 2, three sources and timeouts the hold queue outgrows the mark,
and a refill is a batch.  A backlog of 1 with 3 messages makes receivers lag.  A stream buffer of 1 with 3 replies fills the
channel and makes the actor wait; any two requests at a time are enough to
share a reply queue or to have one wait behind the other's stream.  Two faults let a reconnect fail again.  Four
characters include leading, trailing, double and lone separators.  In MCInput
the forward timeout exceeds the ping timeout, as in the library's defaults, and
an interval of 2 lets a round find a connection at, below and above half of it.
Three starts let a third router meet the remains of two overlapping ones, and
three inode numbers are fewer than the sockets made, so numbers are reused.
All counters that only bound a run (`MaxMsg`, `MaxChan`, `MaxOps`, `MaxFaults`,
`MaxChunks`, `MaxRequests`, `MaxEvents`, `MaxBound`, `MaxStarts`) are constants in the guards; runs
disable the deadlock check where the system may simply stop (all actors gone,
bounds used up).  No run uses symmetry: most check liveness.

### Fairness

Weak fairness only, and only of what the runtime does: an actor that runs
handles its mailbox and polls its ready futures and streams, a stopping actor
is stopped, timers that the code relies on fire.  The 10 s and the forward
timeout are never relied on.  Of the environment: in RouterOutput and
RouterCalls the peer keeps reading; in RouterCalls services answer
what they got; in ClientConnection the router ends calls it has and
consumers take items (a consumer that stops reading does block its connection,
pings included); in RemoteRouter dialling succeeds after the last fault.  In
InputMonitor time passes and the actor is polled; neither the peer nor the
connection a message is forwarded to is relied on.  In RouterStartup system
calls return.

## 4. Findings

Two runs end in a violation of a sentence of the repository's README; each is
quoted with its source in `PROJECT.json`:

1. the collector can cut off a new subscriber (MCTopicsGcRace);
2. calls pending at a service that disconnects are not answered
   (MCCallsDisconnect).

Seven more deviations show as soon as a constant or a proviso is changed:

3. services registered before Hello survive their connection
   (`HelloFirst = FALSE`, NoStaleRegistration; `router/src/connection.rs:152`);
4. the hold queue drops what exceeds the mark instead of holding it back
   (LostOnlyOnOverflow without its second disjunct; `connection.rs:552`,
   against `config.rs:19`, "holding back senders");
5. duplicate request ids are forwarded, not refused (`IdOf` with equal ids,
   ReplyReachesCaller; `connection.rs:628`, against `gsb_api.proto:66`);
6. replies may follow a full one, after an encoding error or after a raw stream
   handler's own full chunk (AnswerIsClosed without `StopsAtFull`;
   `src/connection.rs:359`, against `gsb_api.proto:71`);
7. a late `Remove` of an unbind undoes a newer bind (`LazyUnbind = TRUE`,
   BindingsFollowHandlers; `src/local_router.rs:466`);
8. the ping timer stops a connection that sends and answers all the time if the
   router held its input longer than ping_timeout, by default after 20 s of a
   forward_timeout of 60 s, or during a push that is not taken
   (OnlySilentIsKilled or AnsweringIsKept without `HeldTooLong`;
   `connection.rs:94`, against `config.rs:13`, "a connection without incoming
   traffic"); so does a single message that takes longer than that to arrive;
9. a router that starts between bind(2) and listen(2) of another removes its
   socket: both run, and clients reach only the second (ClientFindsRouter
   without `rivals`; `unix_socket.rs:68`).

Noticed while modelling, without a run: a duplicate SubscribeRequest prepares
a BadRequest reply and sends the default (OK) one (`connection.rs:414,449`);
the README's 60/120 s ping periods are 10/20 s by default; the README describes
a 64-bit header, the codec writes 32 bits; ConnectionTimeout never reaches a
caller because `ctx.stop()` drops the futures that carry it; an error of a raw
stream handler ends the stream without being reported; one name refused at
reconnect restarts the client's router actor every second; a superseded
connection survives if the newer one dies or times out while it waits (the
exception in SupersededIsDoomed); `GSB_URL=ip:port` is accepted by the library
and refused by the router binary, and `host:port` panics in both, because it
parses as a URL with the scheme `host`; a client never pings, so it does not
notice a router that is gone without closing the connection.

## 5. Proofs

Every invariant, every action property and every refinement that a run checks
is also a theorem, for all values of the constants.  Each proof module defines
the inductive invariant its theorems need and shows that every action keeps
it; TLC was run with that invariant on the instance of section 3 first.

**RouterRegistryProofs**, for any finite or infinite sets of connections,
instances, services and node ids (NodeEventBalance: any set of connections of
which finitely many are live at a time, as the proof shows).  `TypeCorrect` and
`OwnersAreSafe` hold for all clients; under `HelloFirst`: `RegistryInvariant`,
and from it `NothingStale`, `Superseding`, `CleanReconnect`, `EventsBalance` and
the refinement `ImplementsOwnership`.  `RegistryInv` adds that the table and the
lists agree in both directions (cleanup walks the list, calls use the table),
that only a connection that is there and said Hello holds anything (so that
cleanup is never skipped where it matters), that an instance's entry said Hello
with that id, that a connection has at most one successor and after that is in
no entry, and that a waiting Hello waits for a connection that has its
`DropConnection` or is gone.  The last two carry `CleanReconnect`: without the
uniqueness of the successor a second Hello could consume the `DropConnection`
the first one waits for.

**RouterOutputProofs**: `OutInv` says that forwarded messages grow along the
wire, then the buffer, then the hold queue, and where the message of each
outcome is.  The order of the wire alone is not inductive, because a held
message is written later.  It gives `OutputOrder`, `OutputTruth` and
`OutputLoss`.  `Only`, the filter of `buffer_empty`, is a recursive function;
what it computes is shown by induction over the sets it removes from.

**RouterCallsProofs**: the queue of a connection is what was written to its
client, then what is held, then its mailbox.  `CallInv` says that a call is in
one such queue, once; that forward futures resolve to the truth; that
`reply_map` leads to the callers; that a reply on its way is a service's, for
this caller, with nothing after a full one.  Every step cuts a piece out of a
queue or adds a new call behind it (`Thinned`), hence `RequestsInOrder`; the
rest gives `RepliesReachCallers` and `CallsKeepPromise`, the refinement of
CallPromise: the initial states map to initial states, and every step to a step
of CallPromise or a stutter.

**RouterTopicsProofs**: a message is with one publisher or at one place
(channel, position) of the logs.  A new channel has a higher number than all
before it, and a subscription only moves to later places, so what a client was
given is sorted by place, across unsubscribing, subscribing again and the
collector (`OneOrder`).  `OwedOK` says where each message is that an attached
subscription is owed: given, with its publisher, ahead in the log or beyond the
backlog (`AttachedGetAll`).  `SubscribedOnly` is the action property.

**RouterStartupProofs**: while a start is under way, a process that is no rival
of it is down or serving, and rivalry is mutual.  So a socket that refused a
connection is nobody's or a rival's until it is removed (`EstablishedSafe`), a
router without rivals holds the file at its path (`ClientsFindRouter`, which
also needs that a path survives being made a URL and read back), and no start
passes a foreign file (`ForeignFilesKept`).

**ClientConnectionProofs**: replies to commands carry no id, so
`CommandGetsItsAnswer` needs that each reply queue mirrors the wire (`Mirrors`):
whoever is in it has its reply on the socket or is itself on the way to the
router, not both, and the replies, followed by the commands on their way, are in
the order of the queue.  Abandoned requests never enter the queue, and a caller
that leaves later stays in it; this is what `AllOnWire` carries.  For a stream
`StreamOK` says that consumer, channel and socket hold consecutive replies of the
router's log, that only partial ones are behind it while `call_reply` has its
entry, and that a stream without entry on a live connection is complete.
It gives `CommandsMatched`, `StreamsPrefixed`, `StreamsComplete`, and
`ChannelsBounded`: because the actor waits, a channel never holds more than one
item beyond its buffer.

**LocalRouterProofs** is about three modules.  *PrefixLookup*: `LoopInv` (no
bound prefix on a boundary is longer than what is left of the address) gives
`LookupCorrect`, for names of any length.  *ServedCalls*: `ServedInv` relates
the fold's `got_eos` to the items written and to the events of the service, for
each kind of endpoint: nothing is full before the first failure, and the first
full item after one says so; it gives `ServedClosed` and `ServedFailure`.
*RemoteRouter*: both properties speak of moments when a queue is empty, so the
invariants say what a queue amounts to: the last message about an address
decides, and without one the table does (`Tells`).  `RouterFollows` needs that of
the commands on a live connection, `BindingsFollow` of the mailbox, for
processes that await an unbind before they bind the name again.

**InputMonitorProofs**: `DecoderInStep` (the decoder stands at a frame's start or
right behind its header, and the header it holds is that frame's length) is
inductive and gives `DecoderCorrect` for any number and sizes of messages below
the header's limit.  `MonInv` joins the types, `DecoderInStep` and `TimeInv`, and
gives `SilentOnly` and `AnsweringKept` for any messages and any periods that
`TimeAssumption` allows.  Neither follows from the round that stops the
connection alone, so `TimeInv` carries what earlier rounds left: one that does
not stop leaves `since` within ping_timeout, a complete unread message means that
the input is held or the message is of this moment (the decoder's position says
that the input stream would otherwise be ready, and time does not pass then),
and an unanswered ping is one of the last round.  Every step is one of Framing's
or leaves the decoder alone (`MonStepIsFraming`), so its proof is reused.

Assumptions are those named in the modules: `None` is no member of the other
sets, requests of different sorts are different and none is a "pong", `NodeOf`,
`KindOf` and the like are functions, request ids are distinct (finding 5 is what
happens otherwise), names are sequences, frames fit the header and lie one
behind the other, 3 * ping_interval <= 2 * ping_timeout and an answer takes less
than one ping_interval.  `HelloFirst` and `~LazyUnbind` are hypotheses of the
theorems that need them.

Only model-checked are the liveness properties (HelloResolves,
WaitersAreReleased, CallsAreAnswered, ReaderGoesOn, RequestsResolve, StreamsEnd,
NoticeIsHandled, BoundIsRegistered, ReconnectSettles, CallsResolve, ArrivedIsRead,
StaleIsReclaimed): the prover handles neither fairness nor ENABLED.  The
library's induction theorems cannot be used, because they take an operator as a
parameter; the few inductions over data (a filter, a least index, a finite set)
are made from the well-foundedness of the natural numbers and of finite sets.

## 6. Abstractions

Bodies, names of callers, log output and reply texts are left out, except the
codes properties tell apart.  Mailboxes are unbounded: actix parks senders at
16 messages, which delays but does not reorder messages of one sender, and a
router's connection waits for the outcome of each request before it reads the
next.  Messages of different senders can pass each other once a mailbox is full:
RemoteRouter registers its bindings on a new connection and sends later updates
through different `Addr`s, so that with more than 16 bindings an `Unbind` could
overtake the `Bind` of the same name that is still parked.  The model has one
queue for both, hence RouterFollowsBindings, and its theorem, are for connections
whose mailbox takes all of them.  The channels of a served stream (16 items) only
delay it.  In InputMonitor a Hello, which waits for at most 10 s, is like a call.  In RouterStartup a
server that ends in an orderly way is like one that is killed: its file stays.
(Whether actix-server removes a Unix listener's path when it stops is its own
affair; if it does, it removes whatever lies there, and EstablishedIsSafe and
ClientFindsRouter say nothing of that.)  Nobody but routers touches the path
after the first start; so OthersAreKept is about files that were there before it,
and not about one that another program puts there between the second look at the
file and its removal (`unix_socket.rs:91-100`).  Errors of connect other than
"refused" and "not found" come from a listener, and the device number of a path never changes.  In GsbAddress paths are
absolute: the panics of `proto/lib.rs` for a `unix` URL that is no absolute path
(line 281) and for a default path that is relative (lines 200-205, when no home
directory is known) are left out.  In the code such a process ends before it
touches any path.

## 7. Not modelled

* Nested calls from the consumer of a stream: with a full channel such a
  consumer and its connection wait for one another (`src/connection.rs:451`).
* Settings of 0: `YA_SB_HIGH_BUFFER`, `YA_SB_BROADCAST_BACKLOG`, and ping
  periods that violate `TimeAssumption` (`GSB_PING_TIMEOUT` below 4).
* Calls made after ctrl-c.
* Messages of 4 GiB and more, whose length the header cannot hold.
* Accepting, dialling and TLS: I/O whose only effect on the rest is that a
  connection starts, fails or is lost, which the models let happen anywhere.
* The REST interface: read-only queries over the tables of RouterRegistry and a
  lossy stream of its node events.
* Default paths for data directories other than the default one
  (`data_dir_namespace`); nothing in the repository calls it.
* Typed, untyped and actix front ends, serialization, `timeout.rs`: stateless
  wrappers; what their failures become is in ServedCalls and ClientConnection.

## 8. Plan

Done in this order: registry and its proofs, output, topics, calls, lookup,
client connection, serving side, remote router, framing; then the ping monitor,
start-up and addresses, broadcasts and Hello on the client side, CallPromise with
its refinement; then the proofs of all safety properties, RouterOutput and
RouterCalls first, ClientConnection last.  Left:

1. what liveness rests on, as far as it is safety: that the actor of
   ClientConnection waits only for a channel with a consumer, that a call whose
   input is held has its request in one queue (RouterCalls), that whoever waits in
   RouterOutput waits for a held message;
2. further abstract specifications: a client's stream as one queue from router to
   consumer, a topic as one log;
3. the invariants that the proofs use as runs of their own where they say more
   than the properties (Mirrors, Tells).
