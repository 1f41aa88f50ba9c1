# A TLA+ verification project for socketflow

socketflow is a Python library for event-driven TCP messaging: frames with headers
over a socket, handlers registered for events and paths, and request/response with
timeouts on top. This directory holds TLA+ modules that model its concurrent core,
TLC configurations that check them, and TLAPS proofs about them. `PROJECT.json`
lists the runs, the lines of the source that every definition stands for, the
mutants and the hazards. Paths below are relative to `src/socketflow/`.

    tlc -workers 2 -config Requests.cfg MCRequests     # one run
    tlapm RequestsProofs.tla                           # the proofs

## Contents

| Module | What it is |
|---|---|
| `Requests` | registry, handles, timeouts, readers, loss handlers, cancellation |
| `RequestContract` | abstract: what a request is to its caller; implemented by `Requests` |
| `RequestsProofs` | proofs: inductive invariant, six safety invariants, one action property, the refinement |
| `Dispatcher` | the bounded pool, serial keys and their drainers, shutdown |
| `SerialExecutor` | abstract: jobs of a key one at a time, in order; implemented by `Dispatcher` |
| `DispatcherProofs` | proofs: inductive invariant, slots, count, one drainer, the refinement |
| `Routing` | the tables of paths and patterns, lookup, middleware, handlers, answers |
| `Blueprint` | what a blueprint registers with the dispatcher |
| `RoutingProofs` | proofs: inductive invariant, no handler before its middleware, the right route and handlers, what a sender is told |
| `Negotiation` | `protocol.py` as operators |
| `Handshake` | one connection's set-up, client and server, all options |
| `HandshakeProofs` | proofs: what `make_range` and `negotiate` return; inductive invariant, agreement, trust, justified failures |
| `SocketWriter` | the writer thread and the memory budget |
| `SocketWriterProofs` | proofs: inductive invariant, counters, budget, order and honest flush |
| `EventLoop` | the selector loop: buffers, write interest, the end of a connection, slots |
| `EventLoopProofs` | proofs: inductive invariant, stream, budget, slots |
| `Client` | connect, reconnect and disconnect, the reader, framing and reservations, keepalive, loss |
| `ClientProofs` | proofs: inductive invariant, reservations, frames, current connection, what is left of a loss |
| `Server` | start, acceptor, connection threads and slots, registry, loss, drain, stop |
| `ServerProofs` | proofs: inductive invariant, registry and slots, stop, drain, loss |
| `MC*` | instances for TLC |

## Inventory

### Components

| Component | State | Operations | Status |
|---|---|---|---|
| Request/response (`transport.py:54-260`, `client.py`, `server.py`) | registry by (owner, data id), handle = future + timer entry, heap of deadlines | create, register, send, reply, timeout, loss, cancel, scheduler shutdown | modelled |
| Dispatcher (`dispatcher.py`) | slots, count of active tasks, backlog and active mark per key, executor | emit, emit_path, drainers, error report, wait_idle, shutdown | modelled |
| Handshake (`client.py:421-759`, `server.py:205-382`, `protocol.py`) | options, ready/ack/auth events, session flags | connect, probe, server_ready, auth, ack, version check, deadline | modelled |
| Socket writer and budget (`transport.py:17-51, 263-421`) | queue, counters, closed, error; bytes used | send, write, close, abort, drain, flush | modelled |
| Event loop (`event_loop.py`, `server.py:911-981`) | connections, selector keys, interest, buffer, slots | accept, register, send, read, write, tick, remove, close | partly (no stop) |
| Inbound framing (`client.py:70-224`, `server.py:185-407`) | buffer, reservation | handle_data | modelled (client; the server has the same loop) |
| Server lifecycle (`server.py:443-522, 749-1221, 1387-1399`) | listener, clients, slots, threads, draining | start, accept, serve, lose, disconnect, drain, stop | partly (a thread per connection) |
| Client lifecycle (`client.py:242-277, 596-804`) | connected, socket, protocol, reader | connect, reconnect, disconnect, lose | modelled |
| Keepalive (`client.py:279-305`, `server.py:486-522`) | times of last ping and data | keepalive_tick | partly (its effects, without the clock) |
| Routing (`dispatcher.py:147-410`, `blueprint.py`) | tables of handlers, middleware and blocks by path and by pattern | register, look up, run, answer 404 and 500, register a blueprint | modelled |
| Message codec (`message_manager.py`, `message_handler.py`) | none | encode, decode | not modelled |
| Compression, metrics, logs, events, exceptions | none that control flow reads | | not modelled |

### How they interact

A client's `send` or a server's `send_client` creates a handle, registers it and
hands a frame to the writer of the connection (`SocketWriter`, or an
`EventLoopWriter` in the event loop of a server). The reader of a connection feeds
`handle_data`, which answers the handshake, resolves requests whose reply came, and
emits everything else to the dispatcher, whose handlers run on a pool. A reader's
end, a keepalive timeout, `disconnect` and `stop` lead to `handle_connection_lost`,
which fails the requests of the connection and aborts its writer. All writers and
readers of a server share one memory budget; all connections share its slots.

### What is hard

- Four threads may finish one request: reader, timer, loss handler, caller.
- A `Future` raises when it is settled twice, in the thread that comes second. In
  `handle_connection_lost` that exception leaves the loss unfinished with its flag
  set, and takes with it what its callers still had to do.
- The registry, the scheduler, the future and the connection each have a lock of
  their own, and every operation takes several one after the other.
- The dispatcher queues a job before it knows whether the pool takes the drainer.
- Nothing locks the tables of routes: a route may be looked up while it is being
  registered, and the lists that were looked up may grow until they are run.
- Both sides of a handshake have half a dozen options and several timeouts, and the
  server answers before it sets its own flag.
- A writer's frames are accounted by whichever of two threads gets to them.
- A client's fields and registry outlive its connections, and so may a reader.
- A server's registry is by address, and an address comes back before everyone who
  works on its last connection is done.
- A connection of the event loop may be ended by the loop, by the accept thread, by
  the application, or by two of them at once, and the selector, the table of
  clients, the budget and the slots must each hear of it once.

Every such place is listed under `hazards` in `PROJECT.json` with its line and the
properties that watch it.

### What makes each component correct

- Requests: a reply settles its own request and no other; a request has one
  outcome; none that has a timeout waits for ever.
- Dispatcher: slots and counts are conserved; a path's jobs run one at a time, in
  order, and do run; the pool becomes idle.
- Routing: no handler runs without its route's middleware; the route is the one that
  the registrations say; a sender who waits is told what went wrong.
- Handshake: whoever is connected agreed on a version; credentials and messages go
  to and come from those who were checked; the two sides never wait for each other.
- Writer and loop: what was accepted is written in order; counters and budget are
  exact; a closed writer loses its thread; a closed connection gives back its slot.
- Client: a stream cut anywhere gives its frames once and in order, and its bytes
  back to the budget; what happens to one connection leaves the next alone.
- Server: whoever is served is found under its address; slots are conserved; a loss
  is announced; drain waits for what was accepted; stop disconnects everybody.

Not all of this holds without exception. Every exception is a name in the property
(a variable or a place of a thread) and is listed under
[Where the documents say more than the code](#where-the-documents-say-more-than-the-code).

## The modules

An action is what a thread does between two points at which another thread can
interfere: a block under one lock, or one call on a future, a socket, a queue, the
selector or the budget. Places of a thread are strings such as `"send"`; the
comment above an action names its code.

Operators that start with a comment "Mutant" are not part of a specification. Each
is a wrong version of the definition after it, as a plausible bug would make it;
with it in place of that definition some property fails, which shows that the
property depends on the code. `mutants` in `PROJECT.json` pairs them.

### Requests

One model for both sides. A request has a key `<<connection, data id>>` as in
`PendingResponseRegistry._key`; on the client there is one connection and the owner
is None. `pc` is the calling thread (create the handle, add it, send, return, or
take it back), `timer` the scheduler's thread, `reader` and `loss` one thread for
each connection. `RequestHandle.__init__` schedules the timeout, so `NewHandle`
comes before `Add`, with a window in between (`EarlyExpiry`). `LossNext`,
`LossSet`, `ReaderCheck` and `ReaderSet` keep the window between `done()` and
`set_result` or `set_exception`: a cancellation in it raises `InvalidStateError`,
which ends the loss handler's loop or the reader.

`RequestContract` is the view of callers: a request is new, open (it has its key),
closing (somebody took it out), and then has one outcome. A loss closes all
requests of its connection at once. `KeepsContract` says that `Requests` implements
it under the refinement mapping `Status`.

### Dispatcher

A client's reader emits messages in order; a message for a blocking path is queued
under its key, any other becomes a task. `_submit` is a chain of places for each
thread in it (acquire, check, count, submit, and the ways back). The executor is a
FIFO of tasks and a set of workers. A failing handler reports ERROR through the same
pool, from its worker. `wedged` remembers the keys whose drainer was refused.
`SerialExecutor` is the promise of `_enqueue_serial`'s docstring, and `Dispatcher`
implements it (`SerialPerKey`).

### Routing and Blueprint

A registration is a list of updates (`Script`), one for each table that
`register_path` changes, in its order; `Register` makes the next one. A message
looks its route up in the tables one reading at a time (`LookupExact` to
`FetchBlocking`), and may be run at any time after that: the queue in between is
the matter of `Dispatcher`. `get(route, [])` gives the list of the table, which
grows when something is registered later, or an empty list that does not
(`ownHandlers`, `ownMiddleware`). `ran` records what was run for a message and how it
ended, `told` the answers that `_send_auto_reply` gave to the sender. The regex of a pattern is the
set of paths it matches. Data that a middleware puts in place of a message is taken to
have neither its address nor its mark of a waiting sender, which is so unless the
middleware copies them.

`since` is the number of registrations that were complete when the lookup of a message
began. The properties promise something for these alone: a handler in progress is in
its table before its middleware and its block, and runs without them for a message
that comes in between.

`Blueprint` has the tables of a blueprint as functions of what was registered on it,
and the calls that `register_with_dispatcher` makes (`BlueprintCalls`).

### Negotiation and Handshake

Ranges of versions are records of two integers. Every combination of the options of
client and server is an initial state, and a 0.1.4 server is one more. The two
directions of the connection are FIFO channels of records. The probe for a legacy
server, the waits and the deadline of the server may expire at any time. A server in
an event loop differs in one respect here: it says nothing after a refusal, for
its writer has no `close()`. `HandleAuth` sends the acknowledgement of the
credentials, `SendHandshakeOk` the one of the handshake, `FinishHandshake` sets
`_handshake_completed` and `NotifyConnected` announces the client
(`server.py:325-327, 154-160, 162-183`): the client may be back from `connect()` in
between. The dispatcher may refuse the announcement; then the session is `broken`, and
of the frames that the writer still had some may be dropped (`Break`).

### SocketWriter

Any number of writers share the budget. `thread` is a writer's own thread, `closer`
a thread inside `close()` or `abort()`. `_complete` is two steps, the counters and
the budget, as they are under two locks. `Stop` is `_STOP`.

### EventLoop

Bytes are counted instead of kept, for the loop thread alone writes to a socket.
`fd` is the descriptor that the kernel gave to a socket, `key` the one under which
the selector knows it; they part when a socket is closed without `unregister`, and
the kernel may give the number to another connection. `selector.register` refuses a
descriptor it knows; `modify` on a closed socket drops its stale key. A thread
carries the place it returns to (`then`), as `close()` is reached from
`remove_connection`, from `handle_connection_lost` and from the except clause of
the accept thread. `handle_connection_lost` is `LossTest`, `LossSet`, `Unlist`, the
abort of the writer, which is the same `close()`, and `Shut`; `close()` calls
`on_close()` (`OnClose`), which calls `handle_connection_lost` again and then returns
the slot (`ReturnSlot`). The settling of requests in `Unlist` may raise: `Raise` says
what each caller does then, and `interrupted` remembers the connections whose
`on_close()` never came to the slot. `Bind` to `Register` happens under the lock of the loop
(`LoopLockFree`), which the loop and `remove_connection` need as well.

### Client

`thread` has the application and one reader for each connection; a thread's
`proto` is the protocol it works on, which for a reader is what `self._protocol`
was in its first line. `socket`, `protocol` and `connected` are the fields of
`TcpClient` and are read again in every turn, as the code does, so that a reader
which outlives its connection may read from the socket of the next one. A byte in
`buffer` is a pair of connection and place; `FrameAt` finds the frame that begins
there, and when the bytes are not those of one frame (two readers shared a socket)
`Parse` may do all that a length made of such bytes can do. `Recv` and
`CountInbound` are the two halves of `_reserve_inbound`, `Trim` and `Release` those of
`_release_inbound`, `Sweep` and `ReleaseAll` those of `_release_all_inbound`: the count
has a lock of its own and the budget another. `handle_connection_lost`
is `LossTest`, `LossSet`, these two, `Unset`, `DrainRequests` and `EndLoss`; the first
two are the test and the set of its flag. `DrainRequests` may raise, when another
thread cancels one of the requests between `done()` and `set_exception`
(`client.py:253-258`): the loss then ends there (`interrupted`), and `Interrupt` says
where the exception takes the thread. `overtaken` remembers that `connect()` was called
while a thread still worked on an earlier connection, a reader that has not come to its
first line included: `connect()` and `disconnect()` do not
prevent that (the `join` has a timeout of one second), so several properties are
stated for the histories in which it did not happen, and the weaker rest for all.

### Server

`thread` has one thread for each connection, the application (`App`: start, drain,
stop) and an administrator (`disconnect_client`); `acceptor` one for each `start()`.
A connection has an address (`address`), by which the registry `_clients` knows it;
peers may share one, the second when the first is gone. A message has a task and a
reply, which goes to the connection that is registered when `send_client` looks. The
task is counted by the dispatcher, or `stranded`: put into the backlog of a key that an
earlier refusal left marked as active, where nobody counts it and it never runs (run
`DispatcherWedged`). `drain()` is the two rounds of `_wait_for_drain`, each a wait for
the count and a snapshot of the registry that is flushed one by one; any of its waits
may run out of time. With no listener and no client it returns True at once
(`DrainNothing`, place `early`). `promised` are the messages that its True answers for.

`handle_connection_lost` is `LossTest`, `LossSet`, `Unregister`, and then either
`Settle`, which is the rest of it, or `SettleRaises`: a thread that cancels one of the
drained requests makes `set_exception` raise (`server.py:461-467`), before DISCONNECT,
the abort and the close of the socket. `interrupted` are the connections whose loss
ended so, and `abandoned` those that were still in the snapshot of a `stop()` which the
exception ended. `late` and `displaced` name the other connections for which `stop()`
and the registry do not keep their promise: one that was accepted but registers after
`stop()` took the registry (`server.py:820, 1180`), and one whose entry a connection of
the same address overwrites, registering late (`server.py:821`). `BeingDisconnected` names the
connections that some other thread is at work to end, those included that wait in the
snapshot of `stop()` while it handles the loss of another.

## The runs

| Run | Bounds | Shows |
|---|---|---|
| `Requests` | 2 requests, 2 connections, 2 data ids, a clash of key, connection or id | all safety properties and the contract, with early expiry and scheduler shutdown; the timed request is settled, except in three named ways |
| `RequestsCancelRace` | 2 requests, 1 connection, 2 data ids | **violation**: a cancellation stops the loss handler |
| `Dispatcher` | 1 client, 3 messages, 2 blocking paths, 2 slots, 2 workers | slots, counts, one drainer, order, progress |
| `DispatcherWedged` | 4 messages, 1 path, 2 slots, 1 worker | **violation**: a refused drainer blocks its path |
| `Routing` | 5 registrations (a path, 2 patterns, a blueprint of 3), 1 message on 3 paths | middleware, choice of the route, answers, blueprints |
| `RoutingReplaced` | the same | **violation**: a failure after a middleware replaced the message is answered to nobody |
| `Handshake` | all options, 4 version options, 2 messages | agreement, trust, justified failures, no mutual wait |
| `SocketWriter` | 2 writers, frames of 1 and 2 bytes, budget of 3, 2 closing threads | counters, budget, order, what flush may say, the threads end |
| `Client` | 2 connections, streams of 3 bytes and 1 in all pieces, budget of 3, 1 request | reservations, frames, the current connection, what is left of a loss |
| `Server` | 2 connections with one address or two, 1 start, 2 slots, 1 message with a reply | slots, registry, loss, drain, stop |
| `EventLoop` | 1 connection, 2 application threads that send, one of which disconnects, frames of 1 and 2 bytes | stream, budget, one slot, the end of a connection |
| `EventLoopSlots` | 5 connections one after the other, 3 descriptors, limit 2 | **violation**: more connections than `max_connections` |

Why the bounds are enough to meet the interesting cases: two requests share
their key (a duplicate), their connection (the loss handler's loop is longer than
one) or their id on two connections (`Clashes`); with none of the three they have
nothing to do with each other. Messages of `Routing` share the tables, which they only
read, so one suffices; the patterns overlap on one path, which is also registered
exactly. Two slots and two workers let a drainer and a direct task run
together and the pool be full; three messages let a job queue behind another.
The version options are equal, nested, overlapping and disjoint. Two bytes in a
buffer let `socket.send` take a part; the application, the accept thread and the loop
let three threads be inside the end of one connection, while a fourth sends to it
(`Closers` bounds who disconnects: a second such thread finds `_clients` empty, and
adds a race of two that the others already make). `MaxEmits`, `MaxSends` and
`MaxTraffic` bound the messages; a request, a frame of `SocketWriter` and a
connection of `EventLoop` are used once. Nothing else is bounded but by the options
of the code itself.

In `Client` the streams have a good frame, one that cannot be unpacked and one that
announces too much; the budget holds one connection's bytes but not the bytes of
both, so that a reservation is refused. In `Server` two connections suffice for one
that is late, lost or being disconnected while its successor of the same address is
served, and for two clients of different addresses in one snapshot of `stop()`. `Busy`
bounds what happens of its own to a connection: only the first fails before its loop,
has a message, falls silent, is disconnected by the administrator or has a request
that is cancelled during its loss; the second is accepted, served, lost by its peer,
by `stop()` or refused, receives replies and takes the first one's place. Busy as both,
the instance is too large for a run of minutes. The first peer has the first address,
as addresses are interchangeable. A second
`start()` makes the state space too large for a run of minutes; what a restart adds
(the acceptor of the first start, still at work) is covered by the theorems of
`ServerProofs` alone, as are any number of connections, addresses and slots, all busy.

Some invariants have exceptions by name (`late`, `overtaken`, `raced`, `displaced`,
`interrupted`, `abandoned`, `stranded`):
they are where the code does not keep the plain promise. Each is set by the action
that does it, at one place, so that the invariant says that there is no other way.

`TypeOK` is an invariant of the runs of `Requests` and `Dispatcher`; in the other
modules it says what the variables are, and the runs spend their properties on what
may go wrong. Adding it to a configuration's INVARIANTS checks it.

Deadlock checking is off: all these systems may stop when nobody calls and nobody
sends. That they do not stop too early is what the liveness properties say.

### Fairness

Weak fairness of each thread's own steps: threads run, handlers return, timeouts of
the code itself (the timer's wait, a `join` with a timeout) expire. No fairness for
peers and callers: a peer need not answer or read, a client need not send, nobody
need cancel, close or shut down. In `Handshake` timeouts are not fair either, so
that `HandshakeAnswered` holds without their help.

### What the violations show

1. `RequestsCancelRace`: `set_exception` raises in the loop of
   `handle_connection_lost` (`client.py:253-258`); the requests after it, already
   out of the registry, are never settled.
2. `DispatcherWedged`: the key is marked active before `_submit`, and stays so when
   `_submit` refuses (`dispatcher.py:309-314`).
3. `RoutingReplaced`: once a middleware has put other data in place of a message, a
   failure is answered by these data (`dispatcher.py:382, 397`), which name no sender:
   who waits is told nothing, where the docstring (`dispatcher.py:251`) says that the
   caller is answered with a 500.
4. `EventLoopSlots`: `handle_connection_lost` leaves a closed socket in the
   selector; the connection that gets its descriptor is refused by
   `selector.register` and gives its slot back in `on_close` and again in the
   except clause (`server.py:945-950, 973-974`).

### Where the documents say more than the code

These are not runs of their own: the properties state what still holds, with the
exception by name.

A loss that is cut short (`set_exception` raises `InvalidStateError` in
`handle_connection_lost` when another thread cancels a request between `done()` and it,
`client.py:253-258`, `server.py:461-467`; the flag is set by then, so that no second
call makes up for it):

- The loss is not announced, the writer not aborted and the socket not closed, though
  the docstring says that a disconnection is handled "exactly once": `interrupted` in
  `LossComplete` and `LossAnnounced`. On the client only a later `disconnect()` closes the
  socket; on the server the thread of the connection closes it at its end.
- `stop()` ends with the exception (`server.py:1190`) and leaves the clients that its
  loop had not come to connected and out of the registry, though README.md:638 says
  "and disconnect all clients": `abandoned` in `StopDisconnectsAll` and `RegistryExact`.
- In the event loop `on_close()` calls `handle_connection_lost()` before it releases the
  slot, without `finally` (`server.py:945-950`), and `close()` swallows the exception
  (`event_loop.py:320-324`): the slot is gone for good (`interrupted` in
  `ConnectionsEnd`).

The handshake:

- One-sided negotiation: README.md:464-465 says that "If only one side negotiates, no
  version is recorded and the handshake proceeds as before". When the client sends no
  range, `_check_protocol_version` negotiates with nothing and refuses
  (`server.py:212-225`); `FailureJustified` has the case by name. (A client that
  negotiates with a server whose options do not takes the server's default range from
  `__server_ready__` and compares it.)
- README.md:454-455 says that the check comes "**before authentication**, so a mismatched
  peer never reaches your credentials". That is so for a client that requires the
  handshake and expects no 0.1.4 server, which waits for `__server_ready__`. Any other
  client that has credentials sends them without having looked at the server's range, or
  whatever it found (`client.py:685-692, 699-700`): `ConnectedMeansAgreed` is stated for
  `StrictClient`.
- `connect()` may return before the server has set `_handshake_completed` and announced
  the client (`server.py:154-160`), and the announcement may fail afterwards:
  `ConnectedMeansAgreed` has the places of the session in between.

Drain and flush:

- `drain()` promises True when "everything finished" (`server.py:1115-1122`). It does
  not see jobs in the backlog of a wedged key, which are never counted and never run
  (`stranded`); with no listener and no client it returns True though handlers may still
  run (`server.py:1123-1125`); and a reply that is queued for a connection which is not
  in the registry may still be in its queue (`displaced`, `abandoned`,
  `BeingDisconnected`): the exceptions of `DrainTellsTruth`.
- `flush()` (`transport.py:332-333`) says True when no write is pending. Between the
  failure of a `sendall` and `_fail` (`transport.py:384-386`) `_complete` has taken the
  lost frame out of the counter and the writer is still open: True for a frame that is
  lost. `NothingDroppedSilently` says that it is this one frame and this one moment.

Requests and routing:

- The timer of a request is armed in the constructor of its handle
  (`transport.py:160`), and `_on_timeout` gives up when the handle is not registered
  yet (`EarlyExpiry` in `Requests`): the request then waits without a timer.
- `AnswersMatchFailures` promises a 500 for the failures before a middleware replaced
  the message, the others are finding 3.
- A handler of a pattern that raises a TypeError itself is run twice
  (`dispatcher.py:389-393`): `HandlerTypeError`.
- A blueprint with several handlers for a path runs each of its middleware as many
  times for every message (`blueprint.py:62-67`): `BlueprintKept` says what is
  registered, and that no handler comes without the middleware of its path.

Counters, flags and registries:

- A close between `socket.send` and `_consume_sent` gives the sent bytes back to the
  budget twice (`event_loop.py:249-256, 305-315`), hence the weaker `BudgetAccounted`.
- `update_interest` reads and sets under two locks: two threads that cross may leave
  bytes without interest in writing until the next ping or event. And `write_ready`
  (`event_loop.py:258-275`) leaves its loop by `return` alone, so that its own last
  update of the interest is never reached.
- `handle_connection_lost` announces a loss twice when two threads pass the test of
  its flag together (`client.py:244-246`, `server.py:445-447`): `raced` in `Client` and
  `Server`.
- Bytes that a reader counts after another thread gave its reservation back are never
  returned (`client.py:70-74`): `late` in `Client`.
- `stop()` leaves a connection alone that registers after it took the registry, and
  a connection that registers late takes the place of a newer one: `late` and
  `displaced` in `Server`.
- A connection of the event loop that is lost before it is bound has a writer without a
  connection to abort; when the accept thread binds it between that abort and the close
  of the socket, it comes into the tables of the loop lost but not closed, and its slot is
  returned only if the loop removes it for another reason, which nothing promises:
  `ConnectionsEnd` speaks of connections that were closed.

## The proofs

`RequestsProofs` proves, for any sets of requests, connections and data ids (only
`RequestsAssumption` is assumed), the six invariants of the `Requests` run, its
action property and the refinement of `RequestContract`.

The properties are not inductive one by one. `PendingWhileRegistered` needs to know
that no thread holds a registered request and that its caller has not come to
settling it; `OneHolder` needs that a request which is not registered yet is in
nobody's hands; both need that only a thread which took a request out may settle
it. `Inv` therefore adds:

- `RegistryInv`: a registered handle is under its own key, pending, with its timer
  armed and its caller before the point of settling it;
- `NewInv`: before `Add`, nobody but the timer has heard of a handle;
- `DrainInv`: a loss handler that has not drained has nothing in hand;
- `ReplyInv`: the reply in a reader's hand has the key of the request in its hand.

The proof has a lemma for each conjunct of `Inv` (`RegistryStep`, `NewStep`, ...)
with a step for each action that can disturb it, `Invariance` puts them together,
and the theorems after it read the properties off `Inv`. `OriginalIsKept` looks at
each action that takes a handle out of the registry. `ContractIsKept` shows for
each action that under `Status` it is `Open`, `Reject`, `Close` or `Resolve` of the
contract, or changes nothing of it.

`DispatcherProofs` proves, from `DispatcherAssumption` alone, that no slot is lost, that
the count of active tasks is exact, that a key has one drainer at most, and that
`Dispatcher` implements `SerialExecutor`. Its invariant has three parts:

- `Shape`: the type invariant, and what a thread has in hand at each of its places
  (`InHand`), without which the type invariant is not inductive;
- `Conserved`: the two sums, of slots and of the count; each step moves one member of
  one of the sets that are counted, or none;
- `DrainerInv`: a key that is marked active and not `wedged` has its drainer in one
  place, a thread in `_submit`, the queue or a worker; any other key has none; and jobs
  wait only under a key that is marked. It is `OneDrainer` without cardinalities.

For the refinement, `RunningJob` reads off `DrainerInv` that the job which runs under a
key is that of the only worker with its drainer; then each action starts or ends that
job, adds one to the queue, or leaves the key alone.

`RoutingProofs` proves, from `RoutingAssumption`, the type invariant and the three
safety invariants, `MiddlewareFirst`, `RoutedAsRegistered` and `AnswersMatchFailures`, for
any registrations and messages. That the middleware of a message's list has run is easy;
that the list has all that was promised is the point, and so for its handlers. `Inv` has

- `Shape`: the type invariant, a registration in progress has an update left, and a
  message knows of complete registrations alone;
- `TablesInv`: every update of a complete registration, and those already made of the
  one in progress, are in the tables, where lists only grow (`Registration`,
  `MadeStays`); `ScriptCovers` finds the update that adds a given middleware;
- `MessagesInv`: for each place of a message, what it has behind it. A message with an
  empty list of its own was promised nothing (`Unguarded`), for the reader found no
  entry; at the end of the middleware the position is behind a list that holds every
  promise (`Starts`); from then on there are handlers alone (`Serving`);
- `OrderInv`: the tables are in the order of registration. A path or pattern in a table
  is that of a call that was begun (`KeysInv`, `Placed`); patterns stand in the order of
  their first registration (`First`); and the handler of a call stands in the list of
  its route at the place that says how many calls of that route there are up to it
  (`Rank`), for each call adds one handler (`AddOnlyAt`);
- `WaysInv`, for each message: its route is the right one, whatever was registered since
  it came (`RouteInv`); the n-th place among those that served it has the n-th handler
  of its list, a `TypeError` not counted (`ServeInv`, `InTurn`), so that ranks in the
  list are ranks in what has run; and it has as many answers as failures that could be
  told (`AnswerInv`), a number of elements of a finite set, to which a step adds one.

`HandshakeProofs` begins with the negotiation: the version negotiated is the highest
common one, the negotiation fails exactly when the ranges are disjoint, and both sides
compute the same. From these and `HandshakeAssumption` it proves the three invariants
of the `Handshake` run for every choice of the options and any ranges of versions. A client that is connected looked at an event and
at two flags; that they mean something is a matter of who set them and of what is still
on its way. `Inv` says of every message in a channel what its sender had done before:

- `AskedInv`: credentials are sent once, and whoever is authenticated at a server that
  asks for them sent good ones, which are no longer on their way;
- `VersionInv`: an event of readiness without an error, or a version error, is what the
  two ranges make it;
- `CompletionInv`: the acknowledgement of the handshake, and what the client concludes
  from it, have a server behind them that has accepted the client with the highest
  common version, and has set its flag or is just about to (`Finished`), as it sends the
  acknowledgement first;
- `TrustInv` and `RefusalInv`: the server's application hears of those it has checked,
  and a refusal of credentials is final for a client that is not connected.

`SocketWriterProofs` proves, from `SocketWriterAssumption`, that the counters and the
shared budget are exact and that nothing is dropped silently but the frame whose
`sendall` has just failed, for any writers, closers and frames. Three kinds of threads take frames from a queue (`Hands`), and the counters
and the budget are brought up to date in two steps. `PlaceInv` says that a frame is in
one queue, once, or in one hand; `CountInv` that what is counted are finite sets, so
that one frame more or less is its size more or less; `FlagInv` that nobody drains an
open writer; and `OrderInv` that what was accepted is what was written, the frame in the
thread's hand and the queue, in this order, until something goes wrong.

`EventLoopProofs` proves, from `EventLoopAssumption`, the three invariants of the
`EventLoop` run and the type invariant, for any connections, descriptors, senders and
bounds. Every step is of one of a few kinds (`Kinds`), and `Inv` has

- `PlacesInv`: which threads can be where, where their call returns to, and that the
  connection they work on was admitted, or bound where it must be;
- `SlotInv`: of the threads that close a connection one alone sets its flag, so that the
  slot is released by that one or, if the selector refused a connection that was bound,
  also by the accept thread. `Closing` spans the loss that `on_close()` handles, through
  which that thread goes before it comes to the slot, or never does;
- `StreamInv`: the loop alone takes bytes out of a buffer, so that what it found there
  before `socket.send` is still there when it consumes it, unless the connection was
  closed in between; hence the exception for closed connections;
- `BudgetInv`: `BudgetAccounted` with the finiteness of `Held`. The sum over queues and
  hands is the cardinality of a set; a step changes one amount of it or moves bytes from
  one to another (`TwoAmounts`), and gives back to the budget only what was in a hand.

`ClientProofs` proves, from `ClientAssumption`, the four invariants of the `Client` run
and the type invariant, for any number of connections, any budget and any streams of
frames that follow one another without a gap. As in `ServerProofs`, every step is of one
of a few kinds (`Kinds`), and each part of `Inv` has a lemma over them. `Inv` is
`General /\ (overtaken = {} => Strict)`, for a reader that begins late may work for any
protocol and read from any socket. `General` holds whatever overtakes what:

- `PlacesInv`: which protocol a thread works on at each of its places;
- `FieldsInv`: a client that is connected has the socket and the protocol of the last
  connection, whose reader has been started; in `connect()` and `_cleanup_transport` the
  fields may disagree, and how is stated for each place;
- `BudgetInv`: the sum of the reservations is the cardinality of a set of bytes
  (`Held`), of which a step changes the part of one connection; a lost connection has
  reserved nothing but late bytes once it was swept;
- `LossInv`: the flag of a connection is set exactly when its loss was announced, was cut
  short by an exception, or is in the hands of a thread; it is announced once unless two
  threads passed the test together, and then its socket is closed.

`Strict` holds as long as no connection was overtaken:

- `OwnInv`: a reader works for its own connection or for none;
- `BytesInv`: a connection that is not lost has reserved its buffer, and the offset of a
  parser is within it;
- `EndedInv` and `ConnectedInv`: a reader that ended had lost its connection or had found
  no protocol, and then nobody was told of the connection; a client that is connected to
  a lost connection has a thread about to clear the flag;
- `RequestInv`: a request that is pending belongs to the connected one, or a thread is
  about to fail it, without which a later loss could fail a request of an earlier
  connection and the other way round;
- `AloneInv`: nobody is at work on an earlier connection (the new connection is overtaken
  by nobody exactly then);
- `FramesInv`: a buffer holds the bytes received and not consumed, in order; its offset
  is a place where a frame begins (`Boundary`), so that `FrameAt` finds the frame; the
  frames up to there have been handled, and outside `handle_data` there are no others up
  to what was received.

`FramesInv` needs `OwnInv`, for the bytes of two readers on one socket are those of no
frame; and `CurrentConnection` needs `RequestInv`. `LossComplete` is about a moment at
which every thread rests; with every thread in one of three places, it follows from
`LossInv` and, for what it says of readers, from `ConnectedInv` and `EndedInv`.

`ServerProofs` proves, from `ServerAssumption`, the four invariants of the `Server` run
and the type invariant, for any connections, addresses, starts and messages. The steps
are many, but each is of one of seventeen kinds (`Kinds`: a thread begins a loss, tests or
sets a flag, unregisters, a connection registers or ends, ...), and each conjunct of
`Inv` has one lemma over the kinds:

- `PlacesInv`: what a thread may do, for whom, and where it returns to;
- `AdmitInv`: how a connection comes to its thread, and the sum of the slots;
- `RegistryInv`: a connection that is served, or will be when its own thread is through
  with a loss, is registered unless it is `Missed` (displaced, abandoned by a `stop()`
  that an exception ended, or being disconnected); one that is registered and lost has
  a thread about to unregister it;
- `LossInv`: the flag of a connection is set exactly when its loss was announced, was
  `interrupted`, or is in the hands of a thread; a connection that was announced and
  whose thread has ended is lost;
- `StopInv`: once `stop()` has taken the registry, whoever registers is `late`;
- `DrainInv`: a queued reply belongs to a connection in the registry or to one that is
  `Gone`, and in the last round of `drain()` to one that is yet to be flushed; what
  `drain()` answers for has been handled or is `stranded`.

The exceptions of the properties came from the attempts to prove them and from the
traces of TLC; what is proved is that there are no others, for any instance, also for
those that are too large for a run here (two starts, every connection busy).

Model-checked only: every liveness property (the prover has neither fairness nor
ENABLED), and of the invariants `BlueprintKept` alone, which flattens and selects from
sequences of any length (induction over data).

## Not modelled

- TLS, the wake-up socket of the loop, the stop of the loop.
- Bytes: encodings, compression, pickle and JSON. Frames are values or lengths.
- `self.socket` becomes None at the end of `handle_connection_lost`. Two threads that both
  pass the test of its flag may close it between them, and the second then fails with an
  AttributeError after its announcement; `Server` has the two announcements (`raced`) and
  not that error.
- A second cancellation in one loss, and what an exception that leaves
  `_handle_connection` prints.
- The inside of `queue.Queue`, `ThreadPoolExecutor`, `Future`, `selectors` and the
  kernel: modelled as their callers rely on them.
- The message codec: pure encoding and decoding of one message, without state.
- Compression, metrics, logs, events and exceptions: see Inventory.

## Plan

Done: `Requests` with contract and proofs, `Dispatcher` with contract and proofs,
`Negotiation`, `Handshake`, `SocketWriter`, `EventLoop`, `Client`, `Server` and `Routing`
with proofs, and `Blueprint`.

Next, in this order:

1. The stop of the event loop, and the composition of `Server` with it.
2. The message codec.
