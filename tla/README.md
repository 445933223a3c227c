# Verification of wire_rpc

TLA+ models of wire_rpc (`src/wire_rpc/`), the TLC runs that check them on small
instances and the TLAPS proofs of what holds for every instance.

* [The system](#the-system): its parts, their state, what is hard about them
* [The modules](#the-modules): which models what, and how it corresponds to the code
* [The runs](#the-runs): bounds, fairness, what each shows
* [The proofs](#the-proofs): what is proved, by which argument
* [Where code and documents differ](#where-code-and-documents-differ)
* [What is left out](#what-is-left-out), and [what is planned](#plan)

`tlc -config MCx.cfg MCx` checks a run and `tlapm xProofs.tla` a proof module.
`PROJECT.json` has, for every definition, the lines of the source it models and,
for every property, a mutant of the model that breaks it.

## The system

wire_rpc serves JSON-RPC 2.0 over several transports.  A *transport* turns bytes
on some medium into whole messages; an *app* receives messages from one
transport, executes them through a codec, middleware and a router, and sends the
replies back; a *client* makes calls over a transport.  Everything runs in one
asyncio event loop per app, except for the thread transport, which joins two
loops, and stdio and SQLite, which use helper threads.

| Component | State | Operations | Hard part | What makes it correct |
|---|---|---|---|---|
| Execution (`_execution.py`) | `ExecutionStats`; per message the batch budget and deadline | `process`, `_process_one`, `_fallback`, `_refuse_batch` | a budget held back for unfinished items, one deadline for a whole batch, cancellation between items | the array fits, each call has its reply, gauge and counters balance |
| App (`app.py`) | `_running`, `_stopping`, the phases of `_run` | `run`/`serve`, `stop`, `_listen`, `_await_or_stop`, hooks | shutdown from any phase; a stop racing a received message | phases undone in reverse order; handlers never outlive the context |
| MulticastApp (`multicast_app.py`) | semaphore of slots, per-peer locks with counts, the set of tasks | `_listen`, `_serve_request`, `broadcast`, `stop`, drain | tasks end in any order, a task may be cancelled anywhere | one request per peer, no slot or count lost, nothing left running |
| Client (`client.py`) | lock, `_closed`, notification handler | `connect`, `call`, `notify`, `batch`, `receive_notification`, `close` | the first reply in the channel is taken for the reply of this exchange | no exchange reads another's reply; every call ends |
| Payload queue (`transports/_queue.py`) | items, bytes and counts per peer, one Event, closed flag | `put`, `get`, `drop_peer`, `close` | three bounds, waiters woken in bulk | accounts exact, no lost wakeup |
| Thread transport (`transports/thread.py`) | two inboxes, two loops, `_ready` events | `connect`, `send`, `recv`, `close` | two threads read each other's fields without a lock | nothing lost or reordered, the end after the messages |
| TCP multicast (`transports/tcp/`) | readers, per-client entries, connection limiter, queue | accept, authenticate, read frames, `send`, `broadcast`, `close` | reader, sender and close() all end the same connection | slots, entries and streams are released exactly once |
| TCP single client (`transports/tcp/tcp.py`) | `_accepting`, `_connection`, operations under way, at both ends | `connect`, admission and handshake, `recv`, `send`, `close` | the place is reserved before the first await; a read may end between the parts of a frame | one client at a time, the place comes back, frames arrive whole |
| WebSocket (`transports/websocket.py`) | clients, requests, principals, limiter, queue | `_serve_ws`, `send`, `broadcast`, `close` | the same, with awaits between check and use | the same; close() misses no client |
| HTTP (`transports/http.py`) | server: pending futures, queue, admission counter; client: `_sending`, `_pending` | `_handle`, `recv`, `send`, `finish_notification`, `close` | a reply racing the deadline or disconnect of its request | places and bytes balance; the client reads the reply to its own request |
| stdio (`transports/stdio.py`) | parent: child process, operations, locks; child: two threads with their queues | `connect`, `send`, `recv`, `close` at both ends | escalation at shutdown, cancelled at any wait; pipes full at both sides | no running child is forgotten, an orphan ends, frames arrive whole |
| Sessions (`auth/sessions/`) | sessions by digest with expiry, bounded count | `create`, `get`, `destroy`, `rotate`, `revoke_all` | lazy expiry, two structures, threads whose caller is gone, transactions of other processes | the stores behave as one promise |
| Auth (`auth/`) | none, or a session store | token and HMAC handshakes, cookie login, validators, `DependencyLifecycle` | interruption, unavailable backends, threads that outlive their login | backends are up while they are used and down afterwards; places come back |
| Router, handlers, middleware | tables | registration, flattening | prefixes and inherited chains | every method has its chain |
| Codecs (`codecs/`) | none | encode, decode, convert | none | pure |

How they interact.  `App._listen` receives one message at a time and runs
`process` as a task raced against the stop event; `MulticastApp._listen` starts a
task per message, limited by slots; both hand the reply to `transport.send` with
the id of the peer it came from.  Server transports put what their connections
read into the payload queue, which `recv` empties.  The client holds its lock
for a whole exchange, so one call is on the wire at a time.  Authentication runs
inside a transport's connection handler and may use a session store.

## The modules

| Module | Models | Its steps |
|---|---|---|
| `PeerService` | what an app promises: at most `MaxConcurrency` messages at work, one executing per peer; another of that peer is refused | `Send`, `Execute`, `Refuse`, `Finish` |
| `Execution` | `_execution.py` whole | what runs between two awaits of `process` |
| `App` | `app.py`, `_run` and `_listen` | one per phase, its failure, its interruption |
| `MulticastApp` | `multicast_app.py`, `_listen`, `_serve_request`, drain | a turn of the loop or of a task |
| `Client` | `client.py`, with a `PeerService` at the other end of a channel | send, receive, abort, give up, at each await |
| `PayloadQueue` | `_queue.py`, with the event loop's ready queue and the order of `Event` waiters | a turn of a task up to its next await |
| `HttpServer` | `http.py`, the server, with App as its caller | `_handle` between awaits; `recv`, `send` |
| `HttpLink` | an `HttpClientTransport` and the server it posts to | `HttpServer`'s, and each await of the client |
| `AuthenticatedApp` | an App over the HTTP server with `CookieSessionAuth` and `PasswordCredentialValidator`; `DependencyLifecycle` | `App`'s, with startup and shutdown of the dependencies; logins, logouts, threads |
| `ThreadChannel` | `thread.py` | each read or write the other thread can see |
| `TcpMulticast` | `TcpMulticastServerTransport`, its connections and limiter | connection tasks, senders and close() between awaits |
| `TcpLink` | `TcpServerTransport`, the `TcpClientTransport`s that connect to it, the handshakes of `auth/tcp.py` | admission, the messages of a handshake, frames in two parts, close() at both ends |
| `WsServer` | both WebSocket servers (`multicast` says which) | handlers, senders and close() between awaits |
| `StdioChild` | `StdIoTransport`, the parent | each wait of close(), its timeout and its cancellation; operations, and the cleanups of their tasks |
| `StdioLink` | the whole of a stdio connection: parent, pipes, the child's threads and its program | `StdioChild`'s, with the parts of frames; a turn of a thread or of the program; crashes of both processes |
| `FrameLink` | what `Transport` promises of the frames of a pair of ends: in order, once, whole | `Send`, `Receive` |
| `Sessions` | the promise of `SessionStore` | one per operation, atomic |
| `MemorySessions`, `RedisSessions`, `SqliteSessions` | the three stores | an operation; a script; a transaction, its caller and its thread |
| `PostgresSessions` | the fourth store, shared by several processes | each statement of a transaction; commit and roll-back |
| `SessionStores` | the first three, asked the same operations | a SQLite transaction and the same operation elsewhere |
| `Subsequences` | no part of the system: the items of a sequence that pass a test, and their sum, for the queues of `PayloadQueue`, `ThreadChannel`, `HttpServer`, `TcpMulticast` and the waiters of `Client` | |

`MCx` with `MCx.cfg` is the instance that TLC checks; `xProofs` holds the theorems about
`x`, where `CallProofs` is about `Execution` and `Client`, `AiohttpProofs` about
`HttpServer`, `HttpLink` and `WsServer`, `LocalLinksProofs` about stdio and threads,
`TcpProofs` about `TcpLink` and `TcpMulticast`, `SessionStoresProofs` about all stores,
`AppProofs` about `AuthenticatedApp` too and `MulticastAppProofs` about `PayloadQueue`
too. `MCWsServer`, `MCTcpMulticast` and `MCClient` give some variables of `WsServer`,
`TcpMulticast` and `Client` names of their own, so that one proof module can speak of both
servers built on aiohttp, one of both over TCP and one of both ends of a call. Four MC
modules put systems that do not interact into one state space, each behaviour being one of
either: `MCMulticastApp` (`MulticastApp`, `PayloadQueue`), `MCAiohttp` (`HttpLink`,
`WsServer`), `MCLocalLinks` (`StdioLink`, `ThreadChannel`), `MCSessionStores`
(`SessionStores`, `PostgresSessions`).  `MCTcpMulticast` has two scenes of one server, and
`MCApp` is `App` within `AuthenticatedApp`.

Conventions.  In asyncio code a step is what runs between two points where a task
may be suspended, because nothing else of the same loop runs meanwhile.  Variables
carry the names of the attributes they stand for where there is one.  Data is
abstracted to what the properties tell apart: a message is its peer and its
number, a body its size, a reply its length, a session its principal and expiry.
Timeouts and cancellations are steps that are always enabled while what they
interrupt goes on; no order among timeouts is assumed.  Mutants stand before
the definition they are a mutant of; no specification uses them.

*Composition.*  `Client` instantiates `PeerService` for the app it talks to, and
`App` and `MulticastApp` are shown to implement `PeerService`: what the client
relies on is what the apps provide.  `HttpLink` puts a client around `HttpServer` and
`StdioLink` a connection around `StdioChild`: each step of theirs is one of the
part they extend or leaves it alone.  `AuthenticatedApp` extends `App` with what its
run starts and shuts down.  `StdioLink` and `TcpLink` implement `FrameLink`.
`SessionStores` composes the stores in lockstep: it says of each operation that all
of them answer and hold the same.  `PayloadQueue` is modelled on its own with its
scheduling; `TcpMulticast` and `WsServer` use a queue bounded in messages only.

### Notes on single modules

* **Execution.** Lengths are the lengths in bytes of the encoded replies;
  fallbacks are the error replies that `_fallback` builds and whose lengths the
  budget holds back.  A handler that returns an error (`declared`) completes as one that
  returns a result: its log line has the error's code, and `completed` counts both.  `sums` holds the partial sums that Python's `sum` over the
  fallbacks starts from; it makes the budget arithmetic provable without
  induction over sequences.
* **MulticastApp.** A batch is one message here: `Execution` has its items.
  `_await_or_stop` races two tasks; both may finish in the same turn and then
  stop() wins.  The listener reads a *set* of finished tasks.  A refused task can be
  suspended too, in `get_principal`, and be cancelled there.  The drain is an await of a
  `finally` and can itself be cancelled (`InterruptDrain`): within its time limit it then
  leaves its tasks neither cancelled nor awaited, and they go on after the listen loop has
  returned; later, when they are being gathered, it cancels them again.
* **App.** Its handlers let a cancellation through.  A second cancellation while
  a cancelled handler is waited for is modelled (`abandoned`, app.py:271-275).
* **Client.** A cancelled `send` may or may not have handed over its message.
  The messages of a server that is not wire_rpc (malformed replies, wrong ids)
  are not generated; the acceptance test they would fail is modelled.
* **PayloadQueue.** An `asyncio.Event` readies its waiters in the order in which
  they began to wait.  The order matters for fairness among readers, so the ready
  queue of the loop is part of the state.
* **TcpMulticast.** `left` is the deadline a read began with and `quiet` the time
  since `last_activity_at`.  A broadcast is a send to each client.  Either end
  of a stream may fail at any step.
* **WsServer.** The queue is a count per client, as the order of messages is
  `PayloadQueue`'s matter.
* **HttpLink.** The requests of the client and those of others meet in the
  server's queue; the server sees a request of the client once it was sent.
* **AuthenticatedApp.** The thread that checks a password goes on when its login is
  cancelled and keeps its place until it ends.  A shutdown that is cut short by a
  timeout or a cancellation is remembered in `cut`, since nothing brings down what
  it left.
* **StdioChild.** close() waits, while it holds `_close_lock`, for the tasks whose operations
  it has cancelled, and a task may go on after its operation has ended, with a cleanup that
  calls close() (`cleanup`: `async with`, `Client._abort`).  That call waits for the lock
  of the one that waits for it; it ends by a deadline of its own (`CleanupEnds`; a `Client`
  has `close_timeout`), or when the closer is cancelled, which cancels the tasks once more
  (`Abandon`).  A task whose cleanup takes time for another reason is one of these.
* **TcpLink, StdioLink.** A frame is two parts, its length and its payload, that
  arrive one after the other, so that a read can end between them.  `patient`
  in `StdioLink` marks the behaviours without timeouts and cancellations: what ends
  there ends without a deadline.
* **PostgresSessions.** At READ COMMITTED a statement sees what is committed and what
  its own transaction has changed (`Visible`).  A transaction may be rolled back at any
  statement.  What get, rotate and revoke answer is read off the rows that
  `Serial` is about.
* **SqliteSessions.** A caller may be cancelled while its thread is in a
  transaction; the transaction goes on and takes its slot with it.  Its
  arguments are chosen when it commits, which is when they matter.

## The runs

All pass but the last three, which show the findings.  `CHECK_DEADLOCK FALSE` is set
everywhere, since every one of these systems really may stop: a closed transport, an
ended app, a store whose bounded supply of ids is used up.

| Run | Bounds, and why they are enough | Distinct states |
|---|---|---|
| `execution` | 2 tasks; single messages and batches of up to three items of every kind; replies shorter and longer than their fallback; a limit that holds some batches and not others. Two tasks suffice for shared counters, three items for a reply that takes a later one's room. | 168,000 |
| `multicast` | 2 peers, 3 requests, 2 slots: a peer with two requests, a refusal beside an execution, all slots taken, a drain with every mixture of tasks. The queue: 2 readers, 3 messages, 4 bytes, 2 per peer, frames of 1, 2 and 5: each limit is the one that binds in some state; 5 is longer than the queue. | 165,000 |
| `app` | 2 callers of serve(), 2 messages, 3 cancellations: a refused second run, a message behind the one at hand, a cancellation in a phase that undoes another. Two clients, one with the right password, for two logins at once and one thread; three dependencies of which one is given twice. | 182,000 |
| `client` | 3 exchanges of all kinds, one pushed notification: one exchange under way, one in a handler of it and one waiting. | 493,000 |
| `aiohttp` | HTTP: 3 requests, two of one client, for 2 places and 2 bytes: a refused one, one without room and one at hand; a client that sends again while its first request is unfinished at the server. WebSocket: both servers, 3 requests, 2 senders, 2 connections, a queue of 1. | 633,000 |
| `local` | stdio: 2 closers, 2 operations, 1 request, pipes and buffer of 1 part, half a frame: each wait can be the one that blocks. More closers add nothing to the order of one closer's waits. Thread: 2 messages one way, 1 the other, inbox limit 1. | 137,000 |
| `tcp` | 2 clients for 1 slot, 2 senders, a queue of 1, idle timeout of 1 tick, 2 frames: a reader that waits for room, two senders of one client, a second client after the first. And a slot for each, 3 frames, no sends or idleness: a reader that waits for room is overtaken by the other client. | 545,000 |
| `tcp_link` | 2 clients, one without credentials, both handshakes, 1 frame each way, close() at the server and at a client: the place is asked for while it is reserved, held and given back. | 174,000 |
| `sessions` | 5 keys, 2 users, 2 sessions, ttl 2, 2 ticks, 2 SQLite callers for 1 slot: more keys than twice the sessions, so that the heap is rebuilt; expiry, rotation and a full store in every order. PostgreSQL: 2 transactions, 4 ids drawn, so that both can be about the last place. | 100,000 |
| `client_notes`, `stdio_notes`, `stdio_close` | the findings below | violation |

### Fairness

Liveness is checked under the fairness each specification states, which is never
more than the code's own scheduling gives:

* the event loop runs a task that is ready: weak fairness of its step;
* a deadline ends what it guards: weak fairness of the disjunction of the
  operation's end and its timeout (or of the timeout alone where the other side
  need not answer);
* a thread runs: weak fairness of each step of the child's two threads and of the
  calls they hand to its loop (`StdioLink`, `ThreadChannel`); a worker thread that checks
  a password ends (`AuthenticatedApp`);
* a killed process exits (`StdioLink`); a child need not exit otherwise;
* an `asyncio.Lock` is given to its waiters in order; `StdioLink` uses strong
  fairness of getting `_close_lock` instead, which is what that order gives;
* an app goes on receiving where a property is about what it receives, which is
  `_listen`'s loop: strong fairness of asking for the next message (`PayloadQueue`), weak
  fairness of receiving it (`TcpMulticast`).

Nothing is assumed of handlers, hooks, remote ends, a pushed notification or the
callers of an API.  `EveryRequestEnds` of `MulticastApp` states its assumption, that
handlers and sends end within their timeouts, as the premise of the property.
`OrphanEnds` allows a handler that hangs.  Two more properties have premises where the code
promises nothing: `CloseEnds` of `StdioChild` that a cleanup which waits for the closer that
waits for it has a deadline (`CleanupsBounded`), since it does not end without one
(`stdio_close`); `SlotsReturn` that a reader which waits for room gets it (`GetsRoom`), since
others can overtake it for ever (`_queue.py:69`) and it holds its slot meanwhile, also when
its client has hung up.  In the run every reader gets room in the end, the frames being
bounded; the premise is what the property says where they are not.

### What the properties say

The comments above the properties say what each is about; the hazards in
`PROJECT.json` say why it is there.  In every run the type invariant is a conjunct of
one of its invariants.

* *Accounts* relate a counter or an index to what it counts, on every path of
  failure: `StatsExact` (`ActiveIsExact`, `CountersMatchLog`), `RequestsAccounted`
  (`CountsExact`, `SlotsBalance`, `NothingOutlivesStop`), `QueueConsistent`
  (`AccountsExact`, `NobodyWaitsInVain`), `ServerAccounted` (`PlacesExact`,
  `BytesExact`, and that App and transport stay in step: `NeverMisused`,
  `AnswersItsOwn`, `NobodyWaitsAfterClose`), `AllAccounted` (`HeapExact`,
  `RedisIndexed`, `SqliteSlotsExact`, the stores' agreement, and PostgreSQL's `Serial`).
* *Ownership* says who must release what: `RunAccounted` (`RunsOnce`,
  `NothingLeaks`), `HandlersHaveContext`, `BackendsAccounted` (`SlotsExact`,
  `LoginsFindBackends`, `BackendsUndone`), `ExchangesAccounted` (`ChannelClean`,
  `LockFollowsExchange`), `HarmlessWaiters`, `ConnectionsAccounted` of TCP and of
  WebSocket (slots, entries, sockets and messages), `PlaceAccounted` (`OnePlace`,
  `StreamsOwned`, `Agreement`, `NothingOutlivesClose`), `LinkSupervised`
  (`ForgottenChildExited`, `PipesOutliveOperations`).
* *Matching* relates replies to requests and output to input: `BatchFits`,
  `EveryCallAnswered`, `RepliesMatch`, `NoWorkForTheGone`, `Delivery` (`InOrder`,
  `ClosedAfterMessages`), `NothingSentAfterClose`, `FramesInOrder`.
* *Refinement*: `ServiceSpec` of `MulticastApp` and of `App`,
  `MemoryImplementsSessions`, and `FrameLink` by `FramesArrive` (stdio) and `LinkSpec`
  (TCP).
* *Progress*: `EveryMessageEnds`, `StopEnds`, `EveryRequestEnds`, `EveryCallEnds`,
  `QuotaIsReturned`, `CapacityReturns`, `EveryRequestAnswered`, `OrphanEnds`,
  `CloseEnds`, `CloseStops` (`CloseEnds`, `InterruptedCloseKills`), `SlotsReturn`, and
  `WaitsEnd` of the thread channel and of the single-client TCP.

## The proofs

| Module | Theorem | Says, for every value of the constants |
|---|---|---|
| `CallProofs` | `TypeCorrect` | the type invariant; the gauge `active` is never negative |
| | `BatchAlwaysFits` | the array a batch is answered with is no longer than `max_response_size` |
| | `CallsAnswered` | a message that has run has one reply per call, in order, none for a notification |
| | `ActiveAlwaysExact` | `active` is the number of running handlers |
| | `StatsAlwaysExact` | and each counter the number of log lines it stands for, `completed` that of the results and of the errors that were returned (`StatsExact`) |
| | `ExchangesAreAccounted` | batches of notifications only excepted: the lock follows the exchange, and the channel of a usable client holds no reply but the one it waits for (`ExchangesAccounted`) |
| | `OnlyNotesMismatch` | with the same exception, no wrong reply closes the client (`NeverMismatched`) |
| | `WaitersAreHarmless` | who gives up to wait for the lock disturbs nobody (`HarmlessWaiters`) |
| `MulticastAppProofs` | `TypeCorrect` | no count and no semaphore goes below zero |
| | `AllAccounted` | counts and slots are exact, and no task is left when the listen loop has returned unless its drain was cancelled (`RequestsAccounted`) |
| | `OneAtATime` | one executing request per peer |
| | `ImplementsService` | MulticastApp implements PeerService |
| | `QueueIsConsistent` | the queue's bytes and counts are exact, its limits hold, nobody waits who could go on (`QueueConsistent`) |
| `AppProofs` | `TypeCorrect` | a message is at hand exactly while some run is past receiving it and has not answered it |
| | `RunIsAccountedFor` | one run; what it started is undone when it ends (`RunAccounted`) |
| | `ContextOutlivesHandlers` | no handler or cleanup of one outlives context or transport |
| | `AppImplementsService` | App implements PeerService with `MaxConcurrency` 1 |
| | `AuthImplementsApp` | AuthenticatedApp does to the run what App lets it do |
| | `BackendsAreAccountedFor` | backends are up while they are used and brought down in reverse order; slots of threads are exact (`BackendsAccounted`) |
| `SessionStoresProofs` | `TypeCorrect` | a key that was not issued has no session |
| | `HeapIsExact` | every session is in the heap; at most `2 * MaxSessions + 1` entries |
| | `SessionsBounded` | no more than `max_sessions` are held, the expired ones included |
| | `MemoryImplements` | the store in memory implements Sessions |
| | `StoresAlike` | the stores in memory, of Redis and of SQLite hold and answer the same |
| | `StoresAreAccountedFor` | and keep their indexes, slots and serial transactions (`AllAccounted`) |
| | `TransactionsSerial` | what a transaction has read holds when it acts on it; capacity and expiry are kept |
| `AiohttpProofs` | `HttpServerAccounts` | places and bytes are exact; App and transport stay in step (`ServerAccounted`) |
| | `HttpRepliesMatch` | the client reads the reply to the request it sent last (`RepliesMatch`) |
| | `HttpNoWorkForTheGone` | recv() never hands out a request whose client has gone (`NoWorkForTheGone`) |
| | `ConnectionsFollowHandlers` | slots, entries, sockets and messages go with their handler; one session (`ConnectionsAccounted`) |
| `TcpProofs` | `PlaceIsAccounted` | one place, who is connected has shown credentials, nothing outlives close() (`PlaceAccounted`) |
| | `MulticastAccounts` | slots, entries, streams and frames go with their connection, whatever ends it; nothing outlives close() (`ConnectionsAccounted`) |
| | `FramesStayInOrder` | the app gets a client's frames in order, without a gap, until a send to it has failed (`FramesInOrder`) |
| | `TcpIsFrameLink` | between the single-client server and each client frames arrive in order, once and whole, in both directions (`LinkSpec`) |
| `LocalLinksProofs` | `ChildSupervised` | no running child is forgotten, operations have their pipes |
| | `LinkImplementsChild` | the whole connection does what `StdioChild` lets it do |
| | `ConnectionSupervised` | so the same holds of it (`LinkSupervised`) |
| | `StdioIsFrameLink` | frames arrive in each direction in order, once and whole, whoever crashes or gives up (`FramesArrive`) |
| | `MessagesAreDelivered` | between threads nothing is lost, doubled or reordered; the end comes last (`Delivery`) |
| | `NothingIsSentAfterClose` | a closed end hands nothing over, not even by a send that waited when it was closed (`NothingSentAfterClose`) |

*Assumptions.*  Those stated with the constants and evaluated by TLC on each run
(a module that is instantiated states its own as a definition, `QueueAssumption`,
`ChannelAssumption`, `WsAssumption`, `TcpAssumption`, `ClientAssumption` or `Assumption` of
`PostgresSessions`, and the MC module assumes it, so that TLC evaluates it):
finite sets of tasks, requests and keys; limits that are positive (their
constructors refuse others); for `Execution`, that a message which is no batch has
one item and that exactly the notifications have no fallback (`_fallback` returns
None for them, `_execution.py:61-66`).  One assumption is a theorem's own: that `Kinds` has
no batches of notifications only, for the two theorems about `Client` that are false with
them, as the run `client_notes` shows.

*Execution.*  `BatchFits` alone is not inductive: that one reply fits follows from
room being held back for all that follow.  The invariant `Budget` says that
`reserved` is the sum of the fallbacks of the items still to come, that it is at
most `remaining`, and that what was used and what remains add up to
`max_response_size` less the brackets and commas.  The sum is
taken from `sums`, the partial sums that `Reserve` builds one fallback at a time
(`SumsRight`), so that no induction over sequences is needed: the step from item
`k` to `k + 1` uses one element.  `RepliesRight` says of the replies collected so
far what `EveryCallAnswered` says of all.  Each action is first classified
(`StepCases`): it collects a result or leaves the budget and the replies alone.
The counters are cardinalities of the places of the log with such lines (`Logged`);
a step adds one place and counts it where it belongs, or does neither (`LogCases`,
`LineAdded`).  That these sets are finite is part of the invariant.

*Client.*  That the channel holds no wrong reply is not inductive: the reply of the exchange
under way must be the only one that is owed or at hand, or a second would be left behind
when the first is read.  `OneAnswer` says so for as long as somebody may still read a reply
(`Live`: the client is usable, or its exchange began before it was closed): either nothing
is owed and nothing at hand (`NothingLeft`), or the holder of the lock reads and is owed one
reply or has it at hand (`OneLeft`).  That a reply settles what was owed needs `SentOnce`,
that a message is sent once and received once.  `Locks` adds that what a handler awaits waits
for the lock of the exchange whose handler it is, so that giving that exchange up removes it
from the waiters.

*MulticastApp.*  `Inv` adds `Links`, that what the listener's variables say of a
request (received, queued, reaped, counted) agrees with where the request is,
and `Slots`, an inequality that also holds after the loop has ended,
when slots may be forgotten.  Every step starts a task, ends one or is quiet
(`NextCases`, `StartedSets`, `EndedSets`, `QuietSets`), and the conjuncts are proved
from these three descriptions.  `ImplementsService` maps a live task that is not
answering a refusal to an executing request; starting is `Execute` or `Refuse`,
ending is `Finish`, everything else stutters or is `Send`.

*App.*  The invariant is that either no run was admitted, or exactly one was and
its phase determines dependencies, context, transport, the message at hand and
`running` (`Accounts`).  Only the admitted run has steps (`StepOfAdmitted`).  The
refinement then needs that the abandoned message is not the current one.

*AuthenticatedApp.*  Every step of it does to the run what one of `App`'s does, or leaves
it alone.  The inductive invariant adds to that of `App` where each backend is
(`BackendInv`): the dependencies that are up are, in order, those the phase of the run
says (`LifecycleFollows`, `InOrder`, `UpIsStarted`, `UpInOrder`), and a login under way is
one of a server that is open unless a shutdown was cut short (`Watched`); and where each
login is (`LoginInv`): the slots of threads that are taken are those of the threads at work
(`SlotsExact`), a thread belongs to a login that waits for it or was cancelled, and who is
past the check was right (`Passed`).

*Session stores.*  `Consistent` says that a store and a heap fit together: every
session has its entry and there are at most `MaxSessions`.  In a consistent store
`_prune()` ends exactly the sessions that have expired (`PruneEnds`), so every
operation begins with what the promise sees (`PrunedFacts`) and its last `_prune()`
ends nothing (`StoreKeeps`).  Rebuilding the heap keeps it large enough because
there is at most one entry per session (`EntriesFinite`).  For the agreement of the
stores (`StoresAlike`) the invariant adds that Redis's hash and scores index the same keys
(`Indexing`) and that the callers, threads and slots of SQLite belong together
(`SqliteOK`); each operation is then shown to answer the same in all three and to leave them
alike, whatever each keeps of what has expired.  In
PostgreSQL a call is past `lock` exactly while it holds the lock, so at most one is, and
the others have changed nothing: they see what is committed.  `CallOK` says so of each
call, with what it has read.  A statement of the holder disturbs nobody else (`CallFrame`,
`WriteStep`), and its commit shows the others only rows that fit.

*PayloadQueue.*  The sums are those of `Total`, the counts the lengths of what `Kept`
leaves of the queue.  The invariant `QueueInv` adds to the accounts (`Exact`) that a
task is in at most one place of the schedule, ready, waiting or running (`Scheduled`), and
that who waits has no room, or nothing to read (`Patient`): a wake-up that is given to
all who wait, in the turn that makes room, loses none.

*ThreadChannel.*  `ChannelInv` says of each end how far its owner is with opening and
closing it (`Owned`), that a send that has been let through has a message left and a peer
with a loop (`Pledged`), that the end is the last thing on the way (`EndLast`), and that
what was sent is what was received, then what lies in the inbox, then what the other
loop has still to run (`Arrives`).

*HttpServer and HttpLink.*  `ServerInv` adds to `ServerAccounted` that a request is queued
once and its handler waits for it or has given it up (`Entries`), what its future and
status may be at each stage of its handler (`Stages`), and that App has no request at hand
between two messages (`Turns`).  `RepliesMatch` needs besides that an answer once given
stays what it was (`RepliesStay`).

*Subsequences.*  `SubsequencesProofs` has lemmas only, which the other modules use.  The library's induction theorems take an operator and cannot be used; that
a nonempty set of numbers has a least element is stated of sets (`WFMin`), so induction
over sequences is proved for the set of the sequences that satisfy a formula
(`ListInduction`), and each fact about `Kept` and `Total` from it.  That their recursive
functions exist is proved, too.

*WsServer.*  `ConnectionsAccounted` alone is not inductive.  `Followed` adds that only a
handler that reads has entries, a socket or messages, and that an open socket is a
registered one, so that close() finds it; `SendsPast`, that a socket a send closes is
past the handshake, so that it is not opened again; `SessionTaken`, that with one
slot nobody else is on the way to the single session (`OneHolder`).

*TcpLink.*  `PlaceAccounted` alone is not inductive.  `Handshakes` says, for each pair of
positions of a connection's two ends, which messages of the handshake can be under way;
from it follows that a client that is told OK has shown its credentials.  `Place` adds
that whom the server keeps it holds until close(), and `Closes` that what close() waits
for at each end does not begin again.

*TcpMulticast.*  A reader that loses its client, is rejected, idles or is cancelled ends in
the same way (`Stops`, `TcpCases`), and a slot is taken and given back by the only two
steps that begin and end a connection's task (`Moved`, `TcpMoves`).  The invariant adds
that an open stream is being authenticated or has an entry (`OpenKept`), so that close()
finds it, and that only a reader has frames in the queue, one that waits for room having
read a frame (`Buffered`).  `FramesInOrder` is proved of each client: what was received,
followed by what is queued, are the first frames handed over; the one step that hands a
frame over, and the one that receives, keep that (`OrderExtended`, `OrderDelivered`), and a
send that fails, the only one to drop frames of a client that is read, gives the claim up.

*StdioChild and StdioLink.*  `ClosersHoldChild` adds to what is claimed that a closer
inside close() has the process, and that one that drains the pipes has seen it exit;
only one closer is inside, by the lock.  That a closer which gives up (`Abandoned`) leaves
no task behind on the pipes needs no more: it still waits for them.  A step of `StdioLink` is one of `StdioChild` or
leaves its variables alone, so the refinement is the identity.

*FrameLink.*  That stdio and TCP carry frames as `FrameLink` says needs an invariant about
what is under way, in parts: a length and its payload.  The parts are numbered in the order
in which they are sent (`Line`; `UpLine` and `DownLine`, of which the second begins with the
server's acceptance), and what lies on a stream is a run of them (`IsRun`): no part is
missing or out of place between the one that the receiver reads next and the last one.
Sending appends the next part (`RunAppend`), reading takes the first (`RunHead`), and what a
close or a crash cuts off is the last (`RunCut`); after a cut nothing is appended, since the
sender's end is closed.

* `StdioLink` (`FlowInv`): in each direction the run goes through the buffers between the
  two programs, one behind the other, the parts in a thread's hands included, as long as
  the receiver may read (`Reading`, `MayRead`).
* `TcpLink` (`FlowsInv`): the run is claimed only while the receiver may read
  (`ServerMayRead`, `ClientMayRead`).  A read that fails, is late or is cancelled in the
  middle of a frame closes the connection, and with that the claim is given up; no later
  read can begin there.  That the first part the server reads after the handshake is a
  length, and the first the client reads is the acceptance, rests on the handshake: a client
  says one thing at a time until it is judged (`OneMessage`), sends no frame before it is
  connected (`Unused`), and the server none before it has kept somebody (`Unkept`).

*Only model-checked:* all progress properties, since liveness under fairness is out of the
provers' reach.  Each invariant, action property and refinement of the passing runs is
stated by a theorem.  The definitions that the theorems are about are the ones TLC checks:
no run replaces any.

## Where code and documents differ

`client_notes` is a run: a batch of notifications only does not wait for a reply
(client.py:210), but the server answers a batch it refuses, so the refusal stays in
the channel and the next call reads it, fails and closes the client.

`stdio_notes` is a run: "`close` flushes queued writes, then closes `file`"
(stdio.py:311-312).  When a write fails, `drain()` marks the writer closed without queueing
the end (stdio.py:336), so close() queues none either (stdio.py:343) and waits, for
`write_timeout`, for a thread that nothing ends; `file` stays open.

`stdio_close` is a run: "Pending reads and writes are cancelled", then the child's stdin is
closed, and a child that ignores that "is stopped within about 9 seconds, and the parent
never leaves a running child behind" (docs/transports/stdio.md:66-74).  close() gathers,
under `_close_lock`, not the operations but the tasks that had one (stdio.py:158-161).  A
task whose cleanup calls close() waits for the lock, and the closer for the task.  With two
tasks of a `Client` the `close_timeout` of each ends this, and the child runs on, its stdin
open; with the bare transport in an `async with` nothing does.

The others were found while modelling.  Each is a behaviour of the models; no
property here contradicts it.

| Code | Behaviour | What a document or comment says |
|---|---|---|
| `_execution.py:104` | An item that starts after the deadline and never suspends completes. | docs/protocol.md:82-83: items that had not started get -32000 |
| `multicast_app.py:312` | A handler that raises `CancelledError` raises it in the loop that reaps its task, and ends the app. | docs/apps-and-lifecycle.md:68-69 |
| `multicast_app.py:315` | The drain, cancelled before `shutdown_timeout`, leaves its tasks neither cancelled nor awaited: they run on after the transport is closed. | multicast_app.py:290: "then drain or cancel work in flight"; docs/apps-and-lifecycle.md:121-122: "then cancels whatever is left" |
| `multicast_app.py:306` | A request is refused while only another *refusal* of its peer is unfinished. | docs/errors.md:22: "a new request while one was still running" |
| `multicast_app.py:295` | A slot is taken before a message is received: with all slots taken a second request of a peer waits instead of being refused. | docs/apps-and-lifecycle.md:39-41 |
| `multicast_app.py:280` | A reply whose send fails is counted as a failure after its request was counted as a success. | docs/observability.md:158-159 |
| `_queue.py:69` | A put that is woken and finds no room goes to the end of the line; a peer with buffered frames can overtake it for ever; the slot of its connection stays taken, also when its client has hung up. | tcp.py:688-689: "a fast client waits instead of starving the others" |
| `client.py:275` | A call after `notify` can reach a MulticastApp that still runs the notification: it is refused (-32002); a notification then is dropped silently. | docs/apps-and-lifecycle.md:42-43: the client "never does this"; client.py:174 |
| `thread.py:136` | An end that connects after the other closed waits in `recv` for ever. | thread.py:117: raises when either end has closed |
| `thread.py:107` | Messages handed over but not yet run by the other loop are not counted against `max_queue_size`. | thread.py:20: "Most unread messages an end will hold" |
| `thread.py:132` | close() does not wake a `send` of its own end that waits for the peer. | thread.py:128: wakes any "waiting `send`" |
| `tcp.py:1031` | The reader of a client dropped by a failed send still queues the frame it holds and those it has buffered. | tcp.py:1002: "drops its queued frames" |
| `tcp.py:55` | A read that waits keeps its idle deadline while the server sends. | docs/transports/tcp.md:61: "No traffic at all" |
| `websocket.py:379`, `:208` | A broadcast that fails removes the client's entry, and its request and principal stay until close(). | docs/limits.md:3 |
| `stdio.py:161` | close() cancelled while it waits for the operations leaves the child running. | docs/transports/stdio.md:73 |
| `http.py:383`, `:410` | A `send` of the client that is resumed after close() keeps its response as `_pending` although the session is closed: `recv` then reads what can no longer arrive, and a `send` after the next connect() is refused. | http.py:410: "Release any unread response" |
| `stdio.py:108`, `:155` | close() during connect() finds no process and returns; the child then runs. | docs/transports/stdio.md:39 |

## What is left out

* Codecs, routing, middleware, metrics, logging, configuration checks, origins: pure
  functions of one value, or wording (see the components of `PROJECT.json`).
* Cryptography: a handshake has who holds the key, a password check who is right.
  API keys, JWTs, callbacks, the shared secret and certificates are checks of one value
  without state; the transports have their outcome, time limit and interruption.
* Handlers that swallow a cancellation: the apps then wait as long as they do.
* Tasks of the TCP transports' users that go on after their operation: `_drain_tasks`
  (tcp.py:110-134) waits for whole tasks too, but no lock is held meanwhile, and a close()
  called by such a task finds its own operation gone and does not wait for its closer; what
  the models call the end of an operation is that of its task.
* Batches in `MulticastApp`, payload sizes in the queues of `TcpMulticast` and
  `WsServer`, counters outside `Execution`.
* A second `recv` of a `ThreadTransport` after it has raised; malformed replies of
  servers other than wire_rpc; a clock that is set back; a Redis script that ran
  though its reply was lost; lines of a child's stderr.
* The WebSocket client transport: one aiohttp session and socket whose deadlines
  and closing are aiohttp's; `Client` uses it as a channel that fails.  TCP keepalive:
  socket options set once.
* Startup of transports (binding, TLS) and PostgreSQL's schema, which either fail or
  not.

## Plan

Done, in the order of importance: `Execution`, `MulticastApp`/`App` with
`PeerService`, `PayloadQueue`, `Client`, the server transports, `ThreadChannel`,
`StdioChild`, the session stores; then both ends of stdio, TCP and HTTP with their
handshakes, the authenticated app and PostgreSQL; and the proofs listed above.

Next:

1. Payload bytes in `TcpMulticast` by composing it with `PayloadQueue`; `Client` over
   `HttpLink` and `TcpLink` instead of its channel.
2. The WebSocket client transport, with a connect() and two closes that race.
