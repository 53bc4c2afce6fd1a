# PartyKit, in TLA+

TLA+ models of the PartyKit packages (`src/packages/*`), the TLC runs that
check them on small instances, and TLAPS proofs of what matters most for every
instance. The code is TypeScript on JavaScript event loops: a handler runs to
its next `await` (or to a call into user code) without interruption, so one
action of a module is one such run, and the interleavings are those of tasks,
timers, network events and user callbacks.

## The system and its parts

| Component | State it keeps | Operations | What is hard | What makes it correct |
|---|---|---|---|---|
| **partysocket** `ws.ts` `ReconnectingWebSocket` | the inner socket, `_connectLock`, `_retryCount`, two timers, `_messageQueue`, `_shouldReconnect`, `_closeCalled` | `close`, `reconnect`, `send`, `drainQueuedMessages`, `_connect`, the four event handlers, two timer callbacks | flags read after awaits; callbacks that call back in; timers of replaced sockets; failures at every step | one attempt at a time; never stranded; buffer is FIFO without loss or repetition; no socket after `close()` |
| **partysocket** `index.ts`, `use-socket.ts`, `use-handlers.ts` | the hook's state and refs: the current socket, the options it was made for, whether it was enabled and set up; the sockets it made | renders, effects and their cleanups that replace, enable, disable and close sockets | effects that run after the state moved on, twice for one render, or with options that changed while disabled; the queued messages of a replaced socket | one socket connects, as rendered; a buffered message goes once and where it was meant for |
| **partyserver** `connection.ts`, `index.ts` connections | per-connection attachment, the id map and tag index (in memory) or the platform's sockets (hibernating) | `accept`, `getConnection`, `getConnections`, `broadcast`, close and error handlers | a client that reconnects under its id before its old socket has closed; throwing hooks | every open connection is reachable; closed ones are not listed |
| **partyserver** `index.ts` lifecycle | `#status`, the name in memory, the name in storage, queued requests | `setName`, `fetch`, `alarm`, `webSocketMessage`, `#ensureInitialized` | eviction between any two requests; `onStart` that fails; names from four sources | `onStart` completes once per incarnation before any handler runs; a name never changes |
| **partyserver** `index.ts` routing | attempt count, backoff | `routePartykitRequest`, `getServerByName`, retries | retryable against overloaded errors | bounded attempts; never retry what must not be |
| **partywhen** `Scheduler` | the task table, the alarm, the handlers running | `scheduleTask`, `cancelTask`, `alarm`, `executeTask` | a task replaced or cancelled while it runs; alarms due now; failures midway | every due task eventually runs; a cancelled task does not come back |
| **y-partyserver** server | the document, awareness, per-connection awareness clients, a debounced save | `onStart`, `onConnect`, `onMessage`, `onClose`, save | hibernation empties memory; a client id on two connections | no ghost presence; edits saved |
| **y-partyserver** provider | `ws`, `wsconnected`, `shouldConnect`, reconnection timers, its replica of the awareness | `connect`, `disconnect`, `destroy`, open, close, message, page unload | awaits in `connect` against `disconnect`; timers of earlier closes | disconnected means disconnected; users see each other, and nobody who left |
| **partysync** server, agent, react | rows with `updated_at` in a table, in a page's memory and on its disk | calls, broadcasts, one sync per page load | broadcasts before the persisted rows or the sync answer; actions that overlap; deletes | replicas that lost nothing have the table's rows |
| **partyfn** `RPCClient` | pending calls and timers | `call`, resolve, timeout | a late answer | each call settles once |
| **partysub** | topic subscriptions, node set | publish, subscribe, fan-out over nodes | the same message over several paths | each subscriber gets a message once |
| **partytracks** client | peer connection and session streams, `BulkRequestDispatcher`, `FIFOScheduler`, transceivers | push, pull, close tracks in bulk; new sessions | batches that fill while one is pending; answers that come after their stream is gone or has a new session | each caller is answered by the request that carried its entry, unless a batch was full; live tracks are served; nothing leaks |
| **hono-party** | none | request middleware | - | - |

They interact as follows. A browser holds a `PartySocket`, whose inner
WebSocket reaches `routePartykitRequest` in a worker; that resolves the Durable
Object for a name, sets the name on it and forwards the upgrade, retrying
transient failures. The object's `Server` initialises itself, accepts the socket
into its connection manager, and calls the application's hooks. `y-partyserver`,
`partysync`, `partysub` and `partywhen` are subclasses or mixins of `Server`;
their clients (`YProvider`, `useSync`) ride on sockets. `partytracks` talks HTTP
to its own proxy and shares nothing with the others.

## How the modules are laid out

Each component has one module, `X.tla` (state, actions, specification,
properties), a small `MCX.tla` that gives TLC its instance, one `.cfg` per
question, and where something is proved an `X_proofs.tla`. `Link` is an abstract
specification; `ReconnectingSocket_proofs` proves that `ReconnectingSocket`
implements it. `PROJECT.json` maps each definition to the lines of the code it
stands for, lists the hazards of the code at their lines with the properties that
would catch them, and names the runs and the theorems. Operators with a suffix
(`MayConnect_OffByOne`, `Step2_Empty`, `..._Fault`) are deliberately wrong variants
of the definition they are named after: putting one in its place must break the
property it is paired with in `PROJECT.json`, which shows that the property depends
on that code.

Run one with `tlc -config ws_core.cfg MCReconnectingSocket`, check a proof with
`tlapm YSync_proofs.tla`. The theorems about a module are in the module of its name with
`_proofs`; those about `Connections` and `ServerLifecycle`, the two halves of a
`Server`, are in `PartyServer_proofs`.

| Module | Code | Stands on |
|---|---|---|
| `Link` | what `ws.ts` promises its consumer | |
| `ReconnectingSocket` | `partysocket/src/ws.ts` | implements `Link` |
| `UseSocket` | `use-socket.ts`, `use-handlers.ts`, `use-ws.ts`, `react.ts` | sockets seen as a `Link` |
| `Connections` | `partyserver/src/connection.ts`, WebSockets of `index.ts` | |
| `ServerLifecycle` | start, naming and routing in `partyserver/src/index.ts` | |
| `Scheduler` | `partywhen/src/index.ts` | |
| `YSync` | document sync of `y-partyserver` | |
| `YProvider` | connection and awareness of `y-partyserver` | |
| `PartySync` | `partysync` with `partyfn` | |
| `Tracks` | `partytracks/src/client` | |

### ReconnectingSocket and Link: `partysocket/src/ws.ts`

State. `ws` is the readyState of the inner socket, `listening` says whether it
still has our listeners; `lock`, `retryCount`, `shouldReconnect`, `closeCalled`
and `queue` are the fields of the same names. A pending `_connect()` is counted
in `waiting` (inside `_wait()`) or `resolving` (awaiting the URL and protocol
providers). A timer is running (`connectTimer`, `uptimeTimer`) or, when its
handle was overwritten while it ran, a stray. `accepted`, `out` and
`closeEvents` are history.

Actions. `Close`, `Reconnect`, `Send`, `DrainQueuedMessages` are the public
methods; `WaitElapses`, `AttemptConnects`, `AttemptFails` are the continuations
of `_connect()`; the timer callbacks and the platform's open, error and close
events follow. The code calls the consumer's close and error callbacks in the
middle of three handlers; the consumer may call any public method from there.
The handler is then split: `suspended` says what it has left, any public method
may run, and `Return` (or `ErrorHandlerThrows`) does the rest.

`Link` is what all of this amounts to for a consumer: down, trying or up by itself
while it is wanted; messages taken at any time; those taken while it was down
handed over, all of them and first, when it comes up; nothing coming up after
`close()`. The refinement mapping reads its state off `ws`, `lock` and
`closeCalled`.

Abstracted: the length of delays, messages' content, binaryType, the copies of
events.

| Run | Asks | Bounds, and why they are enough |
|---|---|---|
| `ws_core` | never stranded, FIFO buffer, no orphan timer, close event before replacement; implements `Link`; a dropped socket comes back, `close()` completes, no attempt hangs | 3 messages against a buffer of 2, so that the buffer overflows and drains around a reconnection; `maxRetries` 3, so that the limit is reached and the count is reset before it |
| `ws_window` | the assumption on which handlers are split, on a platform that shows CLOSING before it dispatches `close`, with codes `WebSocket.close()` throws on, and an `onerror` that throws | 2 messages, 2 retries |

`ws_core` has `VisibleClosing = FALSE`: the window in which `reconnect()` loses the close
event (see below) is in the model and in `ws_window`, but `ReplacedOnlyAfterClose` is
checked and proved without it.

Fairness (`ws_core`): timers fire, the URL and protocol providers settle,
callbacks return, and a closing handshake ends. It is weak everywhere; none is
given to the network's opening of a socket or to the consumer. A consumer that
reconnects for ever resets the retry counter for ever, so `KeepsTrying` asks
that it cease.

### UseSocket: `use-socket.ts`, `use-handlers.ts`, `use-ws.ts`, `react.ts`

State. `rendered` is the last commit; `dirty` says its effects have not run;
`socket` is the state of `useState`; `initialized`, `prevEnabled`,
`prevOptions`, `drifted` and `createdWith` are the refs; `cleanup` is the socket
the last effect's cleanup will close. `sockets` holds every socket ever made, each
as much of a `Link` as the hook can tell apart: wanted, up, a buffer. `sentTo`,
`reached` and `missed` are history.

Actions. `Render` (new props, new state, or both), `RunEffects` and `Refresh`
(effects run again for the same render, as StrictMode and Fast Refresh do), both
of which run all cleanups and then all effects, `Unmount`, `Send`, and `Opens` and
`Drops` of a socket. The branches of the effect are `Disabled`, `Reenabled`,
`Rerun` and `SetUp`; `Replaced` is `createReplacementSocket`.

| Run | Asks | Bounds |
|---|---|---|
| `hook` | one socket connects, as rendered; messages go once, where they were meant for; the handlers hear every close | 3 sets of options (another destination, other credentials alone, one that starts closed), 4 changes: enough to drift while disabled and come back; 2 messages, one refresh, one lost connection |
| `hook_url` | the comment in `useWebSocket` on what carries over: refuted | 1 message, 1 change |

`ConnectsAsRendered` excepts options that change in the very render that brings a
socket to be set up (`missed`): the effect then takes the set-up branch and
connects a socket made for the older options, until they change again. `hook` is
safety only: React need not render again. `CHECK_DEADLOCK FALSE`: after unmounting
nothing happens.

### Connections: `partyserver/src/connection.ts` and the WebSocket part of `index.ts`

State. For each session (a socket ever upgraded): how far `fetch()` got
(`step`), its `id` and `tags`, the `readyState` of both ends, and how far the
application's `onClose` got. `registry` is `InMemoryConnectionManager`'s map; the
hibernating manager has none and asks the platform for its sockets.
`Yielded(tag)` and `Lookup(id)` are `getConnections(tag)` and
`getConnection(id)`. `connection.state` is `own` on the live object or in the
attachment cache (cold when nothing is cached) and `saved` in the attachment the
platform keeps. `Hibernate`, chosen at the start, selects the manager.

Actions follow `fetch()` (tags rejected, `onConnect` throws or returns), the
close and error events, `close()` by the application, frames arriving at the
client, `broadcast()`, `setState()`, sockets that other code of the object accepts
(`AcceptForeign`, with any tags), and `Sleep`, after which nothing is left but the
attachments. A client closes with a status code or without one (`ClientCloses`):
`closeQuietly()` answers the first, and returns at once for the second (it arrives as
the reserved code 1005), which leaves that connection half-open until it breaks.

| Run | Asks | Bounds |
|---|---|---|
| `conn` | the live connections are listed, and one that closed no more; each is found by its id; state survives acceptance and hibernation; every Close frame with a status is answered, also when `onClose` throws | 2 sessions on 2 ids: a reconnect under the same id beside the old socket, and tags that equal the other's id; 2 calls of `setState()` |

With the hibernating manager a client may come back under its id at any time; in
memory only with `ReuseIds = TRUE`. It is `FALSE` here because the in-memory map is
keyed by the id alone: with `TRUE`, `ConnectedIsListed` is violated, as the new
connection hides the old one and the old one's close event removes the new.
What the hibernating `getConnection()` does then, `LookupFindsConnected` and
`ClosedIsForgotten` say as it is: it throws while a second socket with the id is not
closed yet (`Twin`), and it looks at no readyState, so it still answers with a socket
whose `onClose` was called but whose handshake has not ended; `getConnections()`
leaves such a socket out. A connection whose `onConnect` threw gets no close event and
stays listed (step "ghost"); no property says otherwise.
Fairness: frames that were sent arrive and `onClose` settles.

### Scheduler: `partywhen/src/index.ts`

State. `rows` is the task table with the time left of each row, `alarm` the
object's single alarm, `mode` who runs `alarm()` (the constructor does too),
`batch` the snapshot of due rows the run still has to execute, `current` the
awaited execution. Times are relative, in the table's unit; a row that is due
has `left = 0`.

Actions: scheduling, cancelling and reading tasks, the constructor, the alarm's
delivery and return, the start and end of each execution (a webhook that fails is
logged), `Crash` (the run is cut short; the platform delivers its alarm again)
and `Tick`.

`platform`, chosen at the start, keeps apart what the code handles and what it does
not: `SlowWebhooks` lets time pass and calls arrive while a webhook is awaited,
`LateAlarms` before a due alarm is delivered. Every run covers all four platforms, and
each property says on which it holds: `FutureTaskHasAlarm` on all of them, except that
with slow webhooks or late alarms it says nothing between a run that was cut short and
the end of the next (`cut`; there a late constructor re-times a cron behind the alarm
that is set); `DueTaskHasAlarm` with quick webhooks, however late the alarms;
`OnceUnlessCrashed` on all; `QuickTasksRun` with quick webhooks and punctual alarms;
and `DueTaskRuns`, which `sched_slow` refutes, for punctual alarms and any webhook.

| Run | Asks | Bounds |
|---|---|---|
| `sched_tasks` | the alarm covers the table, a due task keeps an alarm, runs once unless a run was cut short, and runs, each on the platforms named above | 2 tasks up to 3 s ahead and 2 crashes: a task can fall before, on and after the other, and a crash can hit the redelivery of a crash |
| `sched_slow` | the README's promise that a task runs, with slow webhooks: refuted | 2 tasks, 2 s ahead, no crash |

`MinDelay = 1` in both: a task scheduled for a second already begun is never in
the future for `scheduleNextAlarm()`, and waits for some other task's alarm; this
is listed as a hazard. Fairness: time passes, a due alarm is delivered
(the object is constructed for it), and an execution that was begun ends.

### ServerLifecycle: `partyserver/src/index.ts`

State. `status` is `#status` or "down" when the object is out of memory;
`ctxName`, `name` and `stored` are the three places its name can be; `starter` is
whose event runs `onStart()`. For each client, one routed call: its `phase`,
`request`, `attempt`, and how often it was `handled`.

Actions: `Call`, `Refused`, `Retry`, `Deliver`, `Reply` for
`retryDurableObjectOperation` around `fetch()` and `setName()`; `Construct`,
`PlatformEvent` (an alarm or a message, which may bring no name), `OnStartEnds`,
`OnStartThrows`, `Evict` for the object. A Durable Object's input gate is closed
while it awaits storage, so an event's steps up to the start of `onStart()` are
one action; `onStart()` runs under `blockConcurrencyWhile`.

| Run | Asks | Bounds |
|---|---|---|
| `life_named` | the name survives, one `onStart()` at a time, bounded attempts, every call ends | 2 clients with 2 attempts and 2 evictions: a call can be cut by an eviction at each of its attempts while another starts the object |

The run addresses the object by its own name and sends no room header. With
`Headers = {own}` and `OwnName = None`, `KnownNameSurvives` is violated: a name that
was first seen in a header is in memory, so a later `setName()` with it stores
nothing. Fairness: timers fire, calls that were sent are delivered (strong, because
an eviction or another start can disable a delivery for a while), `onStart()` and
handlers end. `CHECK_DEADLOCK FALSE`: the system is at rest once every call has
ended and the evictions are used up.

### YSync: `y-partyserver/src/server/index.ts` and `provider/index.ts`

State. A document is the set of updates it was given, `<<c, n>>` being the n-th
that client c made; it integrates an update once it has the earlier ones of its
author, and its state vector names those. The server has `sdoc` while `awake`,
`disk` is what `onLoad()` returns, `dirty` is the pending debounced save. Each
client has its document, `synced`, and a connection with a FIFO channel each
way.

Actions: `Accept` (the upgrade; `onConnect` sends step 1), `Open` (the provider
sends its own), `Edit`, `ServerReceives` (`handleMessage`; it wakes a hibernated
server, whose `onStart` loads the document and asks every connection),
`ClientReceives` (`readMessage`), `Save`, `Hibernate`, `Crash`, `Drop`.

| Run | Asks | Bounds |
|---|---|---|
| `ysync` | synced providers miss nothing, nothing a client has is left behind, read-only clients change nothing, what was saved stays, the documents converge | 2 clients, the first making 2 updates so that one can overtake the other, the second 1 and possibly read-only; one lost connection, hibernation or crash. Both start offline, so updates made before connecting are there without a fault |

Fairness: messages that were sent arrive, the upgrade and the open event happen
(the provider retries for ever). Saves need none. `CHECK_DEADLOCK FALSE`: it is at
rest once all updates were exchanged. Abstracted: a client notices the loss of
its connection at once (in reality `synced` stays true until the close event), and
an update is atomic. `onSave()` may fail, or be left unimplemented: `Save` then
stores nothing.

### YProvider: the provider's connection, and presence

State. Of each provider, `shouldConnect`, the `connect()` calls that await their
parameters (`pending`), the reconnection timers (`retries`), the socket `ws`, and
its awareness `view`: for each client the highest clock it heard of, and a state.
The server has its own, `sview`. The k-th socket of client c is the connection
`<<c, k>>`, which the server may still hold (`ended`) when the client has lost it;
`ids` are the awareness ids noted in a connection's state; messages travel in FIFO
channels and what was in flight when a connection breaks arrives up to some point.
`told` is history: the consumer's last call, or "overtaken" where it was `disconnect()`
while an earlier `connect()` awaited its parameters.

Actions: `Connect`, `ConnectResolves`, `ConnectRejects`, `Disconnect`, `Opens`,
`Closes`, `ConnectFails`, `Drops`, `RetryFires`, `Moves` (the user's state changes),
`Unloads` and `Leaves` (the page is unloaded or gone), `ClientReceives`,
`ServerReceives`, `ServerCloses` (`onClose`), `Hibernates`. `ApplyUpdate`, `Encode`
and their like are external: what `y-protocols/awareness` does, as the code uses it.

| Run | Asks | Bounds |
|---|---|---|
| `yprovider` | sockets follow `shouldConnect`; the server forgets who left; clients that stay come to agree on each other's state | 2 clients with 2 connections each; one client has two events (calls, changes, failures, departure, hibernation), the other watches: a removal, its relay, its echo and a newer state can cross |

`SocketAsWanted` says that a provider whose last call was `disconnect()` has no socket but
a closing one, and that one that wants a connection has a socket or a retry to come. It
excepts the overtaken `disconnect()`: the pending `connect()` sets `shouldConnect`
again, in the code as in the model.

`ServerForgets` speaks of clients that left after their first connection. When a
client is back under its id before the server handled the close of its earlier
connection, the new connection sees an update rather than an addition and notes
nothing: the late `onClose()` removes the live user, and when the new connection
ends nobody does. `PresenceConverges` says that the first of the two heals.
Fairness: timers fire, parameters arrive, sockets open and close, messages and
close events are delivered. `CHECK_DEADLOCK FALSE`: everybody may have left.

### PartySync: `partysync` on `partyfn`

State. `table` has each row's version (the time of its last write, whether it was a
delete, and the call that made it). Times are whole seconds, as `CURRENT_TIMESTAMP`
gives them in the package's README and fixtures: a write takes the present second or
the next, so writes may share one. `running` are the actions whose `onAction()` has
written and not returned. A client is a page (`useSync`), with the rows it read from disk
(`loaded`), those it shows and those it persisted, or an agent, which persists
nothing. `pending` are the calls that have not timed out.

Actions: `Calls`, `TimesOut`; `ServerSyncs`, `ServerActs`, `ServerRefuses`,
`ServerFinishes`, `ServerAborts`; `Loads`, `PageReceives`, `AgentAsks`,
`AgentReceives`; `Drops`, `Opens`, `Reloads`.

| Run | Asks | Bounds |
|---|---|---|
| `partysync` | who loses nothing misses no live row, keeps no old one, and ends with the table's rows | one page and one agent, 2 rows, 2 writes, in one second or two (so that two actions overlap or tie, or a delete follows a create), one lost connection, reload or timeout |

The properties hold for clients that lost nothing they count on (`whole`). A client
stops being one in five ways, each of which the code plainly allows and none of which a
property of this project can catch:

- a message on its way to it was lost with the connection: nothing asks again until the
  page is loaded again;
- its own call was rejected by a timeout although the write was made: its caller is
  left out of the broadcast;
- an action that began earlier returned after a later one: the last broadcast wins,
  whatever its time;
- a row was written, while the page was not connected or had not asked yet, in the very
  second of the newest row it loaded: `updated_at > ?` skips it (`Skips`);
- the page is loaded again although it lacks a live row that is as old as the newest it
  persisted, or older (`SyncGap`). This happens when a broadcast was persisted before
  the sync was answered, when two writes shared a second, and when the change of the
  older row was still on its way.

A page that stopped counts as whole again when it is loaded from a disk without such a
gap (`AsksForAll`): the sync on load then has to bring it everything it lost.
Fairness: messages are delivered, disks are read, `onAction()` returns, pages reconnect.

### Tracks: `partytracks/src/client`

State. A subscriber of `push()` or `pull()` is a stream with a `phase`. `timers` are
the dispatchers' pending `setTimeout(0)`, each with its batch and those who wait on
its promise; `tasks` the bulk requests in the `FIFOScheduler`; `answers` the
promises whose `.then` has not run. `sfu` is what the service holds for the
session, `stopped` the transceivers that were stopped. What JavaScript does within
one turn is several steps, and `Quiet` keeps the rest out until the turn is over.

Actions: `Push`, `Pull`, `Unsubscribe`, `Asks`, `TimerFires`, `PushRuns`,
`PullRuns`, `CloseRuns`, `Answered`, `Retries`, `DataSent`, `NewSession`,
`PcConnects`, `PcDisconnects`, `SessionLost`. A request may be refused, answered for
some of its entries, or carried out and its answer lost. The code reads no `errorCode`
of a track, and none of a push's response that lists tracks all the same: it finds the
entry by mid and waits for its media. `CompletesWithError` and `Listed` answer so,
whatever the SFU holds, and `refused` remembers whom. History too are `sent` (entries that
timers wait for and a request has carried already) and `split` (kinds of which a batch was full while its timer
was pending, until the timers of the kind have fired).

| Run | Asks | Bounds |
|---|---|---|
| `tracks` | every answer is about its own entry; what is live is served; what is given up is closed; a push gets through | one push and one pull, 2 sessions, batches of 2; the push subscribes up to 4 times with 2 faults, or both up to twice with 3: an answer can come after its stream is gone, was subscribed again, or has a new session, and a batch fills while its timer is pending |

`BatchLimit` is 32 in the code; 2 stands for it, so that batches fill. When one does
while its timer is pending, the old timer resets `#currentBulkResponse` of the new
batch: later callers wait for a third request, which carries nothing of theirs, and are
told that their track is missing. `AnsweredByItsRequest` says what holds in spite of
that: nobody waits for a request that came before the one with the entry, nobody waits
for a later one unless the kind is `split`, and once its timers have fired all is in
order again. `LiveIsServed` and `PushGetsThrough` except the streams in `refused`: they wait
for media that never flows and are not retried. Media is external: it flows
for a track the SFU holds and whose transceiver was not stopped, and for no other.
`abandoned` are the entries the code
gives up without a close request: those of a connection that is not connected, of
an answer that was lost, of a pull whose track never came, and what was carried for a
promise a full batch had parted from it. That the other transceivers of a bulk close
are never stopped is in the model (`CloseRuns` stops the first) and in no property.
Fairness: weak for the event loop, strong for a push's retries and media, and for new
sessions and their connections, which other streams' turns interrupt.

## What is proved

The theorems hold for every value of the constants that satisfies the named
assumptions of the modules. Each invariant is proved from an inductive
strengthening; the strengthenings, and why the bare property is not inductive:

**ReconnectingSocket.** `LockAccountsForAttempts`, `OneSuspendedHandler` and
`CloseStopsAttempts` hold on every platform. `BufferIsFifo` and `NoOrphanedSocket`
hold when the codes given to `close()` are valid (`~InvalidCodes`), whether or not
the platform shows CLOSING: they follow from `Exclusive`, which says that a
socket that is up has our listeners, excludes an attempt in flight and a suspended
handler, and leaves the buffer empty once open. Without its first part an attempt
could start beside a socket nobody hears. `SocketIsNeverStranded` and
`TimersBelongToSocket` hold when the platform hides CLOSING and handlers do not
throw (`~VisibleClosing /\ ~HandlersThrow`): `Supervised` adds that a running timer
has a socket of ours in the right state, that none runs unowned, and that an
attempt in flight or a suspended handler goes with neither a timer nor a live
socket we hear, so that every step which ends one of these leaves another.
`ReplacedWasAnnounced` (`~VisibleClosing /\ ~InvalidCodes`) adds `Announced`: an
inner socket that is down was announced, or its announcement is about to be made.

`SocketImplementsLink` is the refinement: every step of the detailed socket is a step
of `Link` or changes nothing its consumer sees (`~InvalidCodes`). It needs
`Exclusive` (a socket that comes up finds no attempt beside it, and one that is up
has an empty buffer, so that a message taken is delivered) and `Stopped` (after
`close()` nothing is up or retried).

**UseSocket.** One invariant, `IInv`, carries all four theorems. `Supervised`: only
the socket the next cleanup closes can be wanted, so every replacement closes its
predecessor. `UpToDate` ties the refs to the last render whose effects ran, and
`Follows` the socket to the options: they agree unless they drifted while disabled
or changed unnoticed. `Decided` is what the effect concluded, which holds until the
next render. `Once` follows a message: it waits in one socket at most, before it
is transmitted and, unless `transferEnqueuedMessages` is true, in a socket that goes
where it was meant for. `MessagesFollowTheDestination` is about `usePartySocket`;
for `useWebSocket` it is false, as `hook_url` shows.

**Connections** (in `PartyServer_proofs`, with ServerLifecycle). `ReadyPhases` says
which readyState goes with which step of `fetch()` and of `onClose`; `Tidy`, that the
registry holds live connections under their own ids. Together they give
`DeadAreForgotten`, which speaks of `getConnections()` and of `getConnection()` with the
exception above. `ConnectedAreListed` and `LookupIsExact` also need `Distinct` (two live sessions never share an id) and
`Present` (a live session is registered) when the manager is in memory, hence their
condition (`~ReuseIds`). `StateSurvives` follows from `Cached`: the cache of a
wrapped connection, unless cold, agrees with the attachment, and a connection that
is not accepted or is in memory is its own and only copy.

**Scheduler.** `ExecutedOnce` from `Begun`, which ties the count of executions to
the snapshot and the crashes. `DueTasksKeepAnAlarm`, for quick webhooks and tasks
scheduled at least a unit ahead (`~SlowWebhooks /\ MinDelay = 1`), from
`SnapshotComplete` (a run's snapshot has all the due rows) and `Armed` (an alarm is
set whenever rows are left and no alarm handler is running). `FutureIsCovered` has
no condition. With quick webhooks and punctual alarms it follows from
`SnapshotComplete` and `Cover`, whose part `CronsDue` says why a run that re-times a
cron cannot move it behind the alarm: that alarm is due. With slow webhooks or late
alarms it follows from `Settled`, the property itself outside a run that was cut short.

**ServerLifecycle.** `StartIsExclusive` follows from typing; `NameSurvives` from
`NameKept` (what is known is stored, or is the id's own name), when no header is used;
`RetriesAccount` from `Accounted`, which counts the handled attempts phase by phase.

**YSync.** `ReadOnlyStaysOut` from `Kept`: documents and channels other than those
of read-only clients carry no update of theirs. `SavedIsNeverLost` from `Loaded`:
an awake server has all that is stored. `NothingIsLeftBehind` is the main result.
Its invariant `Delivery` has four parts besides types: `Authored` (an update is
always in the document of its author, so a state vector on its way to a client
cannot name an update the client has yet to make); `Handshake` (a connection that
is not yet open was asked for its state first of all); `Backed` (what the server
sent and no longer has, because it slept without saving, a later message of the
same channel asks for); and `Covered`, the property itself for connections being
opened too. `Backed` is what makes hibernation safe: a client that applies an old
message after the server forgot it still finds the state vector behind it.
`SyncedHearsAll` is the other direction, what the server has and a synced client
lacks. The bare property says nothing while the step 2 that will make the client
synced is on its way, and nothing about a server that sleeps. `Heard` does: once the
client's state vector is answered, on the wire or already, what the server has
integrated, or would load on waking, is in the client's document or in a message to
it. An answer is complete only if the state vector it answers names nothing the
client lacks, which is `Asks`; it also takes `Handshake`, and `Loaded`, without
which waking could bring the server something it never sent.

**PartySync.** `NoLiveRowIsMissed` and `NoOldRowStays` share one invariant,
`SyncInv`. For every client, `AsksOnce`: one request to sync or one answer to it is
about while the phase is syncing, and the request starts where the rows that were
loaded end. For a client that has lost nothing, `Sound`:

- `Flow`: the last message about a row has its present version, or the action that
  wrote it is still running (`LastWord`); a live row that an agent's sync answer
  leaves out comes after the answer (`ToldAll`); what is held and what is persisted
  is the present version, or that one is coming (`Kept`, `Replaced`). The bare
  properties speak of what is held alone, so a message that is overtaken by what it
  replaced would break them one step later.
- `RunningEnds`: of the actions that run on a row the last wrote last, so that
  finishing them in order never sends an old version last.
- `Base`: a live row the page did not load is newer than all it loaded. It makes the
  sync request sufficient; without `Skips` a write keeps it while the page has not asked,
  and without `SyncGap` a reload keeps it, or restores it (`AsksForAll`).
- `Ids`: a call is in one place (asked, running or answered) and its caller awaits
  it. A caller is left out of the broadcast, so if its answer found no resolver the
  change would be lost; `Callers` says that it is still connected, or has a new id.
- `Down` and `Awaiting`: what a page holds and asks for before its socket opens.

That a newest row exists (`LastRecordTimeIs`) is proved from the well-foundedness of
the natural numbers, for any set of rows, finite or not.

**YProvider.** `ProviderFollowsItsUser`: `SocketAsWanted` is inductive beside the types
of the socket's fields and `SocketFacts` (an open socket was counted; after a
`disconnect()` that was not overtaken, no `connect()` is pending and `shouldConnect` is
false).
`ServerForgetsLeavers` needs to know what is on its way. A client is young while it
has only its first connection and the server has not hibernated; it is gone when
that connection has ended and its last message was handled. `ForgetInv` says of
young clients: whatever others hold (`ViewInv`), are being sent (`DownInv`) or echo
back (`UpInv`) has been past the server, so its clock is not above the server's,
and it is a removal only when the client is gone; on the client's own connection a
removal comes last, and only once it has ended; and whom the server sees is noted
for that very connection, which it still holds (`ServerInv`). So an echo never
resurrects and an addition is always noted for the connection whose `onClose()`
removes it. The argument fails for a client's second connection, as it does in the
code.

**Tracks.** Everything stands on the dispatchers: `Adds` says what a request does to
the pending timers (each only grows, at most one gains a waiter, one gets the entry)
and `Joins` that a promise that can be joined belongs to the batch that is filled.
All four theorems hold for every batch limit, full batches included.
For `LiveAreServed` the bare property breaks when a late answer or a
close reaches a live entry, so `Sound` follows entries before they get there:

- `Asked`: who waits for an entry, in a timer, a task or an answer, is a stream that
  is `asked` or has given that entry up; and whatever is to be closed was given up.
  Given up is for good (`GivenUpStays`): transceivers and sessions only go up.
- `Once`: nobody waits twice for one entry. A second answer would reach a stream
  that has gone on from the first.
- `Held`: what was answered `found` is held or `refused`, and what is live is held.

`WaitsForItsRequest` has an invariant for each half of the property. `Paired`: a kind
that is not `split` has one timer, and who waits for it is whom its batch carries.
`Awaited`: an entry that is waited for was carried, or is in a batch that goes out no
later than its promise is resolved; this holds for full batches too.
`NothingIsLeaked` adds `InOrder` (requests are carried out in the order of
their sessions) and `Fresh` (once a session carries media no older request is left
before it, and what a session that does not yet carry any holds was given up): so a
close that finds its connection gone had nothing left to close. `Accounted` is the
property, with the answers that are still on their way.

Model-checked only: liveness (`KeepsTrying`, `CloseCompletes`, `ConnectingEnds`,
`HandshakeCompletes`, `QuickTasksRun`, `EveryCallEnds`, `Converges`,
`PresenceConverges`, `PushGetsThrough`), which is out of the prover's reach.

## What the runs found

| Where | What |
|---|---|
| `partywhen/src/index.ts:128` | a task that becomes due while `alarm()` awaits a webhook is in neither the snapshot nor the next alarm's query (`sched_slow`) |
| `partysocket/src/use-ws.ts:35` | the destination key ignores the options it is given, so buffered messages always follow the hook to another URL, against the comment above it (`hook_url`) |

Other behaviour a reader may not expect, all of it in the models; the properties say
where they except it:

- `partysocket/src/ws.ts:371`: where CLOSING is visible before the close event,
  `reconnect()` assumes the event was already dispatched, and it never is.
- `use-socket.ts:224`: options that change together with a replacement are not
  noticed (`missed`).
- `use-socket.ts:122`: what is sent on a socket that was already replaced stays in
  its buffer.
- `partyserver/src/connection.ts:371`: in memory, a connection that comes back under
  its id hides the old one, whose close event then removes the new.
- `connection.ts:399`: hibernating, `getConnection()` throws while two sockets of an id
  are not closed yet, and still answers with one whose `onClose` was called.
- `partyserver/src/index.ts:69`: a Close frame without a status is not answered.
- `connection.ts:165`: a falsy state set before the socket is accepted is lost.
- `partyserver/src/index.ts:1080`: `setName()` after a request with the room header
  stores nothing, so the next cold wake has no name.
- `y-partyserver/src/provider/index.ts:641`: a `connect()` that awaits its parameters
  wins over a `disconnect()` made meanwhile.
- `y-partyserver/src/server/index.ts:500`: after hibernation nobody removes a user
  who leaves.
- `partysync/src/server/index.ts:73`: a row written in the second of the newest row a
  page persisted is not in that page's next sync answer.
- `partytracks/src/client/PartyTracks.ts:249`: a push that is answered with an
  `errorCode` beside its track counts as pushed, and is not retried.
- `partytracks/src/client/Peer.utils.ts:64`: a batch that fills while its timer is pending
  parts later callers from the request with their entries.
- `partytracks/src/client/PartyTracks.ts:480`: a bulk pull whose request is rejected
  is never tried again within the session; pushes are (`CHANGELOG.md:242`).

## What is not modelled, and the plan

1. Row identities beside task ids in Scheduler, for a task replaced while it runs.
2. The optimistic value of `useSync` and several channels; `replaceTrack` and shared
   subscriptions in Tracks; BroadcastChannel in YProvider (two providers of one
   browser); message delivery to `onMessage` in Connections.
3. **PartySub**: fan-out over the nodes of a topic.

Left out for good: `routePartyTracksRequest` and `hono-party` (stateless
forwarding), device enumeration, screen capture, fallback tracks and audio handling
of `partytracks` (browser I/O), SDP contents, custom messages and the resync
interval of the provider, `gen-ids.ts` (a table), and the packages that have no
source yet (`partyagent`, `partybase`, `partyflow`, `partyhard`, `partysession`,
`partysmart`, `party.io`).
