# A TLA+ model of wppagent

wppagent is a Node.js server that keeps WhatsApp Web sessions alive: each
session is a Chrome page driven by puppeteer, a row in a SQLite database and an
entry in the memory of the one server process. The repository also holds the
library that drives the page, the code it injects into the page, and a second,
stand-alone server (`api-server/`) with the same purpose. This directory holds
TLA+ modules translated from that source, TLC configurations that check them on
small instances, and proofs for every value of the constants. Paths below are
relative to the repository root.

1. [The system](#1-the-system)
2. [Modules](#2-modules)
3. [Models and code](#3-models-and-code)
4. [Runs](#4-runs)
5. [Fairness](#5-fairness)
6. [Proofs](#6-proofs)
7. [What is only model-checked, and what is not modelled](#7-what-is-only-model-checked-and-what-is-not-modelled)
8. [Differences between text and code](#8-differences-between-text-and-code)
9. [What could come next](#9-what-could-come-next)

## 1. The system

### Components, their state and their operations

| component | source | state | operations |
|---|---|---|---|
| session manager | `src/services/whatsapp-session.manager.ts` | `sessions`, the map from name to client; reconnect timers | `startSession`, `stopSession`, `sendMessage`, `initializeSessions`, `cleanup`; the callbacks `catchQR`, `statusFind`, `onMessage`, `onAck`, `handleDisconnection` |
| session rows | `src/models/session.model.ts` | `sessions.status`, `auto_reconnect`, ... | `create`, `update`, `updateStatus` (throws without a row), `delete` (four statements), `findAll` (one page) |
| REST API | `src/routes`, `src/controllers`, `src/middleware` | counts of the limiters | a request passes limiters, token, role, validation and handler; handlers write rows, never call the manager |
| tenants and users | `src/models/tenant.model.ts`, `user.model.ts`, `src/services/auth.service.ts` | rows | tenant of a request, its gates and limits; registration, login, change of password |
| message rows | `src/models/message.model.ts`, `conversation.model.ts`, `contact.model.ts` | messages, conversations, contacts | `create`, `updateAck`, `markAsRead`, `upsert`, `incrementUnread` |
| client creation | `src/controllers/initializer.ts`, `browser.ts` | the browser | `create`, the re-login of `onStateChange`, the `disconnected` event |
| host layer | `src/api/layers/host.layer.ts`, `src/api/whatsapp.ts` | flags of the page, timers | page load and injection, QR, login, synchronisation, auto-close, poll for an unpaired account |
| page API layers | the other files of `src/api/layers`, `src/api/helpers/evaluate-and-return.ts` | exposed functions, event emitter | some 250 methods, each a few steps in node and in the page; listeners |
| in-page library | `src/lib/wapi` | queue and buffer of new messages | `waitNewMessages`, the debouncer, the unread queries |
| process | `src/server.ts`, `src/app.ts`, `src/config/database.ts` | `isShuttingDown`, `ResourceCleaner` | start-up, `gracefulShutdown`, listeners for signals and errors |
| database life | `src/config/migrations.ts`, `src/services/backup.service.ts` | schema, `migrations` and `backups` rows, `isBackupRunning` | `runMigrations`, `createBackup`, `deleteOldBackups`, `restoreBackup` |
| presence, WebSocket | `src/services/presence.service.ts`, `websocket.service.ts` | `online_users` rows, sockets, rooms | connect, status, disconnect, clean-up |
| analytics, health | `src/services/analytics.service.ts`, `health.service.ts` | `analytics` rows | counts per tenant, checks and verdicts |
| retry, memory and database utilities | `src/utils/*.utils.ts` | breaker, bucket, pool, heap readings | `CircuitBreaker`, `parallelLimit`, `retry`, `withTimeout`, `RateLimiter`, `MemoryMonitor`, `DatabasePool` |
| stand-alone API server | `api-server/server.js` | its own map, reconnect counts, conversations, agents, webhooks | sessions with reconnects, message handler with assignment, transfers, SIGINT |
| token stores, types, examples | `src/token-store`, `src/types`, `src/api/model`, `examples` | – | single accesses of a file, declarations, samples |

The parts interact in four ways. The manager *awaits* calls into the browser;
between two awaits nothing else runs, across an await everything may. The
browser and the page *call back* into the manager, by session name. REST
handlers, listeners and the manager *share rows*; SQLite calls are synchronous,
so a handler without an await is one step. The process's start-up and shutdown
*drive* the manager and the services while callbacks, timers and requests go on.

### What is hard here

- `startSession` tests the map before `await create(...)` and writes it after;
  start-up and a reconnect timer may start one session twice.
- Callbacks name a session, not a client: an unpaired client that was never
  closed, or one that was replaced, still drops the entry of the current one.
- A row may be deleted at any time; `updateStatus` then throws, in callbacks
  nobody awaits.
- The document of a page is replaced while a function runs in it, while a chain
  of injections goes on, while listeners are attached one after the other.
- An error in one handler skips the rest of it: which writes belong together?
- What was read before `bcrypt`, a webhook, `getContact` or `close` was awaited
  may be stale when it is used.
- Three files listen for the same signals and errors, and the shutdown may begin
  while the start callback still awaits sessions.
- A crash between two statements of a migration or of a backup.
- A timeout gives up on an operation that goes on.

`PROJECT.json` lists these hazards at their lines, with the properties that
cover them.

### What makes each component correct

The *managers*: their maps hold only clients of the right name that have logged
in; a client that has left a map never comes back; a lost auto-reconnect session
is reconnected; start-up and shutdown end. *Rows*: a deleted session stays
deleted, no row outlives its session or its tenant, the count of a conversation
misses no unread message and counts none twice, an email and a slug are used once. *Requests*: refused
ones change nothing, limits hold in each window, only staff change what is
staff's. *Page*: a call that resolves had its effect once, unless its page
function may answer without one, a refused one had none, a callback hears events
in order and none twice, a login that failed has closed its page, and what does
not settle is one of a few named cases. *Database*: a recorded migration was
applied, a completed backup can be restored, a server comes up after any crash
between backups, the flag of a running backup clears. *Process*: what was
started is stopped once, and an uncaught error ends the process. *Utilities*:
the breaker cools down, the bucket keeps its rate and serves somebody, the pool
hands no connection out before it is released, a retry answers with its latest
attempt.

## 2. Modules

| module | models |
|---|---|
| `SessionRegistry` | abstract specification of a map of active sessions: attempts begin for a name, are stored once under that name, dropped, given up; implemented by both servers |
| `SessionManager` | the manager with rows, browsers, requests, start-up and shutdown |
| `ApiSessions` | the session manager of `api-server/server.js` |
| `MessageStore` | message, conversation and contact rows under concurrent listeners |
| `ApiInbox` | message handler, agents, transfers, webhooks and daily counts of `api-server/server.js` |
| `Accounts` | users: registration, login, change of password around the awaited hash |
| `RestRequests` | the stages of a request under `/api/v1` and what its handler does to the rows |
| `Tenants` | tenants, the tenant of a request, gates, stored events |
| `Records` | composition of the five row-keeping modules above for TLC |
| `BrowserPage` | the page: documents, injection chains, closing |
| `HostLogin`, `ListenerLayer`, `PageCalls` | login and unpaired poll; events from page to callbacks; calls of methods; each built on `BrowserPage` |
| `SenderCalls`, `ChatCalls`, `GroupCalls` | the methods of all layers as sequences of steps, interpreted by `PageCalls` |
| `Page` | composition of the page with its layers |
| `MessageQueue` | the in-page queue of new messages |
| `ServerLifecycle` | start callback, `ResourceCleaner`, signal and error listeners of `src/server.ts`, `app.ts`, `config/database.ts` |
| `ServerData` | schema, migrations, backups and restore over crashes |
| `Presence` | online users, sockets, what clients are shown |
| `Dashboard` | the counts of analytics as functions of the rows |
| `CircuitBreaker`, `ParallelLimit`, `Retrying`, `TokenBucket` | the utilities of `retry.utils.ts` |
| `Monitors`, `ConnectionPool` | memory and health monitor; `DatabasePool` |
| `Services` | composition of the last eleven for TLC |
| `SessionManagerProofs`, `ApiSessionsProofs`, `MessageStoreProofs`, `TenantsProofs` | theorems about the module before the suffix (section 6) |
| `RecordsProofs`, `PageProofs` | theorems about the compositions, and about their parts that have no module of proofs |
| `ServerProofs`, `UtilityProofs` | theorems about the parts of `Services`: process, database, presence, queue, dashboard; and those of `src/utils` |
| `MCSessionManager`, `MCMessageStore`, `MCPage` | symmetry sets and small functions for TLC |

`SessionRegistry` is the abstract specification; `SessionManager` implements it
with `pending <-` the attempts before `sessions.set`, `ApiSessions` with
`pending <- launching`. Both refinements are checked by TLC and proved.

`Records`, `Services` and `Page` hold a variable `part` that says which of their
modules runs and never changes. The parts of `Records` and `Services` share no
state in the code either (each owns its tables or its object and calls none of
the others), so an interleaving of two shows nothing that one alone does not;
one run explores all of them, each from every initial state. The layers of
`Page` meet in the page only: each runs beside all steps of the page, not
beside the other layers. The properties of a composition are the conjunctions
of those of its parts; a property that speaks of all steps (`RequestsAreEntitled`,
`WaitersAreServed`) is stated where the parts come together.

Definitions whose comment begins with "Mutant" are faulty variants of the
definition that follows them. No specification uses them; each shows that a
property is not vacuous, because the property fails when the variant takes the
definition's place.

## 3. Models and code

The unit of interleaving is the code between two `await`s. SQLite calls are
synchronous and belong to the step that makes them. Times are abstracted to
order, except where the code compares them (breaker, bucket, retry, dashboard).
`PROJECT.json` maps every definition to its lines; this section gives the main
correspondences and the abstractions.

### SessionManager

| action | code |
|---|---|
| `StartSession` | `startSession` up to `await create` (check of the map, `updateStatus(CONNECTING)`); used by `ReconnectTimer` and `BootNext` |
| `LaunchBrowser`, `LaunchFails` | `initBrowser` in `create` |
| `StartRejects` | `client.start()` in `create` rejects with the browser open, the `catch` of `startSession` |
| `LoadPage`, `CatchQR` | `waitForPageLoad`; `checkQrCode` → `catchQR` callback |
| `LoggedIn`, `LoginFails` | `waitForLogin`, the `catch` of `startSession` |
| `CreateResolves` | `waitForInChat`, `create` resolves, `sessions.set` |
| `StartCompletes` | `getHostDevice`, listeners, `updateStatus(CONNECTED)` |
| `AutoClose` | `startAutoClose` / `tryAutoClose` → `statusFind('autocloseCalled')` |
| `Unpair`, `ReportUnpaired` | poll of the `Whatsapp` constructor → `statusFind('desconnectedMobile')` |
| `ReloginSucceeds`, `ReloginFails` | the second `waitForLogin` in `create`'s `onStateChange` |
| `LosePage`, `BrowserClosed` | the page dies; `browser.on('disconnected')` → `browserClose` |
| `ReconnectTimer` | the `setTimeout` of `handleDisconnection` |
| `RestCreate` ... `RestStop` | the REST handlers |
| `Boot`, `BootNext`, `BootResumes` | `initializeSessions` |
| `GracefulShutdown`, `StopBegins`, `StopCompletes`, `ExitsCleanly`, `ForcedExit` | `gracefulShutdown`, `cleanup`, `stopSession` |
| `Interrupted` | the `SIGINT` listener of `config/database.ts`; a crash |

`sessions` is the manager's map. `phase[c]` says how far the `startSession` of
attempt `c` has come, `browser[c]` what is left of its browser ("closing": the
page is gone, the `disconnected` event is still to come). `notices`, `relogin`
and `timers` are pending callbacks. `server = "failing"` stands for the 100 ms
between an uncaught error and `gracefulShutdown`. `bootTodo`, `bootWait`,
`drainTodo` and `drainWait` are the loops of `initializeSessions` and `cleanup`
and what they await. An attempt's identity is used again once nothing refers to
it (`Free`), so that a finite set stands for unboundedly many attempts. The
events the manager emits are forwarded to web sockets and change no state, so
they are left out, as are the columns other than `status` and `auto_reconnect`.

### ApiSessions and ApiInbox

`Launch`, `Created` and `CreateFails` are `createSession` before and after
`wppconnect.create`; `LoggedIn`, `Unpaired` and `BrowserClosed` are its status
callback, which awaits webhooks (`WebhookDone`, `WebhookThrows`);
`ScheduleReconnect` captures the attempt count, `TimerFires` uses it;
`BeginClose` and `CloseReturns` are `closeSession` around `client.close()`;
`Sigint`, `SigintNext` and `Exit` are the loop over the map. The browser and the
pool of identities are external. `ApiInbox`: `Deliver` writes the rows of a
message, `HookAnswers` ends one awaited webhook, `HandlerEnds` assigns the
conversation to the least busy agent and recounts the day. Nothing keeps two
handlers of one message apart: each carries the `turn` in which it came (the
`unread_count` it wrote). `Transfer`,
`PatchAgent`, `PostWebhook` and `DeleteWebhook` are requests that come between.

### Rows and requests

`MessageStore`: `OnMessage(l, m)` is the `onMessage` handler of client `l` up to
`await client.getContact`, `ContactAnswers` the rest; `SendResolves` and
`SaveSent` / `SaveSkipped` are `sendMessage` after `sendText` and after
`getHostDevice`; `OnAck`, `MarkAsRead`, `DeleteSession` and `CreateSession` are
what their names say. More than one listener exists because an orphaned client
keeps its own. An ack event carries an object as its id (`EventId`;
`src/api/model/ack.ts`), which `OnAck` hands to `updateAck` as it is; `UpdateAck`
looks for the row with that value, finds none and only logs the error.

`Accounts` splits `register`, `login` and `changePassword` at each `bcrypt` call
and counts the hits of `authLimiter`, which gives successful ones back.
`RestRequests`: nothing between the first limiter and the answer waits for I/O,
so `Request` is one step; `Refusal` is the first stage that turns it away,
`Result` what the handler does, with the four statements of
`SessionModel.delete` apart. `Tenants`: `Named`, `Context` and `Refuses` are
`tenantContext` and the gates behind it. `src/routes/index.ts` does not mount
the tenant, analytics and backup routers; the integration tests and
`ADVANCED_FEATURES.md` use them, and they are modelled from their own source.

### Page

`BrowserPage` gives each load of the page a document and a chain (`Configure`,
`CheckInjected`, `AddScripts`: `afterPageLoad` with `injectApi`). `HostLogin`
runs `waitForLogin`, its auto-close timer, `checkQrCode`, `checkInChat`, the
hooks in the document and the poll for an unpaired account. `ListenerLayer`
exposes functions and registers forwarders, one chain per document, and follows
each event to the callbacks. `PageCalls` interprets the program of a method:
`SenderCalls`, `ChatCalls` and `GroupCalls` give each method its steps ("read",
"convert", "act", "query", "ignore", ...) as found in its body; methods with the
same steps share a program. A step "may" is one whose page function may answer
without an effect (`starMessage` answers 0 when the page rejects, `deleteChat`
and `clearChat` false for another status than 200, `setTheme` of an unknown
theme). `Request` sends a request by HTTP, which has no time limit; the call is
in stage "network" until `Download`, `Poll` or `Retry` hears the answer, if one
comes. `Lose` is a promise that never settles: an exception in the executor of
`sendPtt`, a response that breaks after its headers (`Retry`), a reader of the
encrypted file that fails (`Pipe`). What the page does with an argument is external
(WhatsApp Web and its wrapper are not in the repository), as are protocol
timeouts (`TimeOut`) and replaced documents (`Forsake`). `MessageQueue` is the
part of the in-page library that keeps state: `MessageAdded` with its delays,
`WaitNewMessages`, the debouncer's `Flush` with throwing callbacks, and the two
unread queries.

### Services

`ServerLifecycle`: `BootContinues` is the callback of `listen` after
`initializeSessions`; `GracefulShutdown`, `Sigterm`, `Sigint` and `Uncaught` are
the listeners of the three files, `SoftTimer`, `AppTimer` and `HardTimer` their
exits after 100 ms, 1 s and 30 s. `ServerData`: `Migrate1` / `Record1` and
`Migrate2` / `Record2` split a migration from its record; `CreateBackup`,
`CopyEnds` and `CompressEnds` are `createBackup`, `Cleanup` is
`deleteOldBackups`, `Restore` closes the handle first, as the code does. `Crash`
may come between any two. `Presence`: `Connect`, `UpdateStatus`, `Disconnect`
with their broadcasts, `CleanupStaleRecords` with the comparison of two date
formats as text. `Execute`, `Succeeds` and `Fails` are `CircuitBreaker.execute`
around `await fn()`. `ParallelLimit` has one action for each stretch between
awaits. `Retrying` is `retry` around `withTimeout`, whose operation goes on
after the timer won. `TokenBucket` polls in no order, and callers come again and
again; it keeps the time since the last refill (`elapsed`) instead of two times,
and counts it up to `Full`, when any bucket is full. `Monitors` reads the heap
and the verdicts of health. In `ConnectionPool`, `ExecuteOnce` is `execute` of a
synchronous function, `ExecuteAsync` of one that returns a promise: its
connection is free again at once, and the caller works on with it (`lingers`)
until `LingerEnds`. `Dashboard` holds the queries as functions over rows that others
write, with stamps in seconds and milliseconds as they occur.

## 4. Runs

Passing runs. Deadlock is checked in `SessionManager_safety` and
`SessionManager_lifecycle`; everywhere else the system may stop (no request
comes, a call has ended, a bound is reached), so the cfg says
`CHECK_DEADLOCK FALSE`.

| run | instance | shows |
|---|---|---|
| `SessionManager_safety` | 1 name, 2 attempts, 2 timers, all outside events | `ManagerIsSound` (types; a client in the map has logged in under that name), `NoResurrection`, `RegistrySpec` |
| `SessionManager_names` | 2 names, 2 attempts, unpairing and signals | `RegistrySpec` when the sessions could be mixed up |
| `SessionManager_lifecycle` | 1 name, 2 attempts, requests, losses, signals, fair | `ShutdownEnds`, `ReconnectHappens`, `StartupEnds` |
| `ApiSessions` | 1 name, 2 clients, 2 overlapping requests, 2 reconnects, fair | `SessionsAreSound`, `SessionsRegistrySpec`, `LostIsRetried`, `SigintEnds` |
| `Records` | parts listeners, handler, accounts, rest, tenants | see below |
| `Page` | parts calls, login, watch, listeners, over 2 documents | see below |
| `Services` | parts breaker, parallel, data, presence, retry, bucket, lifecycle, pool, monitors, queue, dashboard, fair | see below |

`Records` (1.2 million states, up to symmetry):

- `StoreIsSound` (listeners; 3 received messages in 2 chats, 1 sent, 2
  listeners): `unread_count` of a chat misses no unread message of others and
  counts no stored one twice (it may count messages that were read, section 8);
  no rows without a session; each such message has its conversation.
- `InboxIsSound`, `TransfersWin` (handler; 2 agents of capacity 1, a webhook,
  2 deliveries at once from one contact and 1 from the other, midnight): automatic assignment keeps the capacity, the counts of
  the day match the messages, a transfer by hand is not undone by a handler
  that read the conversation before.
- `AccountsAreSound` (accounts; 3 overlapping calls, 2 passwords, 1 failure per
  window): one account per email, a password that works was set for it, the
  limiter counts failures although successes give their hit back.
- `RestIsSound` (rest): no rows are left without a session by the four-statement
  delete, creations stay within their limiter in each window.
- `TenantsAreSound` (tenants; 2 tenants, 2 slugs): slugs are unique, each stored
  row has its tenant, over deletion and reuse of a slug.
- `RequestsAreEntitled` (rest, tenants): a refused request changes nothing; rows
  are changed by staff only; events are stored for active tenants only.

`Page` (136 thousand states; 1 call of any program, 2 events, 2 callbacks):

- `ResolvedHadEffect`, `SettledIsQuiet`: a method that awaits its effect and
  resolves has had it exactly once, and one with a "may" at most once; after a call has settled the account changes
  only if the call timed out or never awaited its effect.
- `PageIsSound`: a refused input had no effect; a failed login has closed its
  page (nobody else could); a login that succeeded leaves no auto-close timer.
- `HeardInOrder`: no callback hears an event twice or out of order, over two
  overlapping chains and a replaced document.
- `PageSettles`: calls settle, but for those named in the formula (section 5); a
  login settles once a document stays injected, which then comes to forward
  every event. `UnpairIsTold`: an unpaired account is reported unless
  the document changes.

`Services` (181 thousand states):

- `BreakerIsSound`, `BreakerProbesFirst` (3 calls, threshold 2, cool-down 2):
  state and count agree; no call before the cool-down is over, no closing
  without a probe.
- `ParallelIsSound` (5 items, limit 3): the limit until one of the first items
  settles, and the results that were awaited.
- `DataIsSound`, `DataSettles` (2 backups, 2 crashes): a recorded migration was
  applied to its end, the flag of a running backup has an owner, a completed
  backup can be restored, a row in progress has an owner; a server comes up
  again, the flag clears.
- `PresenceIsSound`, `GhostsGo` (2 sockets, 2 users, restart, midnight): rows
  have sockets, a user shown online has a row or was swept; rows of a dead
  process go.
- `LifecycleIsSound`, `ProcessEndsAfterError`: each resource is stopped once,
  none is forgotten although start-up and shutdown overlap; an uncaught error
  ends the process even if a session never closes.
- `RetryIsSound` (3 retries): `retry` answers with its latest attempt, although
  operations that were given up may end first, and its delays grow.
- `BucketIsSound` (2 callers that come again and again, capacity 3): the bucket
  holds what one refilled at every moment would hold, so in any stretch of time
  no more than the capacity and what came in it is handed out.
- `PoolIsSound` (2 connections, 2 callers): none is handed out to a second caller
  before the first released it, none is lost, though functions throw or go on
  asynchronously. With those it is shared (section 8); the property says nothing
  of them.
- `MonitorsAreSound`: the window holds the latest readings, every leak is
  reported and nothing else is.
- `WaitersAreServed`: `parallelLimit` and `retry` end; while somebody waits in
  `acquire` for no more than the capacity, *somebody* is served again and again
  (not necessarily the one who waits, section 8); the message queue empties, and
  the first callback gets everything in it unless the page reloads.
- `QueueIsSound` (3 messages, 2 callbacks): a queue that is not empty has a
  timer, no message is handed over twice, what was returned is not new.
- `DashboardAddsUp` (2 owners, 2 sessions, 2 messages): the parts of a total make
  the total.

Runs that end in a violation, each for a sentence of the repository the code
does not keep:

| run | property | what happens |
|---|---|---|
| `SessionManager_active` | `ActiveIsLive` | the page is lost between the login and the end of `create`; `waitForInChat` does not await its last check, so the dead client is stored after `browserClose` was handled and blocks every later start |
| `SessionManager_deleted` | `OperationalErrorsContained` | a session is deleted while its client works; the next status callback throws `NotFoundError` where nobody catches it and the process shuts down |
| `MessageStore_ack` | `AckUpToDate` | an `ack` event carries an object as its id, the row is looked for by a string: no acknowledgement ever reaches a stored message |
| `ParallelLimit_limit` | `LimitRespected` | after a race the loop removes the promise it has just added, not the one that settled |
| `ServerData_compress` | `CompressedAreCompleted` | `compressFile` has unlinked the original when its size is asked for: every scheduled backup ends as "failed", its `.gz` is not recorded and old backups are never deleted |

### Bounds

- `Client`: two overlapping attempts are enough for every race of one session:
  the check-then-store race, an orphan against its successor, a reconnect
  against start-up or a shutdown.
- `MaxTimers`: a step that would arm one more reconnect timer of a session is
  not taken while that many are pending. Two is the case in which two events of
  one client (auto-close and the end of its browser) each arm one. The proofs
  hold for every bound.
- `PageLimit` is 50 in the code; an instance has at most two rows.
- `Env` selects the kinds of outside events: requests ("rest"), unpaired phones
  ("unpair"), lost pages ("lose"), signals and crashes ("signal"). All four are
  on in `SessionManager_safety`.
- `MaxAttempts` is 5 in the code; two is one reconnect after another and none left.
- `MaxLoads`: two documents are what overlapping chains and a call whose
  document goes away need. `MaxUnpairs`, `MaxPolls`, `MaxFires`: one unpairing,
  one repeated download, two events for an order.
- `ApiMax`, `SessionMax`, `MessageMax`, `AuthMax`: small limits, so that the
  limiters refuse; each window is reset and used again.
- `MaxCrashes`: the second crash finds the state the start after the first left.
- `MaxTime`, `MaxFailures`: two cool-downs and a late failure.
- `MaxDeliveries`: deliveries of each contact's message that overlap; two of one
  and one of the other are what counting and assignment can get wrong.
- `MaxTokens` is one more than `Capacity`, so that a caller may ask for more than
  there can be. `Full` bounds no behaviour: the bucket is full by then.
- `LeakWindow`, `MaxSnapshots`: 10 and 100 in the code; the instance fills both
  and slides them.
- `MaxAck`: acknowledgement levels; one more adds only longer sequences.

## 5. Fairness

Everything is weak fairness, and every one is an obligation of the Node.js event
loop or of a time limit in the code. Nothing is assumed of requests, signals,
phones, pages that are lost or crashes.

- `SessionManager`: logins of an injected page (the auto-close timer ends one nobody completes),
  `getHostDevice` and `close` (calls into a page fail when it goes), timers, the
  `disconnected` event, the resumption of settled promises. Not the 30 s limit
  of the shutdown, so `ShutdownEnds` does not lean on it. And not the launch of a
  browser, nor the load of its page: the `goto` has no time limit, errors of the
  injection are swallowed, and the loop of `waitForPageLoad` polls an open page
  for ever. `StartupEnds` says that such a client, awaited by the start callback,
  is the only thing that can keep start-up from its end.
- `ApiSessions`: timers, webhooks and `close` settle, the SIGINT loop goes on.
- `Page`: injection chains, the close of the browser, steps in node including
  the protocol timeout, the polls and the auto-close timer of a login, the poll
  for an unpaired account, the chain that attaches listeners. That a function in
  the page ends is not assumed, nor that a request by HTTP is answered (axios is
  given no time limit). Steps in node include reading a file and conversions by
  `sharp` and `ffmpeg`; that those end is an assumption about the machine.
- `Services`: items settle (`parallelLimit` has no limit of its own), timers of
  `withTimeout`, of `acquire`'s sleep and of the clean-up fire, a supervisor
  starts the server again, copy and compression end, the debouncer fires.

Exempted are, as named in the formulas: `NoIdentityLeft` and `PoolUsedUp`, when
all identities of the instance are in use (a limit of the instance, not of the
code); a browser that is not launched or a page that is not injected, for ever,
while the start callback awaits it (`Unlimited`); calls that wait for an answer
by HTTP for ever, `sendPtt`'s executor, the streams of `decryptAndSaveFile` and
`decryptFile`'s loop, which need not settle; a backup whose `INSERT` failed with
the flag set, which blocks all later ones of the process; a crash inside
migration 001, which cannot be repeated; a handle that is closed for good.

## 6. Proofs

Every state invariant and every action property that a passing run checks is
also proved (and two action properties that no run repeats, `DropArmsReconnect`
and `OthersDoNotCount`), for every value of the constants under the assumptions named in the
modules (`SessionAssumption`, `ApiSessionsAssumption`, `StoreAssumption`,
`InboxAssumption`, `AccountsAssumption`, `RestAssumption`, `TenantsAssumption`,
`PageAssumption`, `LoginAssumption`, `ListenerAssumption`, `CallsAssumption`,
`QueueAssumption`, `LifecycleAssumption`, `ServerDataAssumption`,
`PresenceAssumption`, `DashboardAssumption`, `BreakerAssumption`,
`ParallelAssumption`, `RetryAssumption`, `BucketAssumption`, `PoolAssumption`,
`MonitorsAssumption`). They say that bounds are numbers, that distinguished
values are not members of the sets, and that what is counted is finite: the rows
of a table, the connections of a pool.

| module | theorems |
|---|---|
| `SessionManagerProofs` | `TypeCorrect`, `ProvenanceOfEntries`, `ManagerSound`, `DeletedStaysDeleted`, `DropsAreFollowedUp`, `ManagerImplementsRegistry` |
| `ApiSessionsProofs` | `ApiSessionsSound`, `ApiImplementsRegistry` |
| `MessageStoreProofs` | `StoreTypeCorrect`, `UnreadCountBounded`, `RowsHaveASession`, `StoredMessagesListed`, `StoreSound` |
| `TenantsProofs` | `TenantsSound`, `EventsAreOfActiveTenants` |
| `RecordsProofs` | `InboxSound`, `TransferredStays`, `AccountsSound`, `RestSound`; of the composition `Records`: `RecordsSound`, `RequestsEntitled` |
| `PageProofs` | `PageSound`, `ResolvedEffect`, `HeardOrder`, `SettledQuiet`, and `PageInvariant` they rest on |
| `ServerProofs` | `LifecycleSound`, `DataSound`, `PresenceSound`, `QueueSound`, `DashboardTotals`, `OthersUncounted` |
| `UtilityProofs` | `BreakerTypeCorrect`, `StateMatchesCount`, `HalfOpenAfterCooldown`, `CooldownRespected`, `ProbedBeforeClosed`, `BreakerSound`, `BreakerProbes`; `ParallelTypeCorrect`, `LimitHolds`, `AwaitedAreDone`, `ParallelSound`; `RateIsKept`; of the composition `Services`: `UtilitiesSound`, `ServicesSound`, `ServicesKeepTheirRules` |

Few of these properties are inductive as they stand. What was added, and why:

- *Session manager.* `TypeOK` with `EntryProvenance`: the range of `owner` and
  `phase` decides which steps can touch an entry. *Stand-alone server.*
  `SessionsInv` adds `Ownership`: a client has the name its entry and its
  `closeSession` have, and none that is being launched is in either.
- *Message rows.* `StoreInv`: the counter is the number of all stored messages of
  others (`UnreadCountsStored`), since `markAsRead` does not lower it, and that
  lies in the bounds; each insert adds one element to one chat. *Inbox.*
  `InboxInv`: who waits for a webhook has stored its message on a day that has
  come (`WaitersStored`), so the recount of the day finds it; a conversation
  handed over has a row and an agent (`HandedOver`), so the handler that goes on
  with old data sees that it is assigned.
- *Accounts.* `AccountsInv`: of each address one registration was answered
  (`OneRegistration`), which the unique column decides after the hash; the hits
  of a window cover its failures *and* the calls that are still hashing
  (`HitsCover`), or a success that gives its hit back could leave too few.
  *REST.* `RestInv`: sessions created are hits of the limiter of sessions
  (`CreationsAreCounted`). *Tenants.* `TenantsInv`: ids are fresh, slugs of one
  tenant each, references have their tenant.
- *Calls of methods.* `CallInv(c)`: while the step of a method that has the
  effect is ahead, the account is untouched; once it is over, there was one
  effect, or none if it was a "may". It needs that each program has at most one such step, and that a
  refusable input is read before it; `SenderPrograms`, `ChatPrograms` and
  `GroupPrograms` establish that of all programs.
- *Listeners.* `HearInv`: numbers on the wire ascend, and all a callback has
  heard come before them. `AttachInv`: a document forwards an event once, since
  a chain marks it before it forwards it, and two chains share the names they
  expose. *Login.* `LoginInv`: before the page is loaded no login has begun.
- *Database life.* `DataInv`: what the next statement of the start rests on
  (`Starting`); the file of the backup in the making is nobody else's to delete
  (`JobIsGuarded`); and the same agreement of rows and files holds of the table
  *inside each copy* (`TablesFit`), because a restore makes it the current one.
- *Presence.* `PresenceInv`: rows without a socket are those a dead process left
  (`GhostsAreLoose`), a process that is down has no sockets, only clients in a
  tenant's room are shown anything. *Start and shutdown.* `LifecycleInv`: what
  starts late has not been stopped before the callback registers it, what lives
  is known to the cleaner.
- *Message queue.* `QueueInv`: what each callback has heard, followed by the
  queue, is one ordered line without repetitions (`LinesOrdered`), and what the
  two delays of `MessageAdded` hold comes behind every line, as far as it has a
  body (`TimersHold`).
- *Dashboard.* `DashboardInv` is the type of the rows; the proofs are about
  counting, a finite set being the disjoint union of its parts.
- *Utilities.* Breaker: no failure lies in the future, state and count agree, a
  half-open breaker has cooled down. `parallelLimit`: what the array holds at
  each place of the loop (`PInv`). Bucket: the property is inductive; a tick adds
  the same to both buckets because capping on the way or at the end makes no
  difference (`CappedSums`). `retry` (`RetryInv`): the only operation that can
  still win its race is the one the loop awaits (`OneIsAwaited`), so a late
  answer changes nothing. Pool (`PoolInv`): a connection is in one hand at most
  and then not in the stack (`OneHand`); until `close` the pool knows where each
  is (`PoolKnows`). What asynchronous functions still use is in neither. Monitor (`MonitorsInv`): the window is the end of all
  readings (`EndOf`), on which "never fell" is a matter of neighbours
  (`NeverFalls`).

An action property follows from the invariant by a proof that a step of each
action keeps it. A refinement has one step per action: under the mapping it is a
`Begin`, `Store`, `Drop`, `GiveUp`, `Reset`, `Replace` or a stutter of
`SessionRegistry`. In a composition a step of one part is a step of its own
specification and leaves the others alone (`RecordsParts`, `ServicesStep`), so
the composition keeps what each part keeps (`RecordsSound`, `ServicesSound`).

Induction over data is avoided where it would be natural: that delays double
(`PowerDoubles`) is read off the number of subsets of a set with one more
element, and "never fell between neighbours, so never fell at all"
(`NeverFalls`) off the least counterexample (`LeastOf`).

Some proofs asked for a change in how a definition is written, not in what it says.
`Refusal` and the row of a handled request in `RestRequests`, the `Context` of a
request in `Tenants` and the step `Send` of `PageCalls` were `CASE`s whose arms
overlap; TLC takes the first arm that holds, the language promises only some
arm. Their conditions now exclude each other, in the order of the code.

## 7. What is only model-checked, and what is not modelled

Liveness depends on fairness, which the prover does not treat, and stays with
TLC: `ShutdownEnds`, `ReconnectHappens`, `StartupEnds`, `LostIsRetried`,
`SigintEnds`, `PageSettles`, `UnpairIsTold`, `DataSettles`, `GhostsGo`,
`WaitersAreServed`, `ProcessEndsAfterError`. So do the violations, each being one
behaviour of an instance. Refinement is proved for the safety part of
`SessionRegistry`, which has no other.

Not modelled: the token stores (single accesses of a file or a map, not made
concurrently for one session), types and enumerations, the vendored hash
library, the reading of the QR image, the examples. Left out of components that
are modelled: login by a phone code and drawing the QR code; columns no property
reads (`qr_code`, `tokens`, `webhook_url`, `phone_number`); update and delete of
conversations and contacts, which no route reaches; templates, notes, canned
answers and CRM calls of `api-server/server.js`, each one statement;
`api-server/server-backup.js`, an older copy of it; the functions of the in-page
library that only read or call objects of WhatsApp Web, which the repository
does not contain; Chrome options, version checks and profile directories;
transactions and pragmas of the database utilities, one library call each;
`debounce` and `throttle`, which have no caller. Password hashes and tokens are
taken to be what they stand for.

## 8. Differences between text and code

Besides the five findings of section 4, these were met while modelling. Each is
visible in one step of a model or in one line of the source, so no run is spent
on it; the models do what the code does.

- *Sessions.* The start and stop requests only write the status (`RestStart`,
  `RestStop`; README.md "Test 6" and "Test 15"). Start-up reads one page of 50
  rows (`Boot`; "Get all sessions with auto_reconnect enabled"). `SIGINT` exits
  before anything is closed (`Interrupted`, `Sigint`; SYSTEM_RELIABILITY.md,
  "Signals Handled"). `PATCH /sessions` validates `autoReconnect`, the model
  reads `auto_reconnect`. `DELETE` of a session that does not exist answers 200.
  A session with analytics rows loses its children and then answers 500.
- *Messages.* `markAsRead` leaves `unread_count` as it was, so the column is not
  the "Number of unread messages" of DATABASE_SCHEMA.md but an upper bound of it.
  The send route answers "queued" and queues nothing. Time stamps of messages
  are in seconds or in milliseconds, depending on where the row comes from, so
  most windows of the dashboard exclude received messages. `getTopContacts`
  counts the messages of all tenants, so it is left out of `OthersDoNotCount`.
- *Tenants.* A change of plan does not change the limits, though the refusal says
  "Please upgrade". Nothing in `src/` sets `tenant_id` of a session. A tenant
  with backup rows can never be deleted. Two changes of password with the same
  old password both succeed.
- *Database.* A restore closes the handle under the running process and does not
  look at the status of the backup. Retention compares two date formats as text.
  A crash in the middle of migration 001 stops every later start.
- *Presence.* The clean-up deletes every row of the day, and tells nobody. The
  end of one of a user's two sockets announces the user offline. `isUserOnline`
  and `getOnlineCount` quote `"online"` as an identifier. Tokens carry no tenant.
- *Process.* The listener of `app.ts` exits one second after an exception, also
  in the middle of a graceful shutdown.
- *Utilities.* `acquire` of more than the capacity never returns, and one of less
  need not: callers that ask for fewer tokens may for ever be served first, since
  nobody queues. `withTimeout`
  leaves the operation running. `parallelLimit` may resolve before all results
  are there. `DatabasePool.execute` gives the connection back while an `async`
  function still uses it, and may give it to somebody else. The verdict of the
  health checks is translated (`CheckHealth`) and nothing is stated of it.
- *Page.* `sendPtt` names a variable of node in its page function and cannot
  succeed; given a folder it never settles. Some methods resolve before their
  effect, some reject after it. `decryptFile` repeats a request for ever when the
  status is neither 200 nor an error, and none of its requests has a time limit.
  `decryptAndSaveFile` never settles when the response breaks after its headers.
  `starMessage`, `deleteChat`, `clearChat`, `setTheme` and some others resolve
  with 0, false or nothing when nothing was done. The hook of a new document takes an
  unpaired account for known. The buffer of the in-page queue is never saved at
  `unload`, a callback that throws loses the batch for those after it (the first gets it).
- *Stand-alone server.* `client.getHost` does not exist, the status
  `DISCONNECTED` is never sent, a lost browser leaves its entry in the map,
  `is_new` is never cleared, `POST /messages` answers 500 after the message was
  sent when a hook is broken.

## 9. What could come next

1. An abstract specification of a backup or of an account (a value that is set,
   and read back as it was set last), implemented by `ServerData` and `Accounts`.
2. `HostLogin` as the specification `SessionManager` assumes of a login: a
   refinement with its phases as the mapping.
3. The methods of one client overlapping on one page with its listeners.
