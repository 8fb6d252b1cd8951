--------------------------- MODULE SessionManager ---------------------------
(***************************************************************************)
(* The life of WhatsApp sessions in one server process:                    *)
(* services/whatsapp-session.manager.ts with the database rows it writes   *)
(* (models/session.model.ts), the browser and page events its callbacks    *)
(* come from (controllers/initializer.ts, api/whatsapp.ts, host.layer.ts), *)
(* the REST handlers that touch the same rows (session.controller.ts) and  *)
(* the process's start-up and shutdown (server.ts).                        *)
(*                                                                         *)
(* The code is asynchronous: an action is the code that runs between two   *)
(* `await`s.  Delays (5 s before a reconnect, 1 s before an unpaired phone *)
(* is reported) are abstracted to "later": events that are pending at the  *)
(* same time may be handled in either order.                               *)
(***************************************************************************)
EXTENDS Naturals, FiniteSets

CONSTANTS
  Name,       \* session names
  Client,     \* identities of start attempts and of the clients they create
  NoName,
  NoClient,
  MaxTimers,  \* bound: reconnect timers of one session pending at a time
  PageLimit,  \* rows SessionModel.findAll returns by default (50 in the code)
  Env         \* bound: the kinds of outside events an instance looks at

ASSUME SessionAssumption ==
  /\ NoName \notin Name
  /\ NoClient \notin Client
  /\ MaxTimers \in Nat
  /\ PageLimit \in Nat \ {0}
  /\ Env \subseteq {"rest", "unpair", "lose", "signal"}

VARIABLES
  status,     \* sessions.status of each row, Absent if there is no row
  auto,       \* sessions.auto_reconnect of each row
  sessions,   \* the manager's map of active sessions
  owner,      \* the session name a start attempt was made for
  phase,      \* how far the startSession of an attempt has come
  browser,    \* the attempt's browser: its page is gone when "closing"
  notices,    \* clients with a 'desconnectedMobile' report under way
  relogin,    \* started clients that wait for a new login
  timers,     \* reconnect timers pending, per session
  server,     \* the process
  bootTodo,   \* sessions initializeSessions has still to start
  bootWait,   \* the attempt initializeSessions awaits
  drainTodo,  \* sessions cleanup has still to stop
  drainWait   \* the client whose close() cleanup awaits

rowVars   == <<status, auto>>
startVars == <<owner, phase>>
pageVars  == <<browser, notices, relogin>>
procVars  == <<server, bootTodo, bootWait, drainTodo, drainWait>>
vars == <<status, auto, sessions, owner, phase, browser, notices, relogin,
          timers, server, bootTodo, bootWait, drainTodo, drainWait>>

Absent == "absent"
Statuses == {"disconnected", "connecting", "connected", "qr_code", "error"}
Phases == {"unused", "launching", "loading", "login", "syncing", "hostinfo",
           "done", "failed"}
InFlightPhases == {"launching", "loading", "login", "syncing"}

\* SessionService.updateStatus throws NotFoundError unless the row exists.
RowExists(n) == status[n] # Absent

\* The process runs and its callbacks are delivered.  "failing": an uncaught
\* exception or rejection will start the shutdown, everything still runs.
Running == server \in {"up", "failing", "draining"}

\* An identity nothing refers to any more stands for the next attempt.
Free(c) ==
  /\ phase[c] \in {"unused", "done", "failed"}
  /\ browser[c] \in {"none", "closed"}
  /\ c \notin notices
  /\ c \notin {bootWait, drainWait}
  /\ \A n \in Name : sessions[n] # c

PageOpen(c) == browser[c] = "open"

-----------------------------------------------------------------------------
(* Pieces of handlers.                                                     *)

\* Mutant: the status write inserts a missing row.
SetStatusUpserts(n, s) == status' = [status EXCEPT ![n] = s]

\* updateStatus where a missing row raises an error that is caught or logged
SetStatus(n, s) ==
  status' = IF RowExists(n) THEN [status EXCEPT ![n] = s] ELSE status

\* handleDisconnection up to the point where a missing row makes it throw:
\* the entry goes, the status is written and a reconnect is scheduled.
DropEntry(n) == sessions' = [sessions EXCEPT ![n] = NoClient]

ArmReconnect(n) ==
  IF RowExists(n) /\ auto[n]
    THEN /\ timers[n] < MaxTimers
         /\ timers' = [timers EXCEPT ![n] = @ + 1]
    ELSE UNCHANGED timers

HandleDisconnection(n) ==
  /\ DropEntry(n)
  /\ SetStatus(n, "disconnected")
  /\ ArmReconnect(n)

\* NotFoundError escapes to the process: uncaughtException, unhandledRejection
Uncaught == server' = IF server = "up" THEN "failing" ELSE server

\* startSession(n) up to `await create(...)`: c is the attempt it begins, if
\* it begins one (NoClient otherwise).
StartSession(n, c) ==
  IF sessions[n] # NoClient \/ ~RowExists(n)
    THEN c = NoClient /\ UNCHANGED <<status, owner, phase, browser, relogin>>
    ELSE /\ c \in Client
         /\ Free(c)
         /\ status' = [status EXCEPT ![n] = "connecting"]
         /\ owner' = [owner EXCEPT ![c] = n]
         /\ phase' = [phase EXCEPT ![c] = "launching"]
         /\ browser' = [browser EXCEPT ![c] = "none"]
         /\ relogin' = relogin \ {c}

-----------------------------------------------------------------------------
(* A start attempt, from create() to the end of startSession.              *)

LaunchBrowser(c) ==
  /\ Running /\ phase[c] = "launching"
  /\ phase' = [phase EXCEPT ![c] = "loading"]
  /\ browser' = [browser EXCEPT ![c] = "open"]
  /\ UNCHANGED <<rowVars, sessions, owner, notices, relogin, timers, procVars>>

\* initBrowser rejects (no Chrome, or the profile directory is in use)
LaunchFails(c) ==
  /\ Running /\ phase[c] = "launching"
  /\ phase' = [phase EXCEPT ![c] = "failed"]
  /\ SetStatus(owner[c], "error")
  /\ UNCHANGED <<auto, sessions, owner, pageVars, timers, procVars>>

\* goto and waitForPageLoad are over: the page is injected.  Neither has a time
\* limit: a page that does not load, whose injection fails or that is lost
\* here may keep the attempt waiting for ever.
LoadPage(c) ==
  /\ Running /\ phase[c] = "loading" /\ PageOpen(c)
  /\ phase' = [phase EXCEPT ![c] = "login"]
  /\ UNCHANGED <<rowVars, sessions, owner, pageVars, timers, procVars>>

\* create() rejects after the browser was launched (no page, goto fails, a
\* function cannot be exposed): the browser stays as it is.
StartRejects(c) ==
  /\ Running /\ phase[c] = "loading"
  /\ phase' = [phase EXCEPT ![c] = "failed"]
  /\ SetStatus(owner[c], "error")
  /\ UNCHANGED <<auto, sessions, owner, pageVars, timers, procVars>>

\* checkQrCode hands a QR code to catchQR.  Without a row updateStatus throws
\* in an async function: unhandled, unless the page itself made the call.
CatchQR(c) ==
  /\ Running /\ PageOpen(c)
  /\ phase[c] \in {"loading", "login", "failed"} \/ c \in relogin
  /\ SetStatus(owner[c], "qr_code")
  /\ \/ UNCHANGED server
     \/ ~RowExists(owner[c]) /\ Uncaught
  /\ UNCHANGED <<auto, sessions, startVars, pageVars, timers,
                 bootTodo, bootWait, drainTodo, drainWait>>

\* Mutant: the client is stored when the login is reported, before create()
\* has resolved.
LoggedInStores(c) ==
  /\ Running /\ phase[c] = "login" /\ PageOpen(c)
  /\ phase' = [phase EXCEPT ![c] = IF RowExists(owner[c]) THEN "syncing" ELSE "failed"]
  /\ SetStatus(owner[c], "connected")
  /\ sessions' = [sessions EXCEPT ![owner[c]] = c]
  /\ UNCHANGED <<auto, owner, pageVars, timers, procVars>>

\* waitForLogin reports qrReadSuccess or isLogged; without a row the report
\* throws and the attempt fails.
LoggedIn(c) ==
  /\ Running /\ phase[c] = "login" /\ PageOpen(c)
  /\ phase' = [phase EXCEPT ![c] = IF RowExists(owner[c]) THEN "syncing" ELSE "failed"]
  /\ SetStatus(owner[c], "connected")
  /\ UNCHANGED <<auto, sessions, owner, pageVars, timers, procVars>>

\* waitForLogin gives up: tryAutoClose closes an open page after reporting
\* autocloseCalled (the report throws first if there is no row), create()
\* throws and startSession writes its error.
LoginFails(c) ==
  /\ Running /\ phase[c] \in {"login", "syncing"}
  /\ phase' = [phase EXCEPT ![c] = "failed"]
  /\ SetStatus(owner[c], "error")
  /\ IF PageOpen(c)
       THEN /\ DropEntry(owner[c])
            /\ ArmReconnect(owner[c])
            /\ browser' = IF RowExists(owner[c])
                            THEN [browser EXCEPT ![c] = "closing"] ELSE browser
       ELSE UNCHANGED <<sessions, timers, browser>>
  /\ UNCHANGED <<auto, owner, notices, relogin, procVars>>

\* create() resolves and the client is stored.  waitForInChat does not await
\* its last check, so it answers true even when the page went away meanwhile.
CreateResolves(c) ==
  /\ Running /\ phase[c] = "syncing"
  /\ sessions' = [sessions EXCEPT ![owner[c]] = c]
  /\ phase' = [phase EXCEPT ![c] = "hostinfo"]
  /\ UNCHANGED <<rowVars, owner, pageVars, timers, procVars>>

\* getHostDevice answers or fails, both are the same here; the listeners are
\* set up and the session is declared connected.
StartCompletes(c) ==
  /\ Running /\ phase[c] = "hostinfo"
  /\ phase' = [phase EXCEPT ![c] = IF RowExists(owner[c]) THEN "done" ELSE "failed"]
  /\ SetStatus(owner[c], "connected")
  /\ UNCHANGED <<auto, sessions, owner, pageVars, timers, procVars>>

-----------------------------------------------------------------------------
(* Events of a client's page and browser.                                  *)

\* The auto-close timer of a login that takes too long.
AutoClose(c) ==
  /\ Running /\ PageOpen(c)
  /\ phase[c] \in {"login", "syncing"} \/ c \in relogin
  /\ HandleDisconnection(owner[c])
  /\ IF RowExists(owner[c])
       THEN browser' = [browser EXCEPT ![c] = "closing"] /\ UNCHANGED server
       ELSE UNCHANGED browser /\ Uncaught
  /\ UNCHANGED <<auto, startVars, notices, relogin,
                 bootTodo, bootWait, drainTodo, drainWait>>

\* The connection poll, which runs as long as the page is open, sees an
\* unregistered device and schedules a report; a client whose create() is over
\* also starts to wait for a new login.
Unpair(c) ==
  /\ "unpair" \in Env /\ Running /\ PageOpen(c)
  /\ phase[c] \in {"loading", "login", "syncing", "hostinfo", "done", "failed"}
  /\ c \notin notices
  /\ notices' = notices \cup {c}
  /\ relogin' = IF phase[c] \in {"hostinfo", "done"} THEN relogin \cup {c} ELSE relogin
  /\ UNCHANGED <<rowVars, sessions, startVars, browser, timers, procVars>>

\* The report 'desconnectedMobile'; an error in it is swallowed.
ReportUnpaired(c) ==
  /\ Running /\ c \in notices
  /\ notices' = notices \ {c}
  /\ HandleDisconnection(owner[c])
  /\ UNCHANGED <<auto, startVars, browser, relogin, procVars>>

\* Mutant: a client that logs in again puts itself back in the map.
ReloginStores(c) ==
  /\ Running /\ c \in relogin /\ PageOpen(c)
  /\ relogin' = relogin \ {c}
  /\ SetStatus(owner[c], "connected")
  /\ sessions' = [sessions EXCEPT ![owner[c]] = c]
  /\ UNCHANGED <<auto, startVars, browser, notices, timers, procVars>>

ReloginSucceeds(c) ==
  /\ Running /\ c \in relogin /\ PageOpen(c)
  /\ relogin' = relogin \ {c}
  /\ SetStatus(owner[c], "connected")
  /\ UNCHANGED <<auto, sessions, startVars, browser, notices, timers, procVars>>

\* The second waitForLogin fails and closes the page; its error is dropped.
ReloginFails(c) ==
  /\ Running /\ c \in relogin
  /\ relogin' = relogin \ {c}
  /\ IF PageOpen(c)
       THEN /\ HandleDisconnection(owner[c])
            /\ browser' = IF RowExists(owner[c])
                            THEN [browser EXCEPT ![c] = "closing"] ELSE browser
       ELSE UNCHANGED <<status, sessions, timers, browser>>
  /\ UNCHANGED <<auto, startVars, notices, procVars>>

\* The page is lost: Chrome crashes or is killed.
LosePage(c) ==
  /\ "lose" \in Env /\ Running /\ PageOpen(c)
  /\ browser' = [browser EXCEPT ![c] = "closing"]
  /\ UNCHANGED <<rowVars, sessions, startVars, notices, relogin, timers, procVars>>

\* The browser's 'disconnected' event reports browserClose.
BrowserClosed(c) ==
  /\ Running /\ browser[c] = "closing"
  /\ browser' = [browser EXCEPT ![c] = "closed"]
  /\ HandleDisconnection(owner[c])
  /\ IF RowExists(owner[c]) THEN UNCHANGED server ELSE Uncaught
  /\ UNCHANGED <<auto, startVars, notices, relogin,
                 bootTodo, bootWait, drainTodo, drainWait>>

\* Mutant: the timer starts only a session that is still "disconnected".
ReconnectTimerChecksStatus(n) ==
  /\ Running /\ timers[n] > 0
  /\ timers' = [timers EXCEPT ![n] = @ - 1]
  /\ IF status[n] = "disconnected"
       THEN \E c \in Client \cup {NoClient} : StartSession(n, c)
       ELSE UNCHANGED <<status, owner, phase, browser, relogin>>
  /\ UNCHANGED <<auto, sessions, notices, procVars>>

\* A reconnect timer fires.  auto_reconnect is not looked at again.
ReconnectTimer(n) ==
  /\ Running /\ timers[n] > 0
  /\ timers' = [timers EXCEPT ![n] = @ - 1]
  /\ \E c \in Client \cup {NoClient} : StartSession(n, c)
  /\ UNCHANGED <<auto, sessions, notices, procVars>>

-----------------------------------------------------------------------------
(* REST requests on the session rows: none of them calls the manager.      *)

Listening == "rest" \in Env /\ server \in {"up", "failing"}

RestCreate(n) ==
  /\ Listening /\ ~RowExists(n)
  /\ status' = [status EXCEPT ![n] = "disconnected"]
  /\ \E b \in BOOLEAN : auto' = [auto EXCEPT ![n] = b]
  /\ UNCHANGED <<sessions, startVars, pageVars, timers, procVars>>

RestUpdate(n) ==
  /\ Listening /\ RowExists(n)
  /\ auto' = [auto EXCEPT ![n] = ~@]
  /\ UNCHANGED <<status, sessions, startVars, pageVars, timers, procVars>>

RestDelete(n) ==
  /\ Listening /\ RowExists(n)
  /\ status' = [status EXCEPT ![n] = Absent]
  /\ auto' = [auto EXCEPT ![n] = TRUE]
  /\ UNCHANGED <<sessions, startVars, pageVars, timers, procVars>>

\* POST /sessions/:name/start
RestStart(n) ==
  /\ Listening /\ RowExists(n)
  /\ status' = [status EXCEPT ![n] = "connecting"]
  /\ UNCHANGED <<auto, sessions, startVars, pageVars, timers, procVars>>

\* POST /sessions/:name/stop
RestStop(n) ==
  /\ Listening /\ RowExists(n)
  /\ status' = [status EXCEPT ![n] = "disconnected"]
  /\ UNCHANGED <<auto, sessions, startVars, pageVars, timers, procVars>>

-----------------------------------------------------------------------------
(* The process: start-up, shutdown, crash.                                 *)

\* The server starts and initializeSessions reads one page of rows, the
\* newest ones; auto_reconnect is the value read here.
Boot ==
  /\ server = "down"
  /\ server' = "up"
  /\ \E page \in SUBSET {n \in Name : RowExists(n)} :
        /\ \/ page = {n \in Name : RowExists(n)} /\ Cardinality(page) <= PageLimit
           \/ Cardinality(page) = PageLimit
        /\ bootTodo' = {n \in page : auto[n]}
  /\ UNCHANGED <<rowVars, sessions, startVars, pageVars, timers,
                 bootWait, drainTodo, drainWait>>

\* Mutant: a deleted row is waited for.
BootNextWaitsForRow(n) ==
  /\ Running /\ n \in bootTodo /\ bootWait = NoClient /\ RowExists(n)
  /\ bootTodo' = bootTodo \ {n}
  /\ IF sessions[n] = NoClient
       THEN \E c \in Client : StartSession(n, c) /\ bootWait' = c
       ELSE /\ status' = [status EXCEPT ![n] = "disconnected"]
            /\ UNCHANGED <<owner, phase, browser, relogin, bootWait>>
  /\ UNCHANGED <<auto, sessions, notices, timers, server, drainTodo, drainWait>>

\* One round of the loop of initializeSessions.  A row deleted meanwhile makes
\* updateStatus throw outside the inner try: the whole loop ends.
BootNext(n) ==
  /\ Running /\ n \in bootTodo /\ bootWait = NoClient
  /\ bootTodo' = IF RowExists(n) THEN bootTodo \ {n} ELSE {}
  /\ IF RowExists(n)
       THEN IF sessions[n] = NoClient
              THEN \E c \in Client : StartSession(n, c) /\ bootWait' = c
              ELSE /\ status' = [status EXCEPT ![n] = "disconnected"]
                   /\ UNCHANGED <<owner, phase, browser, relogin, bootWait>>
       ELSE UNCHANGED <<status, owner, phase, browser, relogin, bootWait>>
  /\ UNCHANGED <<auto, sessions, notices, timers, server, drainTodo, drainWait>>

\* The awaited startSession has ended, well or not.
BootResumes ==
  /\ Running /\ bootWait # NoClient
  /\ phase[bootWait] \in {"done", "failed"}
  /\ bootWait' = NoClient
  /\ UNCHANGED <<rowVars, sessions, startVars, pageVars, timers, server,
                 bootTodo, drainTodo, drainWait>>

\* gracefulShutdown: SIGTERM, or an uncaught error.  cleanup takes the keys
\* of the map as they are now.
GracefulShutdown ==
  /\ server = "failing" \/ (server = "up" /\ "signal" \in Env)
  /\ server' = "draining"
  /\ drainTodo' = {n \in Name : sessions[n] # NoClient}
  /\ UNCHANGED <<rowVars, sessions, startVars, pageVars, timers,
                 bootTodo, bootWait, drainWait>>

\* Mutant: a session that has left the map meanwhile is waited for.
StopBeginsWaitsForEntry(n) ==
  /\ server = "draining" /\ n \in drainTodo /\ drainWait = NoClient
  /\ sessions[n] # NoClient
  /\ drainTodo' = drainTodo \ {n}
  /\ drainWait' = sessions[n]
  /\ browser' = IF PageOpen(sessions[n])
                  THEN [browser EXCEPT ![sessions[n]] = "closing"] ELSE browser
  /\ UNCHANGED <<rowVars, sessions, startVars, notices, relogin, timers,
                 server, bootTodo, bootWait>>

\* stopSession(n) up to `await session.client.close()`
StopBegins(n) ==
  /\ server = "draining" /\ n \in drainTodo /\ drainWait = NoClient
  /\ drainTodo' = drainTodo \ {n}
  /\ drainWait' = sessions[n]
  /\ browser' = IF sessions[n] # NoClient /\ PageOpen(sessions[n])
                  THEN [browser EXCEPT ![sessions[n]] = "closing"] ELSE browser
  /\ UNCHANGED <<rowVars, sessions, startVars, notices, relogin, timers,
                 server, bootTodo, bootWait>>

\* close() has returned: the entry of that name goes, whoever it is of.
StopCompletes ==
  /\ server = "draining" /\ drainWait # NoClient
  /\ drainWait' = NoClient
  /\ DropEntry(owner[drainWait])
  /\ SetStatus(owner[drainWait], "disconnected")
  /\ UNCHANGED <<auto, startVars, pageVars, timers, server,
                 bootTodo, bootWait, drainTodo>>

\* What ends with the process; the rows stay.
ProcessEnds ==
  /\ server' = "down"
  /\ sessions' = [n \in Name |-> NoClient]
  /\ owner' = [c \in Client |-> NoName]
  /\ phase' = [c \in Client |-> "unused"]
  /\ browser' = [c \in Client |-> "none"]
  /\ notices' = {} /\ relogin' = {}
  /\ timers' = [n \in Name |-> 0]
  /\ bootTodo' = {} /\ bootWait' = NoClient
  /\ drainTodo' = {} /\ drainWait' = NoClient
  /\ UNCHANGED rowVars

\* cleanup is over, the database is closed, process.exit(0)
ExitsCleanly ==
  /\ server = "draining" /\ drainTodo = {} /\ drainWait = NoClient
  /\ ProcessEnds

\* The 30 s limit of the shutdown, a second signal during it, or app.ts, which
\* ends the process one second after an uncaught exception.
ForcedExit == server \in {"failing", "draining"} /\ ProcessEnds

\* SIGINT: the listener of config/database.ts runs before that of server.ts
\* and ends the process.  A crash does the same.
Interrupted == "signal" \in Env /\ Running /\ ProcessEnds

-----------------------------------------------------------------------------
Init ==
  /\ status \in [Name -> {Absent, "disconnected"}]
  /\ auto \in [Name -> BOOLEAN]
  /\ \A n \in Name : status[n] = Absent => auto[n]
  /\ sessions = [n \in Name |-> NoClient]
  /\ owner = [c \in Client |-> NoName]
  /\ phase = [c \in Client |-> "unused"]
  /\ browser = [c \in Client |-> "none"]
  /\ notices = {} /\ relogin = {}
  /\ timers = [n \in Name |-> 0]
  /\ server = "down"
  /\ bootTodo = {} /\ bootWait = NoClient
  /\ drainTodo = {} /\ drainWait = NoClient

StartStep(c) ==
  \/ LaunchBrowser(c) \/ LaunchFails(c) \/ LoadPage(c) \/ StartRejects(c)
  \/ LoggedIn(c) \/ LoginFails(c) \/ CreateResolves(c) \/ StartCompletes(c)

PageStep(c) ==
  \/ CatchQR(c) \/ AutoClose(c) \/ Unpair(c) \/ ReportUnpaired(c)
  \/ ReloginSucceeds(c) \/ ReloginFails(c) \/ LosePage(c) \/ BrowserClosed(c)

RestStep(n) ==
  \/ RestCreate(n) \/ RestUpdate(n) \/ RestDelete(n) \/ RestStart(n) \/ RestStop(n)

ProcessStep ==
  \/ Boot \/ BootResumes \/ GracefulShutdown \/ StopCompletes
  \/ ExitsCleanly \/ ForcedExit \/ Interrupted

Next ==
  \/ \E c \in Client : StartStep(c) \/ PageStep(c)
  \/ \E n \in Name : RestStep(n) \/ ReconnectTimer(n) \/ BootNext(n) \/ StopBegins(n)
  \/ ProcessStep

Spec == Init /\ [][Next]_vars

(* What the runtime guarantees: a login that was begun ends (the auto-close  *)
(* timer sees to it), calls into a page return or fail (protocol timeout),   *)
(* timers fire and promises that settled are resumed.  Nothing is assumed of *)
(* create() up to the injected page: the look-up of the latest version, the  *)
(* goto and waitForPageLoad have no time limit.  Nor of requests, signals    *)
(* and phones, nor of the time limit that forces the end of a shutdown.      *)
Fairness ==
  /\ \A c \in Client :
       /\ WF_vars(LoggedIn(c) \/ LoginFails(c) \/ CreateResolves(c))
       /\ WF_vars(StartCompletes(c))
       /\ WF_vars(ReportUnpaired(c))
       /\ WF_vars(BrowserClosed(c))
  /\ \A n \in Name :
       /\ WF_vars(ReconnectTimer(n))
       /\ WF_vars(BootNext(n))
       /\ WF_vars(StopBegins(n))
  /\ WF_vars(BootResumes)
  /\ WF_vars(StopCompletes)
  /\ WF_vars(server = "failing" /\ GracefulShutdown)
  /\ WF_vars(ExitsCleanly)

FairSpec == Spec /\ Fairness

-----------------------------------------------------------------------------
(* Invariants.                                                             *)

\* Every variable has values of its kind, in every reachable state.
TypeOK ==
  /\ status \in [Name -> Statuses \cup {Absent}]
  /\ auto \in [Name -> BOOLEAN]
  /\ sessions \in [Name -> Client \cup {NoClient}]
  /\ owner \in [Client -> Name \cup {NoName}]
  /\ phase \in [Client -> Phases]
  /\ browser \in [Client -> {"none", "open", "closing", "closed"}]
  /\ notices \subseteq Client
  /\ relogin \subseteq Client
  /\ timers \in [Name -> 0..MaxTimers]
  /\ server \in {"down", "up", "failing", "draining"}
  /\ bootTodo \subseteq Name
  /\ bootWait \in Client \cup {NoClient}
  /\ drainTodo \subseteq Name
  /\ drainWait \in Client \cup {NoClient}

\* A client in the map was created by a startSession of that very name whose
\* create() has resolved: no late callback, reconnect or shutdown puts a
\* client of another session, or of an attempt that failed to log in, there.
EntryProvenance ==
  \A n \in Name : sessions[n] # NoClient =>
    /\ owner[sessions[n]] = n
    /\ phase[sessions[n]] \in {"hostinfo", "done", "failed"}

\* What the session manager keeps of its sessions, in whatever order starts, events,
\* timers, requests and signals come.
ManagerIsSound == TypeOK /\ EntryProvenance

InFlight(n) == \E c \in Client : owner[c] = n /\ phase[c] \in InFlightPhases

-----------------------------------------------------------------------------
(* Action properties.                                                      *)

\* A deleted session stays deleted: whatever its clients, timers and pending
\* starts still do, only a request to create it makes the row exist again.
NoResurrection ==
  [][\A n \in Name : ~RowExists(n) /\ RowExists(n)' =>
       UNCHANGED <<sessions, owner, phase, browser, timers, server>>]_vars

\* The manager never loses an auto-reconnect session silently: a step outside
\* a shutdown that takes its entry out of the map schedules its reconnect.
DropArmsReconnect ==
  [][\A n \in Name :
       /\ sessions[n] # NoClient /\ sessions'[n] = NoClient
       /\ RowExists(n) /\ auto[n] /\ server # "draining" /\ server' # "down"
       => timers'[n] = timers[n] + 1]_vars

\* The manager implements the registry: the map of sessions only ever gains
\* the client of a pending attempt, under the attempt's own name, and once.
Registry == INSTANCE SessionRegistry
              WITH pending <- {c \in Client : phase[c] \in InFlightPhases}
RegistrySpec == Registry!Spec

-----------------------------------------------------------------------------
(* Liveness, under FairSpec.                                               *)

\* Before the page is injected nothing limits the time create() takes.
Unlimited(c) == phase[c] \in {"launching", "loading"}

\* A start needs an identity (a bound of the instance).
NoIdentityLeft == \A c \in Client : ~Free(c)

\* initializeSessions gets through its list, whichever starts fail, rows are
\* deleted or sessions disconnect meanwhile.  The one thing that can stop it is
\* that the start it awaits never gets its page.
StartupEnds ==
  (bootTodo # {} \/ bootWait # NoClient) ~>
    \/ bootTodo = {} /\ bootWait = NoClient
    \/ \E c \in Client : [](bootWait = c /\ Unlimited(c))
    \/ []<>NoIdentityLeft

\* A shutdown, once begun, ends, although sessions disconnect and reconnect
\* while cleanup closes them, and without the 30 s limit having to force it.
ShutdownEnds == server \in {"failing", "draining"} ~> server = "down"

\* A scheduled reconnect leads to a start attempt, unless by then the session
\* is active, deleted, or the process is gone.
ReconnectHappens ==
  \A n \in Name : timers[n] > 0 ~>
    \/ InFlight(n) \/ sessions[n] # NoClient \/ ~RowExists(n)
    \/ server = "down" \/ NoIdentityLeft

-----------------------------------------------------------------------------
(* What documents, comments and messages of the repository say and the code  *)
(* does not do; the runs that check these expect a violation.                *)

\* "Check if session is active": an entry of the map has a live browser, or
\* the event that removes the entry is still to come.
ActiveIsLive ==
  \A n \in Name : sessions[n] # NoClient =>
    browser[sessions[n]] \in {"open", "closing"}

\* A missing row is an operational error (errors.ts), not one that ends the
\* process.
OperationalErrorsContained == server # "failing"
=============================================================================
