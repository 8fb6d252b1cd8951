---------------------------- MODULE ApiSessions ----------------------------
(***************************************************************************)
(* The session manager of the stand-alone server, api-server/server.js: a  *)
(* Map from session names to clients, reconnect timers with an attempt     *)
(* count captured when they are set, webhooks awaited inside the status    *)
(* callback, and the SIGINT loop.  A step is what runs between two awaits. *)
(* The QR codes and the status, QR and phone columns of the session row    *)
(* are left out: only the web page reads them.  (The phone is never        *)
(* written: client.getHost does not exist.)                                *)
(***************************************************************************)
EXTENDS Naturals, FiniteSets

CONSTANTS
  Name,          \* session names
  Client,        \* identities of clients; reused once nothing refers to them
  NoName,        \* the owner of a client that does not exist
  NoClient,      \* an absent entry of the Map
  Task,          \* calls of closeSession that may be in flight at once
  MaxAttempts,   \* reconnects in a row: 5 in the code
  MaxTimers      \* bound: reconnect timers set at once, for each name

ASSUME ApiSessionsAssumption ==
  /\ NoName \notin Name /\ NoClient \notin Client
  /\ MaxAttempts \in Nat \ {0} /\ MaxTimers \in Nat \ {0}

VARIABLES
  proc,       \* "up", "stopping" (SIGINT received) or "down"
  sessions,   \* sessionManager.sessions
  attempts,   \* sessionManager.reconnectAttempts, 0 when absent
  owner,      \* the name a client was created for
  launching,  \* clients whose wppconnect.create is awaited
  alive,      \* clients whose browser runs
  timers,     \* reconnect timers set, by name and captured attempt count
  waiting,    \* status callbacks that await their webhook
  closing,    \* closeSession calls that await client.close()
  closed      \* history: clients whose close() has returned

sessionVars == <<proc, sessions, attempts, owner, launching,
                 alive, timers, waiting, closing, closed>>

Idle == [name |-> NoName, client |-> NoClient, then |-> "nothing"]
Busy(k) == closing[k] # Idle
Captured == 0..(MaxAttempts - 1)
Callback == [name : Name, client : Client, event : {"connected", "lost"}]
Ready(c) == owner[c] # NoName /\ c \notin launching

\* A client identity that no variable of the program refers to.
Unused(c) ==
  /\ c \notin launching \cup alive
  /\ \A n \in Name : sessions[n] # c
  /\ \A k \in Task : closing[k].client # c
  /\ \A w \in waiting : w.client # c

\* Only the bound on Client stops another launch.
PoolUsedUp == \A c \in Client : ~Unused(c)

Memory ==
  /\ sessions = [n \in Name |-> NoClient]
  /\ attempts = [n \in Name |-> 0]
  /\ owner = [c \in Client |-> NoName]
  /\ launching = {} /\ alive = {} /\ waiting = {} /\ closed = {}
  /\ timers = [n \in Name |-> [a \in Captured |-> 0]]
  /\ closing = [k \in Task |-> Idle]

SessionsInit ==
  /\ proc = "up"
  /\ Memory

\* The process is gone, and with it its memory and its browsers.
Forget ==
  /\ sessions' = [n \in Name |-> NoClient]
  /\ attempts' = [n \in Name |-> 0]
  /\ owner' = [c \in Client |-> NoName]
  /\ launching' = {} /\ alive' = {} /\ waiting' = {} /\ closed' = {}
  /\ timers' = [n \in Name |-> [a \in Captured |-> 0]]
  /\ closing' = [k \in Task |-> Idle]
  /\ proc' = "down"

-----------------------------------------------------------------------------
\* createSession past its check, up to the await of wppconnect.create.
Launch(n, c) ==
  /\ Unused(c)
  /\ owner' = [owner EXCEPT ![c] = n]
  /\ launching' = launching \cup {c}
  /\ alive' = alive \cup {c}
  /\ closed' = closed \ {c}

\* Mutant: createSession sets the entry before the client exists.
PostSessionEarly(n, c) ==
  /\ proc # "down" /\ sessions[n] = NoClient
  /\ Launch(n, c)
  /\ sessions' = [sessions EXCEPT ![n] = c]
  /\ UNCHANGED <<proc, attempts, timers, waiting, closing>>

\* POST /sessions
PostSession(n, c) ==
  /\ proc # "down" /\ sessions[n] = NoClient
  /\ Launch(n, c)
  /\ UNCHANGED <<proc, sessions, attempts, timers, waiting, closing>>

\* create resolves, perhaps for a page that is gone (see SessionManager): the
\* entry is set without looking again and the listeners are installed.
Created(c) ==
  /\ c \in launching
  /\ launching' = launching \ {c}
  /\ sessions' = [sessions EXCEPT ![owner[c]] = c]
  /\ UNCHANGED <<proc, attempts, owner, alive, timers, waiting, closing, closed>>

\* create rejects; its browser may still be open.
CreateFails(c) ==
  /\ c \in launching
  /\ launching' = launching \ {c}
  /\ UNCHANGED <<proc, sessions, attempts, owner, alive, timers, waiting, closing, closed>>

-----------------------------------------------------------------------------
\* statusFind with isLogged or qrReadSuccess, up to the webhook.
LoggedIn(c) ==
  /\ c \in alive
  /\ attempts' = [attempts EXCEPT ![owner[c]] = 0]
  /\ waiting' = waiting \cup {[name |-> owner[c], client |-> c, event |-> "connected"]}
  /\ UNCHANGED <<proc, sessions, owner, launching, alive, timers, closing, closed>>

\* statusFind with desconnectedMobile, up to the webhook.
Unpaired(c) ==
  /\ c \in alive
  /\ waiting' = waiting \cup {[name |-> owner[c], client |-> c, event |-> "lost"]}
  /\ UNCHANGED <<proc, sessions, attempts, owner, launching, alive, timers, closing, closed>>

\* statusFind with browserClose: the entry stays in the Map.
BrowserClosed(c) ==
  /\ c \in alive
  /\ alive' = alive \ {c}
  /\ UNCHANGED <<proc, sessions, attempts, owner, launching, timers, waiting, closing, closed>>

\* scheduleReconnect; both callers have just written the row, whose
\* auto_reconnect is 1 and is never changed.
ScheduleReconnect(n) ==
  IF attempts[n] >= MaxAttempts
    THEN UNCHANGED timers
    ELSE /\ timers[n][attempts[n]] < MaxTimers
         /\ timers' = [timers EXCEPT ![n][attempts[n]] = @ + 1]

\* onStateChange with DISCONNECTED
StateDisconnected(c) ==
  /\ c \in alive /\ Ready(c)
  /\ ScheduleReconnect(owner[c])
  /\ UNCHANGED <<proc, sessions, attempts, owner, launching, alive, waiting, closing, closed>>

\* Mutant: the reconnect is not scheduled after the webhook.
WebhookDoneForgets(w) ==
  /\ w \in waiting
  /\ waiting' = waiting \ {w}
  /\ UNCHANGED <<proc, sessions, attempts, owner, launching, alive, timers, closing, closed>>

\* The webhook was answered (or failed) and statusFind goes on.
WebhookDone(w) ==
  /\ w \in waiting
  /\ waiting' = waiting \ {w}
  /\ IF w.event = "connected"
       THEN UNCHANGED timers
       ELSE ScheduleReconnect(w.name)
  /\ UNCHANGED <<proc, sessions, attempts, owner, launching, alive, closing, closed>>

\* A hook whose events are neither an array nor a string: the callback
\* rejects and nobody handles it, which ends the process.
WebhookThrows(w) ==
  /\ w \in waiting
  /\ Forget

-----------------------------------------------------------------------------
\* closeSession up to the await of client.close().
BeginClose(n, then) ==
  \E k \in Task :
    /\ ~Busy(k)
    /\ closing' = [closing EXCEPT ![k] = [name |-> n, client |-> sessions[n], then |-> then]]

\* DELETE /sessions/:sessionName
DeleteSession(n) ==
  /\ proc # "down" /\ sessions[n] # NoClient
  /\ BeginClose(n, "respond")
  /\ UNCHANGED <<proc, sessions, attempts, owner, launching, alive, timers, waiting, closed>>

\* A timer fires: closeSession, then createSession.  Without an entry both
\* run up to the launch of the browser.
TimerFires(n, a) ==
  /\ timers[n][a] > 0
  /\ timers' = [timers EXCEPT ![n][a] = @ - 1]
  /\ attempts' = [attempts EXCEPT ![n] = a + 1]
  /\ IF sessions[n] = NoClient
       THEN (\E c \in Client : Launch(n, c)) /\ UNCHANGED closing
       ELSE BeginClose(n, "create") /\ UNCHANGED <<owner, launching, alive, closed>>
  /\ UNCHANGED <<proc, sessions, waiting>>

\* Mutant: an error of client.close() leaves the entry (server-backup.js).
CloseReturnsKeeping(k) ==
  LET n == closing[k].name IN
  /\ Busy(k)
  /\ closing' = [closing EXCEPT ![k] = Idle]
  /\ closed' = closed \cup {closing[k].client}
  /\ \E kept \in BOOLEAN :
       sessions' = IF kept THEN sessions ELSE [sessions EXCEPT ![n] = NoClient]
  /\ UNCHANGED <<proc, attempts, owner, launching, alive, timers, waiting>>

\* client.close() settles: the entry of the name is deleted, whichever
\* client it holds by now, and the caller goes on.
CloseReturns(k) ==
  LET n == closing[k].name IN
  /\ Busy(k)
  /\ closing' = [closing EXCEPT ![k] = Idle]
  /\ sessions' = [sessions EXCEPT ![n] = NoClient]
  /\ IF closing[k].then = "create"
       THEN \E c \in Client :
              /\ Unused(c)
              /\ owner' = [owner EXCEPT ![c] = n]
              /\ launching' = launching \cup {c}
              /\ alive' = alive \cup {c}
              /\ closed' = (closed \cup {closing[k].client}) \ {c}
       ELSE closed' = closed \cup {closing[k].client} /\ UNCHANGED <<owner, launching, alive>>
  /\ UNCHANGED <<proc, attempts, timers, waiting>>

-----------------------------------------------------------------------------
Sigint ==
  /\ proc = "up"
  /\ proc' = "stopping"
  /\ UNCHANGED <<sessions, attempts, owner, launching, alive, timers, waiting, closing, closed>>

Stopping == proc = "stopping" /\ \A k \in Task : closing[k].then # "stop"

\* The loop over the Map, which also visits entries added during the loop.
SigintNext ==
  /\ Stopping
  /\ \E n \in Name : sessions[n] # NoClient /\ BeginClose(n, "stop")
  /\ UNCHANGED <<proc, sessions, attempts, owner, launching, alive, timers, waiting, closed>>

\* Mutant: the process waits for every browser, also for those of clients
\* that never got into the Map.
ExitWaitsForBrowsers ==
  /\ Stopping
  /\ \A n \in Name : sessions[n] = NoClient
  /\ alive = {}
  /\ Forget

Exit ==
  /\ Stopping
  /\ \A n \in Name : sessions[n] = NoClient
  /\ Forget

Crash == proc # "down" /\ Forget

\* node server.js: nothing is restored from the rows.
Start ==
  /\ proc = "down"
  /\ proc' = "up"
  /\ UNCHANGED <<sessions, attempts, owner, launching, alive, timers, waiting, closing, closed>>

SessionsNext ==
  \/ \E n \in Name : DeleteSession(n) \/ (\E a \in Captured : TimerFires(n, a))
  \/ \E n \in Name, c \in Client : PostSession(n, c)
  \/ \E c \in Client :
       \/ Created(c) \/ CreateFails(c) \/ LoggedIn(c)
       \/ Unpaired(c) \/ BrowserClosed(c) \/ StateDisconnected(c)
  \/ \E w \in waiting : WebhookDone(w) \/ WebhookThrows(w)
  \/ \E k \in Task : CloseReturns(k)
  \/ Sigint \/ SigintNext \/ Exit \/ Crash \/ Start

SessionsSpec == SessionsInit /\ [][SessionsNext]_sessionVars

\* The runtime fires timers and resumes what has settled; fetch and
\* client.close() settle.
SessionsFairness ==
  /\ \A n \in Name, a \in Captured : WF_sessionVars(TimerFires(n, a))
  /\ \A k \in Task : WF_sessionVars(CloseReturns(k))
  /\ \A w \in Callback : WF_sessionVars(WebhookDone(w) \/ WebhookThrows(w))
  /\ WF_sessionVars(SigintNext \/ Exit)

SessionsFairSpec == SessionsSpec /\ SessionsFairness

-----------------------------------------------------------------------------
\* Every variable has values of its kind; no timer was set for an attempt
\* past the maximum.
SessionsTypeOK ==
  /\ proc \in {"up", "stopping", "down"}
  /\ sessions \in [Name -> Client \cup {NoClient}]
  /\ attempts \in [Name -> 0..MaxAttempts]
  /\ owner \in [Client -> Name \cup {NoName}]
  /\ launching \subseteq Client /\ alive \subseteq Client /\ closed \subseteq Client
  /\ timers \in [Name -> [Captured -> 0..MaxTimers]]
  /\ waiting \subseteq Callback
  /\ closing \in [Task -> [name : Name \cup {NoName}, client : Client \cup {NoClient},
                           then : {"nothing", "respond", "create", "stop"}]]

\* An entry whose client has been closed is about to be deleted: whatever
\* overlaps, no request finds a closed client once its closeSession is over.
ClosedEntryIsLeaving ==
  \A n \in Name : sessions[n] \in closed =>
    \E k \in Task : closing[k].name = n /\ closing[k].client = sessions[n]

\* The Map implements the registry that the manager of src/ implements too.
Registry == INSTANCE SessionRegistry WITH pending <- launching
SessionsRegistrySpec == Registry!Spec

\* A client that has been unpaired is followed by a new launch for its name,
\* unless the attempts are used up or the process ends first.
LostIsRetried ==
  \A n \in Name :
    (\E w \in waiting : w.name = n /\ w.event = "lost") ~>
      \/ \E c \in launching : owner[c] = n
      \/ attempts[n] = MaxAttempts
      \/ proc # "up"
      \/ PoolUsedUp

\* After SIGINT the process exits unless clients are still being launched.
SigintEnds == proc = "stopping" ~> proc = "down" \/ launching # {} \/ PoolUsedUp

\* The Map, the launches under way and the requests that close clients agree in any
\* order of their steps (api-server/server.js).
SessionsAreSound == SessionsTypeOK /\ ClosedEntryIsLeaving
=============================================================================
