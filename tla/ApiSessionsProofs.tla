-------------------------- MODULE ApiSessionsProofs --------------------------
(***************************************************************************)
(* The session manager of api-server/server.js, for any names, clients,    *)
(* timers and overlapping requests.  The invariant says whose client is    *)
(* whose: an entry and a closeSession under way hold a client of their own *)
(* name, and a client that is still being launched is in neither.  From it *)
(* follow the leaving of closed entries and that each step of the server   *)
(* is a step of the registry or leaves it alone.                           *)
(***************************************************************************)
EXTENDS ApiSessions, TLAPS

ClientsHaveNames == \A c \in launching \cup alive : owner[c] \in Name

EntriesAreOwned ==
  \A n \in Name : sessions[n] # NoClient =>
    owner[sessions[n]] = n /\ sessions[n] \notin launching

ClosersAreOwned ==
  \A k \in Task : Busy(k) =>
    /\ closing[k].name \in Name /\ closing[k].client \in Client
    /\ owner[closing[k].client] = closing[k].name
    /\ closing[k].client \notin launching

LaunchedIsNotClosed == launching \cap closed = {}

\* Whose client is whose.
Ownership == ClientsHaveNames /\ EntriesAreOwned /\ ClosersAreOwned /\ LaunchedIsNotClosed

SessionsInv == SessionsTypeOK /\ Ownership /\ ClosedEntryIsLeaving

USE ApiSessionsAssumption DEF ApiSessionsAssumption

LEMMA CapturedAreCounts ==
  0 \in 0 .. MaxAttempts /\ \A a \in Captured : a + 1 \in 0 .. MaxAttempts
BY DEF Captured

LEMMA SessionsInvInit == SessionsInit => SessionsInv
<1> SUFFICES ASSUME SessionsInit PROVE SessionsInv
  OBVIOUS
<1> USE DEF SessionsInit, Memory
<1>1. SessionsTypeOK
  BY DEF SessionsTypeOK, Captured, Idle
<1>2. Ownership
  BY DEF Ownership, ClientsHaveNames, EntriesAreOwned, ClosersAreOwned, LaunchedIsNotClosed,
         Busy
<1>3. ClosedEntryIsLeaving
  BY DEF ClosedEntryIsLeaving
<1>4. QED
  BY <1>1, <1>2, <1>3 DEF SessionsInv

\* The memory of a process that has ended says nothing.
LEMMA ForgetKeeps == Forget => SessionsInv'
<1> SUFFICES ASSUME Forget PROVE SessionsInv'
  OBVIOUS
<1> USE DEF Forget
<1>1. SessionsTypeOK'
  BY DEF SessionsTypeOK, Captured, Idle
<1>2. Ownership'
  BY DEF Ownership, ClientsHaveNames, EntriesAreOwned, ClosersAreOwned, LaunchedIsNotClosed,
         Busy, Idle
<1>3. ClosedEntryIsLeaving'
  BY DEF ClosedEntryIsLeaving
<1>4. QED
  BY <1>1, <1>2, <1>3 DEF SessionsInv

-----------------------------------------------------------------------------
\* A client that nothing referred to is launched, and nothing else changes but
\* timers and counts.
LEMMA LaunchKeeps ==
  ASSUME SessionsInv, NEW n \in Name, NEW c \in Client, Launch(n, c),
         UNCHANGED <<sessions, closing>>
  PROVE  Ownership' /\ ClosedEntryIsLeaving'
<1> USE DEF SessionsInv, Launch
<1>1. owner'[c] = n /\ \A d \in Client : d # c => owner'[d] = owner[d]
  BY DEF SessionsTypeOK
<1>2. \A m \in Name : sessions[m] # c
  BY DEF Unused
<1>3. \A k \in Task : closing[k].client # c
  BY DEF Unused
<1>4. ClientsHaveNames'
  BY <1>1 DEF Ownership, ClientsHaveNames, SessionsTypeOK
<1>5. EntriesAreOwned'
  BY <1>1, <1>2 DEF Ownership, EntriesAreOwned, SessionsTypeOK
<1>6. ClosersAreOwned'
  BY <1>1, <1>3 DEF Ownership, ClosersAreOwned, Busy
<1>7. LaunchedIsNotClosed'
  BY DEF Ownership, LaunchedIsNotClosed
<1>8. ClosedEntryIsLeaving'
  BY DEF ClosedEntryIsLeaving
<1>9. QED
  BY <1>4, <1>5, <1>6, <1>7, <1>8 DEF Ownership

\* closeSession up to its await.
LEMMA BeginCloseKeeps ==
  ASSUME SessionsInv, NEW n \in Name, sessions[n] # NoClient,
         NEW then \in {"respond", "create", "stop"}, BeginClose(n, then),
         UNCHANGED <<sessions, owner, launching, alive, closed>>
  PROVE  /\ Ownership' /\ ClosedEntryIsLeaving'
         /\ closing' \in [Task -> [name : Name \cup {NoName}, client : Client \cup {NoClient},
                                   then : {"nothing", "respond", "create", "stop"}]]
<1> USE DEF SessionsInv
<1>1. PICK k \in Task :
        /\ ~Busy(k)
        /\ closing' = [closing EXCEPT ![k] = [name |-> n, client |-> sessions[n], then |-> then]]
  BY DEF BeginClose
<1>2. sessions[n] \in Client
  BY DEF SessionsTypeOK
<1>3. /\ closing'[k] = [name |-> n, client |-> sessions[n], then |-> then]
      /\ \A j \in Task : j # k => closing'[j] = closing[j]
      /\ closing' \in [Task -> [name : Name \cup {NoName}, client : Client \cup {NoClient},
                                then : {"nothing", "respond", "create", "stop"}]]
  BY <1>1, <1>2 DEF SessionsTypeOK
<1>4. owner[sessions[n]] = n /\ sessions[n] \notin launching
  BY DEF Ownership, EntriesAreOwned
<1>5. ClosersAreOwned'
  BY <1>2, <1>3, <1>4 DEF Ownership, ClosersAreOwned, Busy
<1>6. ClosedEntryIsLeaving'
  <2> SUFFICES ASSUME NEW m \in Name, sessions[m] \in closed
               PROVE  \E j \in Task : closing'[j].name = m /\ closing'[j].client = sessions[m]
    BY DEF ClosedEntryIsLeaving
  <2>1. PICK j \in Task : closing[j].name = m /\ closing[j].client = sessions[m]
    BY DEF ClosedEntryIsLeaving
  <2>2. j # k
    BY <1>1, <2>1 DEF Busy, Idle
  <2>3. QED
    BY <1>3, <2>1, <2>2
<1>7. QED
  BY <1>3, <1>5, <1>6
     DEF Ownership, ClientsHaveNames, EntriesAreOwned, LaunchedIsNotClosed

\* closeSession after its await: the entry of the name goes, and with it the only
\* entry the closed client may have had.
LEMMA CloseReturnsKeeps ==
  ASSUME SessionsInv, NEW k \in Task, CloseReturns(k)
  PROVE  SessionsInv'
<1> USE DEF SessionsInv
<1> DEFINE n == closing[k].name
           old == closing[k].client
<1>1. /\ n \in Name /\ old \in Client /\ owner[old] = n /\ old \notin launching
  BY DEF CloseReturns, Ownership, ClosersAreOwned
<1>2. /\ sessions' = [sessions EXCEPT ![n] = NoClient]
      /\ closing' = [closing EXCEPT ![k] = Idle]
      /\ UNCHANGED <<proc, attempts, timers, waiting>>
  BY DEF CloseReturns
<1>3. /\ sessions'[n] = NoClient /\ \A m \in Name : m # n => sessions'[m] = sessions[m]
      /\ sessions' \in [Name -> Client \cup {NoClient}]
  BY <1>1, <1>2 DEF SessionsTypeOK
<1>4. /\ closing'[k] = Idle /\ \A j \in Task : j # k => closing'[j] = closing[j]
      /\ closing' \in [Task -> [name : Name \cup {NoName}, client : Client \cup {NoClient},
                                then : {"nothing", "respond", "create", "stop"}]]
  BY <1>2 DEF SessionsTypeOK, Idle
<1>5. closed' \subseteq closed \cup {old}
  BY DEF CloseReturns
<1>6. ClosedEntryIsLeaving'
  <2> SUFFICES ASSUME NEW m \in Name, sessions'[m] \in closed'
               PROVE  \E j \in Task : closing'[j].name = m /\ closing'[j].client = sessions'[m]
    BY DEF ClosedEntryIsLeaving
  <2>0. sessions'[m] # NoClient
    BY <1>1, <1>5 DEF SessionsTypeOK
  <2>1. m # n /\ sessions'[m] = sessions[m] /\ sessions[m] # NoClient
    BY <1>3, <2>0
  <2>2. sessions[m] # old
    BY <1>1, <2>1 DEF Ownership, EntriesAreOwned
  <2>3. PICK j \in Task : closing[j].name = m /\ closing[j].client = sessions[m]
    BY <1>5, <2>1, <2>2 DEF ClosedEntryIsLeaving
  <2>4. QED
    BY <1>4, <2>1, <2>3
<1>7. CASE closing[k].then = "create"
  <2>1. PICK c \in Client :
          /\ Unused(c)
          /\ owner' = [owner EXCEPT ![c] = n]
          /\ launching' = launching \cup {c}
          /\ alive' = alive \cup {c}
          /\ closed' = (closed \cup {old}) \ {c}
    BY <1>7 DEF CloseReturns
  <2>2. /\ owner'[c] = n /\ \A d \in Client : d # c => owner'[d] = owner[d]
        /\ owner' \in [Client -> Name \cup {NoName}]
    BY <1>1, <2>1 DEF SessionsTypeOK
  <2>3. /\ \A m \in Name : sessions[m] # c
        /\ \A j \in Task : closing[j].client # c
    BY <2>1 DEF Unused
  <2>4. ClientsHaveNames'
    BY <1>1, <2>1, <2>2 DEF Ownership, ClientsHaveNames, SessionsTypeOK
  <2>5. EntriesAreOwned'
    BY <1>3, <2>1, <2>2, <2>3 DEF Ownership, EntriesAreOwned, SessionsTypeOK
  <2>6. ClosersAreOwned'
    BY <1>4, <2>1, <2>2, <2>3 DEF Ownership, ClosersAreOwned, Busy
  <2>7. LaunchedIsNotClosed'
    BY <1>1, <2>1 DEF Ownership, LaunchedIsNotClosed
  <2>8. SessionsTypeOK'
    BY <1>1, <1>2, <1>3, <1>4, <2>1, <2>2 DEF SessionsTypeOK
  <2>9. QED
    BY <1>6, <2>4, <2>5, <2>6, <2>7, <2>8 DEF Ownership
<1>8. CASE closing[k].then # "create"
  <2>1. closed' = closed \cup {old} /\ UNCHANGED <<owner, launching, alive>>
    BY <1>8 DEF CloseReturns
  <2>2. ClientsHaveNames' /\ LaunchedIsNotClosed'
    BY <1>1, <2>1 DEF Ownership, ClientsHaveNames, LaunchedIsNotClosed
  <2>3. EntriesAreOwned'
    BY <1>3, <2>1 DEF Ownership, EntriesAreOwned
  <2>4. ClosersAreOwned'
    BY <1>4, <2>1 DEF Ownership, ClosersAreOwned, Busy
  <2>5. SessionsTypeOK'
    BY <1>1, <1>2, <1>3, <1>4, <2>1 DEF SessionsTypeOK
  <2>6. QED
    BY <1>6, <2>2, <2>3, <2>4, <2>5 DEF Ownership
<1>9. QED
  BY <1>7, <1>8

\* A timer is set for an attempt below the maximum, or none.
LEMMA ScheduleKeepsType ==
  ASSUME SessionsTypeOK, NEW n \in Name, ScheduleReconnect(n)
  PROVE  timers' \in [Name -> [Captured -> 0 .. MaxTimers]]
<1>1. CASE attempts[n] >= MaxAttempts
  BY <1>1 DEF ScheduleReconnect, SessionsTypeOK
<1>2. CASE ~(attempts[n] >= MaxAttempts)
  <2>1. attempts[n] \in Captured
    BY <1>2 DEF SessionsTypeOK, Captured
  <2>2. /\ timers[n][attempts[n]] < MaxTimers
        /\ timers' = [timers EXCEPT ![n][attempts[n]] = @ + 1]
    BY <1>2 DEF ScheduleReconnect
  <2>3. timers[n][attempts[n]] + 1 \in 0 .. MaxTimers
    BY <2>1, <2>2 DEF SessionsTypeOK
  <2>4. QED
    BY <2>1, <2>2, <2>3 DEF SessionsTypeOK
<1>3. QED
  BY <1>1, <1>2

\* What neither launches, stores nor closes a client leaves the ownership alone.
LEMMA SameClientsKeep ==
  ASSUME SessionsInv, UNCHANGED <<sessions, owner, launching, closing, closed>>,
         alive' \subseteq alive
  PROVE  Ownership' /\ ClosedEntryIsLeaving'
BY DEF SessionsInv, Ownership, ClientsHaveNames, EntriesAreOwned, ClosersAreOwned,
       LaunchedIsNotClosed, ClosedEntryIsLeaving, Busy

LEMMA TimerKeeps ==
  ASSUME SessionsInv, NEW n \in Name, NEW a \in Captured, TimerFires(n, a)
  PROVE  SessionsInv'
<1> USE DEF SessionsInv
<1>1. /\ timers' = [timers EXCEPT ![n][a] = @ - 1]
      /\ attempts' = [attempts EXCEPT ![n] = a + 1]
      /\ UNCHANGED <<proc, sessions, waiting>>
      /\ timers[n][a] > 0
  BY DEF TimerFires
<1>2. timers' \in [Name -> [Captured -> 0 .. MaxTimers]] /\ attempts' \in [Name -> 0 .. MaxAttempts]
  <2>1. timers[n][a] - 1 \in 0 .. MaxTimers
    BY <1>1 DEF SessionsTypeOK
  <2>2. QED
    BY <1>1, <2>1, CapturedAreCounts DEF SessionsTypeOK
<1>3. CASE sessions[n] = NoClient
  <2>1. PICK c \in Client : Launch(n, c) /\ UNCHANGED closing
    BY <1>3 DEF TimerFires
  <2>2. Ownership' /\ ClosedEntryIsLeaving'
    BY <1>1, <2>1, LaunchKeeps
  <2>3. SessionsTypeOK'
    BY <1>1, <1>2, <2>1 DEF SessionsTypeOK, Launch
  <2>4. QED
    BY <2>2, <2>3
<1>4. CASE sessions[n] # NoClient
  <2>1. BeginClose(n, "create") /\ UNCHANGED <<owner, launching, alive, closed>>
    BY <1>4 DEF TimerFires
  <2>2. /\ Ownership' /\ ClosedEntryIsLeaving'
        /\ closing' \in [Task -> [name : Name \cup {NoName}, client : Client \cup {NoClient},
                                  then : {"nothing", "respond", "create", "stop"}]]
    BY <1>1, <1>4, <2>1, BeginCloseKeeps
  <2>3. SessionsTypeOK'
    BY <1>1, <1>2, <2>1, <2>2 DEF SessionsTypeOK
  <2>4. QED
    BY <2>2, <2>3
<1>5. QED
  BY <1>3, <1>4

\* The entry of a client is set when its launch ends, without another look at what the
\* name holds by then.
LEMMA CreatedKeeps ==
  ASSUME SessionsInv, NEW c \in Client, Created(c)
  PROVE  SessionsInv'
<1> USE DEF SessionsInv
<1>1. /\ c \in launching /\ launching' = launching \ {c}
      /\ sessions' = [sessions EXCEPT ![owner[c]] = c]
      /\ UNCHANGED <<proc, attempts, owner, alive, timers, waiting, closing, closed>>
  BY DEF Created
<1>2. owner[c] \in Name
  BY <1>1 DEF Ownership, ClientsHaveNames
<1>3. /\ sessions'[owner[c]] = c
      /\ \A m \in Name : m # owner[c] => sessions'[m] = sessions[m]
      /\ sessions' \in [Name -> Client \cup {NoClient}]
  BY <1>1, <1>2 DEF SessionsTypeOK
<1>4. SessionsTypeOK'
  BY <1>1, <1>3 DEF SessionsTypeOK
<1>5. Ownership'
  BY <1>1, <1>3 DEF Ownership, ClientsHaveNames, EntriesAreOwned, ClosersAreOwned,
                    LaunchedIsNotClosed, Busy
<1>6. c \notin closed
  BY <1>1 DEF Ownership, LaunchedIsNotClosed
<1>7. ClosedEntryIsLeaving'
  BY <1>1, <1>3, <1>6 DEF ClosedEntryIsLeaving
<1>8. QED
  BY <1>4, <1>5, <1>7

LEMMA SessionsInvStep == SessionsInv /\ [SessionsNext]_sessionVars => SessionsInv'
<1> SUFFICES ASSUME SessionsInv, [SessionsNext]_sessionVars PROVE SessionsInv'
  OBVIOUS
<1>1. ASSUME NEW n \in Name, DeleteSession(n) PROVE SessionsInv'
  <2>1. /\ sessions[n] # NoClient /\ BeginClose(n, "respond")
        /\ UNCHANGED <<proc, sessions, attempts, owner, launching, alive, timers, waiting,
                       closed>>
    BY <1>1 DEF DeleteSession
  <2>2. QED
    BY <2>1, BeginCloseKeeps DEF SessionsInv, SessionsTypeOK
<1>2. ASSUME NEW n \in Name, NEW a \in Captured, TimerFires(n, a) PROVE SessionsInv'
  BY <1>2, TimerKeeps
<1>3. ASSUME NEW n \in Name, NEW c \in Client, PostSession(n, c) PROVE SessionsInv'
  <2>1. Launch(n, c) /\ UNCHANGED <<proc, sessions, attempts, timers, waiting, closing>>
    BY <1>3 DEF PostSession
  <2>2. SessionsTypeOK'
    BY <2>1 DEF SessionsInv, SessionsTypeOK, Launch
  <2>3. QED
    BY <2>1, <2>2, LaunchKeeps DEF SessionsInv
<1>4. ASSUME NEW c \in Client, Created(c) PROVE SessionsInv'
  BY <1>4, CreatedKeeps
<1>5. ASSUME NEW c \in Client, CreateFails(c) PROVE SessionsInv'
  BY <1>5 DEF CreateFails, SessionsInv, SessionsTypeOK, Ownership, ClientsHaveNames,
              EntriesAreOwned, ClosersAreOwned, LaunchedIsNotClosed, ClosedEntryIsLeaving, Busy
<1>6. ASSUME NEW c \in Client, LoggedIn(c) \/ Unpaired(c) PROVE SessionsInv'
  <2>1. c \in alive /\ owner[c] \in Name
    BY <1>6 DEF LoggedIn, Unpaired, SessionsInv, Ownership, ClientsHaveNames
  <2>2. UNCHANGED <<proc, sessions, owner, launching, alive, timers, closing, closed>>
    BY <1>6 DEF LoggedIn, Unpaired
  <2>3. waiting' \subseteq Callback /\ attempts' \in [Name -> 0 .. MaxAttempts]
    BY <1>6, <2>1, CapturedAreCounts
       DEF LoggedIn, Unpaired, SessionsInv, SessionsTypeOK, Callback
  <2>4. QED
    BY <2>2, <2>3, SameClientsKeep DEF SessionsInv, SessionsTypeOK
<1>7. ASSUME NEW c \in Client, BrowserClosed(c) PROVE SessionsInv'
  <2>1. /\ alive' = alive \ {c}
        /\ UNCHANGED <<proc, sessions, attempts, owner, launching, timers, waiting, closing,
                       closed>>
    BY <1>7 DEF BrowserClosed
  <2>2. QED
    BY <2>1, SameClientsKeep DEF SessionsInv, SessionsTypeOK
<1>8. ASSUME NEW c \in Client, StateDisconnected(c) PROVE SessionsInv'
  <2>1. /\ owner[c] \in Name /\ ScheduleReconnect(owner[c])
        /\ UNCHANGED <<proc, sessions, attempts, owner, launching, alive, waiting, closing,
                       closed>>
    BY <1>8 DEF StateDisconnected, SessionsInv, Ownership, ClientsHaveNames
  <2>2. QED
    BY <2>1, SameClientsKeep, ScheduleKeepsType DEF SessionsInv, SessionsTypeOK
<1>9. ASSUME NEW w \in waiting, WebhookDone(w) PROVE SessionsInv'
  <2>1. /\ w.name \in Name /\ waiting' = waiting \ {w}
        /\ UNCHANGED <<proc, sessions, attempts, owner, launching, alive, closing, closed>>
    BY <1>9 DEF WebhookDone, SessionsInv, SessionsTypeOK, Callback
  <2>2. timers' \in [Name -> [Captured -> 0 .. MaxTimers]]
    <3>1. CASE w.event = "connected"
      BY <1>9, <3>1 DEF WebhookDone, SessionsInv, SessionsTypeOK
    <3>2. CASE w.event # "connected"
      BY <1>9, <2>1, <3>2, ScheduleKeepsType DEF WebhookDone, SessionsInv
    <3>3. QED
      BY <3>1, <3>2
  <2>3. QED
    BY <2>1, <2>2, SameClientsKeep DEF SessionsInv, SessionsTypeOK
<1>10. ASSUME NEW w \in waiting, WebhookThrows(w) PROVE SessionsInv'
  BY <1>10, ForgetKeeps DEF WebhookThrows
<1>11. ASSUME NEW k \in Task, CloseReturns(k) PROVE SessionsInv'
  BY <1>11, CloseReturnsKeeps
<1>12. CASE Sigint \/ Start
  <2>1. /\ proc' \in {"up", "stopping", "down"}
        /\ UNCHANGED <<sessions, attempts, owner, launching, alive, timers, waiting, closing,
                       closed>>
    BY <1>12 DEF Sigint, Start
  <2>2. QED
    BY <2>1, SameClientsKeep DEF SessionsInv, SessionsTypeOK
<1>13. CASE SigintNext
  <2>1. PICK n \in Name :
          /\ sessions[n] # NoClient /\ BeginClose(n, "stop")
          /\ UNCHANGED <<proc, sessions, attempts, owner, launching, alive, timers, waiting,
                         closed>>
    BY <1>13 DEF SigintNext
  <2>2. QED
    BY <2>1, BeginCloseKeeps DEF SessionsInv, SessionsTypeOK
<1>14. CASE Exit \/ Crash
  BY <1>14, ForgetKeeps DEF Exit, Crash
<1>15. CASE UNCHANGED sessionVars
  BY <1>15, SameClientsKeep DEF sessionVars, SessionsInv, SessionsTypeOK
<1>16. QED
  BY <1>1, <1>2, <1>3, <1>4, <1>5, <1>6, <1>7, <1>8, <1>9, <1>10, <1>11, <1>12, <1>13, <1>14, <1>15
     DEF SessionsNext

LEMMA SessionsInvariant == SessionsSpec => []SessionsInv
BY SessionsInvInit, SessionsInvStep, PTL DEF SessionsSpec

-----------------------------------------------------------------------------
\* Whatever overlaps: the variables keep to their kinds, and a closed client is found in
\* the Map only while the closeSession that closed it is under way.
THEOREM ApiSessionsSound == SessionsSpec => []SessionsAreSound
BY SessionsInvariant, PTL DEF SessionsInv, SessionsAreSound

\* Each step of the server is a step of the registry, or leaves it alone.
LEMMA RegistryStep ==
  SessionsInv /\ [SessionsNext]_sessionVars => [Registry!Next]_(Registry!rvars)
<1> SUFFICES ASSUME SessionsInv, SessionsNext PROVE [Registry!Next]_(Registry!rvars)
  BY DEF sessionVars, Registry!rvars
<1>1. ASSUME NEW n \in Name, NEW c \in Client, Launch(n, c), sessions' = sessions
      PROVE  Registry!Begin(n, c)
  BY <1>1 DEF Launch, Unused, Registry!Begin
<1>2. ASSUME NEW c \in Client, Created(c) PROVE Registry!Store(c)
  BY <1>2 DEF Created, Registry!Store, SessionsInv, Ownership, ClientsHaveNames
<1>3. ASSUME NEW c \in Client, CreateFails(c) PROVE Registry!GiveUp(c)
  BY <1>3 DEF CreateFails, Registry!GiveUp
<1>4. ASSUME NEW k \in Task, CloseReturns(k) PROVE [Registry!Next]_(Registry!rvars)
  <2>1. closing[k].name \in Name
    BY <1>4 DEF CloseReturns, SessionsInv, Ownership, ClosersAreOwned
  <2>2. CASE closing[k].then = "create"
    <3>1. PICK c \in Client :
            /\ Unused(c) /\ owner' = [owner EXCEPT ![c] = closing[k].name]
            /\ launching' = launching \cup {c}
      BY <1>4, <2>2 DEF CloseReturns
    <3>2. Registry!Replace(closing[k].name, c)
      BY <1>4, <3>1 DEF CloseReturns, Unused, Registry!Replace
    <3>3. QED
      BY <2>1, <3>2 DEF Registry!Next
  <2>3. CASE closing[k].then # "create"
    <3>1. Registry!Drop(closing[k].name, {})
      BY <1>4, <2>3 DEF CloseReturns, Registry!Drop
    <3>2. QED
      BY <2>1, <3>1 DEF Registry!Next
  <2>4. QED
    BY <2>2, <2>3
<1>5. ASSUME Forget PROVE Registry!Reset
  BY <1>5 DEF Forget, Registry!Reset
<1>6. ASSUME NEW n \in Name, NEW a \in Captured, TimerFires(n, a)
      PROVE  [Registry!Next]_(Registry!rvars)
  <2>1. CASE sessions[n] = NoClient
    <3>1. PICK c \in Client : Launch(n, c) /\ sessions' = sessions
      BY <1>6, <2>1 DEF TimerFires
    <3>2. QED
      BY <1>1, <3>1 DEF Registry!Next
  <2>2. CASE sessions[n] # NoClient
    BY <1>6, <2>2 DEF TimerFires, Registry!rvars
  <2>3. QED
    BY <2>1, <2>2
<1>7. ASSUME NEW n \in Name, NEW c \in Client, PostSession(n, c) PROVE Registry!Begin(n, c)
  BY <1>1, <1>7 DEF PostSession
<1>8. ASSUME UNCHANGED <<sessions, owner, launching>> PROVE [Registry!Next]_(Registry!rvars)
  BY <1>8 DEF Registry!rvars
<1>9. ASSUME NEW c \in Client,
             LoggedIn(c) \/ Unpaired(c) \/ BrowserClosed(c) \/ StateDisconnected(c)
      PROVE  UNCHANGED <<sessions, owner, launching>>
  BY <1>9 DEF LoggedIn, Unpaired, BrowserClosed, StateDisconnected
<1>10. ASSUME NEW w \in waiting, WebhookDone(w) PROVE UNCHANGED <<sessions, owner, launching>>
  BY <1>10 DEF WebhookDone
<1>11. (\E n \in Name : DeleteSession(n)) \/ Sigint \/ SigintNext \/ Start =>
         UNCHANGED <<sessions, owner, launching>>
  BY DEF DeleteSession, Sigint, SigintNext, Start
<1>12. (\E w \in waiting : WebhookThrows(w)) \/ Exit \/ Crash => Forget
  BY DEF WebhookThrows, Exit, Crash
<1>13. QED
  BY <1>2, <1>3, <1>4, <1>5, <1>6, <1>7, <1>8, <1>9, <1>10, <1>11, <1>12
     DEF SessionsNext, Registry!Next

\* The Map of the stand-alone server implements the registry that the session manager
\* of src/ implements too.
THEOREM ApiImplementsRegistry == SessionsSpec => SessionsRegistrySpec
<1>1. SessionsInit => Registry!Init
  BY DEF SessionsInit, Memory, Registry!Init
<1>2. QED
  BY <1>1, RegistryStep, SessionsInvariant, PTL
     DEF SessionsSpec, SessionsRegistrySpec, Registry!Spec
==============================================================================
