------------------------ MODULE SessionManagerProofs ------------------------
(***************************************************************************)
(* For every set of session names and of start attempts: the state of the  *)
(* session manager is well typed, an entry of its map is a client that was *)
(* created for that very name, a deleted row is not brought back by        *)
(* anything but a request, a dropped entry has its reconnect scheduled,    *)
(* and the manager implements the abstract registry.                       *)
(***************************************************************************)
EXTENDS SessionManager, TLAPS

\* The shapes of the writes handlers share.
LEMMA SetStatusType ==
  ASSUME TypeOK, NEW n, NEW s \in Statuses, SetStatus(n, s)
  PROVE  status' \in [Name -> Statuses \cup {Absent}]
BY DEF TypeOK, SetStatus, RowExists

LEMMA DropEntryType ==
  ASSUME TypeOK, NEW n, DropEntry(n)
  PROVE  sessions' \in [Name -> Client \cup {NoClient}]
BY DEF TypeOK, DropEntry

LEMMA ArmReconnectType ==
  ASSUME TypeOK, NEW n, ArmReconnect(n)
  PROVE  timers' \in [Name -> 0..MaxTimers]
<1>1. CASE UNCHANGED timers
  BY <1>1 DEF TypeOK
<1>2. CASE n \in Name /\ timers[n] < MaxTimers /\ timers' = [timers EXCEPT ![n] = @ + 1]
  BY <1>2, SessionAssumption DEF TypeOK, SessionAssumption
<1>3. CASE n \notin Name /\ timers' = [timers EXCEPT ![n] = @ + 1]
  BY <1>3 DEF TypeOK
<1>4. QED
  BY <1>1, <1>2, <1>3 DEF ArmReconnect

LEMMA HandleDisconnectionType ==
  ASSUME TypeOK, NEW n, HandleDisconnection(n)
  PROVE  /\ status' \in [Name -> Statuses \cup {Absent}]
         /\ sessions' \in [Name -> Client \cup {NoClient}]
         /\ timers' \in [Name -> 0..MaxTimers]
BY SetStatusType, DropEntryType, ArmReconnectType DEF HandleDisconnection, Statuses

LEMMA StartSessionType ==
  ASSUME TypeOK, NEW n \in Name, NEW c \in Client \cup {NoClient}, StartSession(n, c)
  PROVE  /\ status' \in [Name -> Statuses \cup {Absent}]
         /\ owner' \in [Client -> Name \cup {NoName}]
         /\ phase' \in [Client -> Phases]
         /\ browser' \in [Client -> {"none", "open", "closing", "closed"}]
         /\ relogin' \subseteq Client
<1>1. CASE UNCHANGED <<status, owner, phase, browser, relogin>>
  BY <1>1 DEF TypeOK
<1>2. CASE /\ c \in Client
           /\ status' = [status EXCEPT ![n] = "connecting"]
           /\ owner' = [owner EXCEPT ![c] = n]
           /\ phase' = [phase EXCEPT ![c] = "launching"]
           /\ browser' = [browser EXCEPT ![c] = "none"]
           /\ relogin' = relogin \ {c}
  BY <1>2 DEF TypeOK, Statuses, Phases
<1>3. QED
  BY <1>1, <1>2 DEF StartSession

USE DEF rowVars, startVars, pageVars, procVars

\* A step keeps every variable in its type.
LEMMA TypeStep == TypeOK /\ [Next]_vars => TypeOK'
<1> SUFFICES ASSUME TypeOK, [Next]_vars PROVE TypeOK'
  OBVIOUS
<1>1. ASSUME NEW c \in Client, StartStep(c) PROVE TypeOK'
  <2>1. CASE LaunchBrowser(c)
    BY <2>1 DEF TypeOK, LaunchBrowser, Phases
  <2>2. CASE LaunchFails(c)
    BY <2>2, SetStatusType DEF TypeOK, LaunchFails, Phases, Statuses
  <2>3. CASE LoadPage(c)
    BY <2>3 DEF TypeOK, LoadPage, Phases
  <2>4. CASE LoggedIn(c)
    BY <2>4, SetStatusType DEF TypeOK, LoggedIn, Phases, Statuses
  <2>5. CASE LoginFails(c)
    <3>1. /\ status' \in [Name -> Statuses \cup {Absent}]
          /\ sessions' \in [Name -> Client \cup {NoClient}]
          /\ timers' \in [Name -> 0..MaxTimers]
      BY <2>5, SetStatusType, DropEntryType, ArmReconnectType
         DEF LoginFails, TypeOK, Statuses
    <3>2. QED
      BY <2>5, <3>1 DEF TypeOK, LoginFails, Phases
  <2>6. CASE CreateResolves(c)
    BY <2>6 DEF TypeOK, CreateResolves, Phases
  <2>7. CASE StartCompletes(c)
    BY <2>7, SetStatusType DEF TypeOK, StartCompletes, Phases, Statuses
  <2>8. CASE StartRejects(c)
    BY <2>8, SetStatusType DEF TypeOK, StartRejects, Phases, Statuses
  <2>9. QED
    BY <1>1, <2>1, <2>2, <2>3, <2>4, <2>5, <2>6, <2>7, <2>8 DEF StartStep
<1>2. ASSUME NEW c \in Client, PageStep(c) PROVE TypeOK'
  <2>1. CASE CatchQR(c)
    BY <2>1, SetStatusType DEF TypeOK, CatchQR, Statuses, Uncaught
  <2>2. CASE AutoClose(c)
    BY <2>2, HandleDisconnectionType DEF TypeOK, AutoClose, Uncaught
  <2>3. CASE Unpair(c)
    BY <2>3 DEF TypeOK, Unpair
  <2>4. CASE ReportUnpaired(c)
    BY <2>4, HandleDisconnectionType DEF TypeOK, ReportUnpaired
  <2>5. CASE ReloginSucceeds(c)
    BY <2>5, SetStatusType DEF TypeOK, ReloginSucceeds, Statuses
  <2>6. CASE ReloginFails(c)
    BY <2>6, HandleDisconnectionType DEF TypeOK, ReloginFails
  <2>7. CASE LosePage(c)
    BY <2>7 DEF TypeOK, LosePage
  <2>8. CASE BrowserClosed(c)
    BY <2>8, HandleDisconnectionType DEF TypeOK, BrowserClosed, Uncaught
  <2>9. QED
    BY <1>2, <2>1, <2>2, <2>3, <2>4, <2>5, <2>6, <2>7, <2>8 DEF PageStep
<1>3. ASSUME NEW n \in Name, RestStep(n) PROVE TypeOK'
  <2>1. CASE RestCreate(n)
    BY <2>1 DEF TypeOK, RestCreate, Statuses
  <2>2. CASE RestUpdate(n)
    BY <2>2 DEF TypeOK, RestUpdate
  <2>3. CASE RestDelete(n)
    BY <2>3 DEF TypeOK, RestDelete
  <2>4. CASE RestStart(n)
    BY <2>4 DEF TypeOK, RestStart, Statuses
  <2>5. CASE RestStop(n)
    BY <2>5 DEF TypeOK, RestStop, Statuses
  <2>6. QED
    BY <1>3, <2>1, <2>2, <2>3, <2>4, <2>5 DEF RestStep
<1>4. ASSUME NEW n \in Name, ReconnectTimer(n) PROVE TypeOK'
  BY <1>4, StartSessionType, SessionAssumption
     DEF TypeOK, ReconnectTimer, SessionAssumption
<1>5. ASSUME NEW n \in Name, BootNext(n) PROVE TypeOK'
  <2>1. /\ bootTodo' \subseteq Name
        /\ bootWait' \in Client \cup {NoClient}
    BY <1>5 DEF TypeOK, BootNext
  <2>2. /\ status' \in [Name -> Statuses \cup {Absent}]
        /\ owner' \in [Client -> Name \cup {NoName}]
        /\ phase' \in [Client -> Phases]
        /\ browser' \in [Client -> {"none", "open", "closing", "closed"}]
        /\ relogin' \subseteq Client
    <3>1. CASE RowExists(n) /\ sessions[n] = NoClient
      BY <1>5, <3>1, StartSessionType DEF BootNext
    <3>2. CASE ~(RowExists(n) /\ sessions[n] = NoClient)
      BY <1>5, <3>2 DEF BootNext, TypeOK, Statuses
    <3>3. QED
      BY <3>1, <3>2
  <2>3. QED
    BY <1>5, <2>1, <2>2 DEF TypeOK, BootNext
<1>6. ASSUME NEW n \in Name, StopBegins(n) PROVE TypeOK'
  BY <1>6 DEF TypeOK, StopBegins
<1>7. ASSUME ProcessEnds PROVE TypeOK'
  BY <1>7, SessionAssumption DEF TypeOK, ProcessEnds, SessionAssumption, Phases
<1>8. ASSUME ProcessStep PROVE TypeOK'
  <2>1. CASE Boot
    BY <2>1 DEF TypeOK, Boot
  <2>2. CASE BootResumes
    BY <2>2 DEF TypeOK, BootResumes
  <2>3. CASE GracefulShutdown
    BY <2>3 DEF TypeOK, GracefulShutdown
  <2>4. CASE StopCompletes
    BY <2>4, SetStatusType, DropEntryType DEF TypeOK, StopCompletes, Statuses
  <2>5. CASE ExitsCleanly \/ ForcedExit \/ Interrupted
    BY <2>5, <1>7 DEF ExitsCleanly, ForcedExit, Interrupted
  <2>6. QED
    BY <1>8, <2>1, <2>2, <2>3, <2>4, <2>5 DEF ProcessStep
<1>9. CASE UNCHANGED vars
  BY <1>9 DEF TypeOK, vars
<1>10. QED
  BY <1>1, <1>2, <1>3, <1>4, <1>5, <1>6, <1>8, <1>9 DEF Next

LEMMA TypeInit == Init => TypeOK
BY SessionAssumption DEF Init, TypeOK, SessionAssumption, Phases, Statuses

\* The state of the manager is well typed, whatever the order of its starts,
\* callbacks, timers, requests and process events.
THEOREM TypeCorrect == Spec => []TypeOK
BY TypeInit, TypeStep, PTL DEF Spec

-----------------------------------------------------------------------------
(* The entries of the map.                                                 *)

InMap == {"hostinfo", "done", "failed"}

\* A step that stores nothing keeps the provenance of the entries if it keeps
\* the owner of stored clients and never puts them back before create().
LEMMA ProvenanceKept ==
  ASSUME TypeOK, EntryProvenance,
         \A n \in Name : sessions'[n] = sessions[n] \/ sessions'[n] = NoClient,
         \A c \in Client : phase[c] \in InMap =>
            \/ phase'[c] \in InMap /\ owner'[c] = owner[c]
            \/ \A n \in Name : sessions[n] # c
  PROVE  EntryProvenance'
BY DEF EntryProvenance, TypeOK, InMap

LEMMA DropEntryOnlyDrops ==
  ASSUME TypeOK, NEW m, DropEntry(m)
  PROVE  \A n \in Name : sessions'[n] = sessions[n] \/ sessions'[n] = NoClient
BY DEF TypeOK, DropEntry

\* The identity of a new attempt is nobody's in the map.
LEMMA StartSessionFresh ==
  ASSUME TypeOK, NEW n \in Name, NEW b \in Client \cup {NoClient}, StartSession(n, b)
  PROVE  \A c \in Client : phase[c] \in InMap =>
            \/ phase'[c] \in InMap /\ owner'[c] = owner[c]
            \/ \A m \in Name : sessions[m] # c
<1>1. CASE UNCHANGED <<owner, phase>>
  BY <1>1
<1>2. CASE /\ b \in Client /\ Free(b)
           /\ owner' = [owner EXCEPT ![b] = n]
           /\ phase' = [phase EXCEPT ![b] = "launching"]
  BY <1>2 DEF TypeOK, Free
<1>3. QED
  BY <1>1, <1>2 DEF StartSession

LEMMA ProvenanceStep == TypeOK /\ EntryProvenance /\ [Next]_vars => EntryProvenance'
<1> SUFFICES ASSUME TypeOK, EntryProvenance, [Next]_vars PROVE EntryProvenance'
  OBVIOUS
<1>1. ASSUME NEW c \in Client, StartStep(c) PROVE EntryProvenance'
  <2>1. CASE LaunchBrowser(c)
    BY <2>1, ProvenanceKept DEF LaunchBrowser, InMap, TypeOK
  <2>2. CASE LaunchFails(c)
    BY <2>2, ProvenanceKept DEF LaunchFails, InMap, TypeOK
  <2>3. CASE LoadPage(c)
    BY <2>3, ProvenanceKept DEF LoadPage, InMap, TypeOK
  <2>4. CASE LoggedIn(c)
    BY <2>4, ProvenanceKept DEF LoggedIn, InMap, TypeOK
  <2>5. CASE LoginFails(c)
    <3>1. \A n \in Name : sessions'[n] = sessions[n] \/ sessions'[n] = NoClient
      BY <2>5, DropEntryOnlyDrops DEF LoginFails
    <3>2. QED
      BY <2>5, <3>1, ProvenanceKept DEF LoginFails, InMap, TypeOK
  <2>6. CASE CreateResolves(c)
    BY <2>6 DEF CreateResolves, EntryProvenance, TypeOK
  <2>7. CASE StartCompletes(c)
    BY <2>7, ProvenanceKept DEF StartCompletes, InMap, TypeOK
  <2>8. CASE StartRejects(c)
    BY <2>8, ProvenanceKept DEF StartRejects, InMap, TypeOK
  <2>9. QED
    BY <1>1, <2>1, <2>2, <2>3, <2>4, <2>5, <2>6, <2>7, <2>8 DEF StartStep
<1>2. ASSUME NEW c \in Client, PageStep(c) PROVE EntryProvenance'
  <2>1. UNCHANGED <<owner, phase>>
    BY <1>2 DEF PageStep, CatchQR, AutoClose, Unpair, ReportUnpaired,
                ReloginSucceeds, ReloginFails, LosePage, BrowserClosed
  <2>2. UNCHANGED sessions \/ DropEntry(owner[c])
    BY <1>2 DEF PageStep, CatchQR, AutoClose, Unpair, ReportUnpaired,
                ReloginSucceeds, ReloginFails, LosePage, BrowserClosed,
                HandleDisconnection
  <2>3. QED
    BY <2>1, <2>2, DropEntryOnlyDrops, ProvenanceKept
<1>3. ASSUME NEW n \in Name, RestStep(n) PROVE EntryProvenance'
  BY <1>3 DEF RestStep, RestCreate, RestUpdate, RestDelete, RestStart, RestStop,
              EntryProvenance
<1>4. ASSUME NEW n \in Name, ReconnectTimer(n) PROVE EntryProvenance'
  BY <1>4, StartSessionFresh, ProvenanceKept DEF ReconnectTimer
<1>5. ASSUME NEW n \in Name, BootNext(n) PROVE EntryProvenance'
  <2>1. CASE RowExists(n) /\ sessions[n] = NoClient
    BY <1>5, <2>1, StartSessionFresh, ProvenanceKept DEF BootNext
  <2>2. CASE ~(RowExists(n) /\ sessions[n] = NoClient)
    BY <1>5, <2>2 DEF BootNext, EntryProvenance
  <2>3. QED
    BY <2>1, <2>2
<1>6. ASSUME NEW n \in Name, StopBegins(n) PROVE EntryProvenance'
  BY <1>6 DEF StopBegins, EntryProvenance
<1>7. ASSUME ProcessEnds PROVE EntryProvenance'
  BY <1>7 DEF ProcessEnds, EntryProvenance
<1>8. ASSUME ProcessStep PROVE EntryProvenance'
  <2>1. CASE StopCompletes
    BY <2>1, DropEntryOnlyDrops, ProvenanceKept DEF StopCompletes
  <2>2. CASE Boot \/ BootResumes \/ GracefulShutdown
    BY <2>2 DEF Boot, BootResumes, GracefulShutdown, EntryProvenance
  <2>3. CASE ExitsCleanly \/ ForcedExit \/ Interrupted
    BY <2>3, <1>7 DEF ExitsCleanly, ForcedExit, Interrupted
  <2>4. QED
    BY <1>8, <2>1, <2>2, <2>3 DEF ProcessStep
<1>9. CASE UNCHANGED vars
  BY <1>9 DEF EntryProvenance, vars
<1>10. QED
  BY <1>1, <1>2, <1>3, <1>4, <1>5, <1>6, <1>8, <1>9 DEF Next

\* Every client in the manager's map was created, to its end, by a start of the
\* session it is stored under.
THEOREM ProvenanceOfEntries == Spec => []EntryProvenance
<1>1. Init => EntryProvenance
  BY DEF Init, EntryProvenance
<1>2. QED
  BY <1>1, TypeInit, TypeStep, ProvenanceStep, PTL DEF Spec

\* What the manager keeps, for any number of names, clients and timers.
THEOREM ManagerSound == Spec => []ManagerIsSound
BY TypeCorrect, ProvenanceOfEntries, PTL DEF ManagerIsSound

-----------------------------------------------------------------------------
(* Deleted rows.                                                           *)

\* The manager's status writes neither create nor remove a row.
LEMMA SetStatusKeepsRows ==
  ASSUME TypeOK, NEW m, NEW s \in Statuses, SetStatus(m, s)
  PROVE  \A n \in Name : RowExists(n)' = RowExists(n)
BY DEF TypeOK, SetStatus, RowExists, Statuses, Absent

LEMMA StartSessionKeepsRows ==
  ASSUME TypeOK, NEW m \in Name, NEW c, StartSession(m, c)
  PROVE  \A n \in Name : RowExists(n)' = RowExists(n)
BY DEF TypeOK, StartSession, RowExists, Absent

\* Everything but a request keeps the set of rows.
LEMMA RowsKept ==
  ASSUME TypeOK, [Next]_vars,
         \A n \in Name : ~RestStep(n)
  PROVE  \A n \in Name : RowExists(n)' = RowExists(n)
<1>1. ASSUME NEW c \in Client, StartStep(c)
      PROVE  \A n \in Name : RowExists(n)' = RowExists(n)
  <2>1. UNCHANGED status \/ \E s \in Statuses : SetStatus(owner[c], s)
    BY <1>1 DEF StartStep, LaunchBrowser, LaunchFails, LoadPage, StartRejects,
                LoggedIn, LoginFails, CreateResolves, StartCompletes, Statuses
  <2>2. QED
    BY <2>1, SetStatusKeepsRows DEF RowExists
<1>2. ASSUME NEW c \in Client, PageStep(c)
      PROVE  \A n \in Name : RowExists(n)' = RowExists(n)
  <2>1. UNCHANGED status \/ \E s \in Statuses : SetStatus(owner[c], s)
    BY <1>2 DEF PageStep, CatchQR, AutoClose, Unpair, ReportUnpaired,
                ReloginSucceeds, ReloginFails, LosePage, BrowserClosed,
                HandleDisconnection, Statuses
  <2>2. QED
    BY <2>1, SetStatusKeepsRows DEF RowExists
<1>3. ASSUME NEW m \in Name, ReconnectTimer(m)
      PROVE  \A n \in Name : RowExists(n)' = RowExists(n)
  BY <1>3, StartSessionKeepsRows DEF ReconnectTimer
<1>4. ASSUME NEW m \in Name, BootNext(m)
      PROVE  \A n \in Name : RowExists(n)' = RowExists(n)
  <2>1. CASE RowExists(m) /\ sessions[m] = NoClient
    BY <1>4, <2>1, StartSessionKeepsRows DEF BootNext
  <2>2. CASE ~(RowExists(m) /\ sessions[m] = NoClient)
    BY <1>4, <2>2 DEF BootNext, RowExists, TypeOK, Absent
  <2>3. QED
    BY <2>1, <2>2
<1>5. ASSUME NEW m \in Name, StopBegins(m)
      PROVE  \A n \in Name : RowExists(n)' = RowExists(n)
  BY <1>5 DEF StopBegins, RowExists
<1>6. ASSUME ProcessStep
      PROVE  \A n \in Name : RowExists(n)' = RowExists(n)
  <2>1. UNCHANGED status \/ \E m : SetStatus(m, "disconnected")
    BY <1>6 DEF ProcessStep, Boot, BootResumes, GracefulShutdown, StopCompletes,
                ExitsCleanly, ForcedExit, Interrupted, ProcessEnds
  <2>2. QED
    BY <2>1, SetStatusKeepsRows DEF RowExists, Statuses
<1>7. CASE UNCHANGED vars
  BY <1>7 DEF vars, RowExists
<1>8. QED
  BY <1>1, <1>2, <1>3, <1>4, <1>5, <1>6, <1>7 DEF Next

\* A deleted session is brought back by a request to create it and by nothing
\* its clients, timers and pending starts still do.
THEOREM DeletedStaysDeleted == Spec => NoResurrection
<1>1. ASSUME TypeOK, [Next]_vars, NEW n \in Name, ~RowExists(n), RowExists(n)'
      PROVE  UNCHANGED <<sessions, owner, phase, browser, timers, server>>
  <2>1. PICK m \in Name : RestStep(m)
    BY <1>1, RowsKept
  <2>2. QED
    BY <2>1 DEF RestStep, RestCreate, RestUpdate, RestDelete, RestStart, RestStop
<1>2. TypeOK /\ [Next]_vars =>
        [\A n \in Name : ~RowExists(n) /\ RowExists(n)' =>
           UNCHANGED <<sessions, owner, phase, browser, timers, server>>]_vars
  BY <1>1
<1>3. QED
  BY <1>2, TypeInit, TypeStep, PTL DEF Spec, NoResurrection

-----------------------------------------------------------------------------
(* Reconnects.                                                             *)

\* An auto-reconnect entry that leaves the map has its timer armed.
LEMMA DisconnectionArms ==
  ASSUME TypeOK, NEW m, DropEntry(m), ArmReconnect(m), NEW n \in Name,
         sessions[n] # NoClient, sessions'[n] = NoClient, RowExists(n), auto[n]
  PROVE  timers'[n] = timers[n] + 1
<1>1. n = m
  BY DEF DropEntry, TypeOK
<1>2. QED
  BY <1>1 DEF ArmReconnect, TypeOK

\* Outside a shutdown no entry of an auto-reconnect session is dropped without
\* a reconnect being scheduled.
THEOREM DropsAreFollowedUp == Spec => DropArmsReconnect
<1>1. ASSUME TypeOK, [Next]_vars, NEW n \in Name,
             sessions[n] # NoClient, sessions'[n] = NoClient,
             RowExists(n), auto[n], server # "draining", server' # "down"
      PROVE  timers'[n] = timers[n] + 1
  <2>1. ASSUME NEW c \in Client, StartStep(c) PROVE timers'[n] = timers[n] + 1
    <3>1. LoginFails(c) \/ CreateResolves(c)
      BY <1>1, <2>1 DEF StartStep, LaunchBrowser, LaunchFails, LoadPage, StartRejects,
                        LoggedIn, StartCompletes
    <3>2. CASE LoginFails(c)
      BY <1>1, <3>2, DisconnectionArms DEF LoginFails
    <3>3. CASE CreateResolves(c)
      BY <1>1, <3>3, SessionAssumption DEF CreateResolves, TypeOK, SessionAssumption
    <3>4. QED
      BY <3>1, <3>2, <3>3
  <2>2. ASSUME NEW c \in Client, PageStep(c) PROVE timers'[n] = timers[n] + 1
    <3>1. HandleDisconnection(owner[c])
      BY <1>1, <2>2 DEF PageStep, CatchQR, AutoClose, Unpair, ReportUnpaired,
                        ReloginSucceeds, ReloginFails, LosePage, BrowserClosed
    <3>2. QED
      BY <1>1, <3>1, DisconnectionArms DEF HandleDisconnection
  <2>3. ASSUME NEW m \in Name, RestStep(m) PROVE FALSE
    BY <1>1, <2>3 DEF RestStep, RestCreate, RestUpdate, RestDelete, RestStart, RestStop
  <2>4. ASSUME NEW m \in Name, ReconnectTimer(m) \/ BootNext(m) \/ StopBegins(m)
        PROVE  FALSE
    BY <1>1, <2>4 DEF ReconnectTimer, BootNext, StopBegins
  <2>5. ASSUME ProcessStep PROVE FALSE
    BY <1>1, <2>5 DEF ProcessStep, Boot, BootResumes, GracefulShutdown, StopCompletes,
                      ExitsCleanly, ForcedExit, Interrupted, ProcessEnds
  <2>6. CASE UNCHANGED vars
    BY <1>1, <2>6 DEF vars
  <2>7. QED
    BY <1>1, <2>1, <2>2, <2>3, <2>4, <2>5, <2>6 DEF Next
<1>2. TypeOK /\ [Next]_vars =>
        [\A n \in Name :
           /\ sessions[n] # NoClient /\ sessions'[n] = NoClient
           /\ RowExists(n) /\ auto[n] /\ server # "draining" /\ server' # "down"
           => timers'[n] = timers[n] + 1]_vars
  BY <1>1
<1>3. QED
  BY <1>2, TypeInit, TypeStep, PTL DEF Spec, DropArmsReconnect

-----------------------------------------------------------------------------
(* The manager implements the registry.                                    *)

Pending == {c \in Client : phase[c] \in InFlightPhases}

LEMMA DropRefines ==
  ASSUME TypeOK, NEW m, DropEntry(m), owner' = owner, NEW gone \in SUBSET Client,
         Pending' = Pending \ gone, gone = {} \/ \E c \in Client : gone = {c}
  PROVE  [Registry!Next]_(Registry!rvars)
<1>1. CASE m \in Name
  BY <1>1 DEF Registry!Next, Registry!Drop, DropEntry, Pending
<1>2. CASE m \notin Name /\ gone = {}
  BY <1>2 DEF Registry!rvars, DropEntry, Pending, TypeOK
<1>3. CASE m \notin Name /\ \E c \in Client : gone = {c}
  <2>1. sessions' = sessions
    BY <1>3 DEF DropEntry, TypeOK
  <2>2. QED
    BY <1>3, <2>1 DEF Registry!Next, Registry!GiveUp, Pending
<1>4. QED
  BY <1>1, <1>2, <1>3

LEMMA DropAloneRefines ==
  ASSUME TypeOK, NEW m, DropEntry(m), owner' = owner, Pending' = Pending
  PROVE  [Registry!Next]_(Registry!rvars)
<1>1. {} \in SUBSET Client /\ Pending' = Pending \ {}
  OBVIOUS
<1>2. QED
  BY <1>1, DropRefines

LEMMA StutterRefines ==
  ASSUME UNCHANGED <<sessions, owner>>, Pending' = Pending
  PROVE  [Registry!Next]_(Registry!rvars)
BY DEF Registry!rvars, Pending

LEMMA GiveUpRefines ==
  ASSUME UNCHANGED <<sessions, owner>>, NEW c \in Client, Pending' = Pending \ {c}
  PROVE  [Registry!Next]_(Registry!rvars)
BY DEF Registry!Next, Registry!GiveUp, Pending

\* A step of startSession up to create() begins an attempt or none.
LEMMA StartSessionRefines ==
  ASSUME TypeOK, NEW n \in Name, NEW b \in Client \cup {NoClient},
         StartSession(n, b), UNCHANGED sessions
  PROVE  [Registry!Next]_(Registry!rvars)
<1>1. CASE UNCHANGED <<owner, phase>>
  BY <1>1, StutterRefines DEF Pending
<1>2. CASE /\ b \in Client /\ Free(b)
           /\ owner' = [owner EXCEPT ![b] = n]
           /\ phase' = [phase EXCEPT ![b] = "launching"]
  <2>1. b \notin Pending
    BY <1>2 DEF Free, Pending, InFlightPhases
  <2>2. Pending' = Pending \cup {b}
    BY <1>2 DEF Pending, InFlightPhases, TypeOK
  <2>3. \A m \in Name : sessions[m] # b
    BY <1>2 DEF Free
  <2>4. QED
    BY <1>2, <2>1, <2>2, <2>3 DEF Registry!Next, Registry!Begin, Pending
<1>3. QED
  BY <1>1, <1>2 DEF StartSession

LEMMA RefinementStep == TypeOK /\ [Next]_vars => [Registry!Next]_(Registry!rvars)
<1> SUFFICES ASSUME TypeOK, [Next]_vars PROVE [Registry!Next]_(Registry!rvars)
  OBVIOUS
<1> USE DEF InFlightPhases
<1>1. ASSUME NEW c \in Client, StartStep(c) PROVE [Registry!Next]_(Registry!rvars)
  <2>1. CASE LaunchBrowser(c)
    <3>1. Pending' = Pending
      BY <2>1 DEF LaunchBrowser, Pending, TypeOK
    <3>2. QED
      BY <2>1, <3>1, StutterRefines DEF LaunchBrowser
  <2>2. CASE LaunchFails(c)
    <3>1. Pending' = Pending \ {c}
      BY <2>2 DEF LaunchFails, Pending, TypeOK
    <3>2. QED
      BY <2>2, <3>1, GiveUpRefines DEF LaunchFails
  <2>3. CASE LoadPage(c)
    <3>1. Pending' = Pending
      BY <2>3 DEF LoadPage, Pending, TypeOK
    <3>2. QED
      BY <2>3, <3>1, StutterRefines DEF LoadPage
  <2>4. CASE LoggedIn(c)
    <3>1. Pending' = Pending \/ Pending' = Pending \ {c}
      BY <2>4 DEF LoggedIn, Pending, TypeOK
    <3>2. QED
      BY <2>4, <3>1, StutterRefines, GiveUpRefines DEF LoggedIn
  <2>5. CASE LoginFails(c)
    <3>1. Pending' = Pending \ {c}
      BY <2>5 DEF LoginFails, Pending, TypeOK
    <3>2. CASE PageOpen(c)
      BY <2>5, <3>1, <3>2, DropRefines DEF LoginFails
    <3>3. CASE ~PageOpen(c)
      BY <2>5, <3>1, <3>3, GiveUpRefines DEF LoginFails
    <3>4. QED
      BY <3>2, <3>3
  <2>6. CASE CreateResolves(c)
    <3>1. /\ c \in Pending
          /\ Pending' = Pending \ {c}
      BY <2>6 DEF CreateResolves, Pending, TypeOK
    <3>2. CASE owner[c] \in Name
      BY <2>6, <3>1, <3>2 DEF CreateResolves, Registry!Next, Registry!Store, Pending
    <3>3. CASE owner[c] \notin Name
      <4>1. sessions' = sessions
        BY <2>6, <3>3 DEF CreateResolves, TypeOK
      <4>2. QED
        BY <2>6, <3>1, <4>1, GiveUpRefines DEF CreateResolves
    <3>4. QED
      BY <3>2, <3>3
  <2>7. CASE StartCompletes(c)
    <3>1. Pending' = Pending
      BY <2>7 DEF StartCompletes, Pending, TypeOK
    <3>2. QED
      BY <2>7, <3>1, StutterRefines DEF StartCompletes
  <2>8. CASE StartRejects(c)
    <3>1. Pending' = Pending \ {c}
      BY <2>8 DEF StartRejects, Pending, TypeOK
    <3>2. QED
      BY <2>8, <3>1, GiveUpRefines DEF StartRejects
  <2>9. QED
    BY <1>1, <2>1, <2>2, <2>3, <2>4, <2>5, <2>6, <2>7, <2>8 DEF StartStep
<1>2. ASSUME NEW c \in Client, PageStep(c) PROVE [Registry!Next]_(Registry!rvars)
  <2>1. UNCHANGED <<owner, phase>>
    BY <1>2 DEF PageStep, CatchQR, AutoClose, Unpair, ReportUnpaired,
                ReloginSucceeds, ReloginFails, LosePage, BrowserClosed
  <2>2. UNCHANGED sessions \/ DropEntry(owner[c])
    BY <1>2 DEF PageStep, CatchQR, AutoClose, Unpair, ReportUnpaired,
                ReloginSucceeds, ReloginFails, LosePage, BrowserClosed,
                HandleDisconnection
  <2>3. Pending' = Pending
    BY <2>1 DEF Pending
  <2>4. CASE UNCHANGED sessions
    BY <2>1, <2>3, <2>4, StutterRefines
  <2>5. CASE DropEntry(owner[c])
    BY <2>1, <2>3, <2>5, DropAloneRefines
  <2>6. QED
    BY <2>2, <2>4, <2>5
<1>3. ASSUME NEW n \in Name, RestStep(n) PROVE [Registry!Next]_(Registry!rvars)
  BY <1>3, StutterRefines
     DEF RestStep, RestCreate, RestUpdate, RestDelete, RestStart, RestStop, Pending
<1>4. ASSUME NEW n \in Name, ReconnectTimer(n) PROVE [Registry!Next]_(Registry!rvars)
  BY <1>4, StartSessionRefines DEF ReconnectTimer
<1>5. ASSUME NEW n \in Name, BootNext(n) PROVE [Registry!Next]_(Registry!rvars)
  <2>1. CASE RowExists(n) /\ sessions[n] = NoClient
    BY <1>5, <2>1, StartSessionRefines DEF BootNext
  <2>2. CASE ~(RowExists(n) /\ sessions[n] = NoClient)
    BY <1>5, <2>2, StutterRefines DEF BootNext, Pending
  <2>3. QED
    BY <2>1, <2>2
<1>6. ASSUME NEW n \in Name, StopBegins(n) PROVE [Registry!Next]_(Registry!rvars)
  BY <1>6, StutterRefines DEF StopBegins, Pending
<1>7. ASSUME ProcessEnds PROVE [Registry!Next]_(Registry!rvars)
  <2>1. Pending' = {}
    BY <1>7 DEF ProcessEnds, Pending
  <2>2. QED
    BY <1>7, <2>1 DEF ProcessEnds, Registry!Next, Registry!Reset, Pending
<1>8. ASSUME ProcessStep PROVE [Registry!Next]_(Registry!rvars)
  <2>1. CASE StopCompletes
    <3>1. Pending' = Pending
      BY <2>1 DEF StopCompletes, Pending
    <3>2. QED
      BY <2>1, <3>1, DropAloneRefines DEF StopCompletes
  <2>2. CASE Boot \/ BootResumes \/ GracefulShutdown
    BY <2>2, StutterRefines DEF Boot, BootResumes, GracefulShutdown, Pending
  <2>3. CASE ExitsCleanly \/ ForcedExit \/ Interrupted
    BY <2>3, <1>7 DEF ExitsCleanly, ForcedExit, Interrupted
  <2>4. QED
    BY <1>8, <2>1, <2>2, <2>3 DEF ProcessStep
<1>9. CASE UNCHANGED vars
  BY <1>9, StutterRefines DEF Pending, vars
<1>10. QED
  BY <1>1, <1>2, <1>3, <1>4, <1>5, <1>6, <1>8, <1>9 DEF Next

\* The map of sessions behaves as the registry promises.
THEOREM ManagerImplementsRegistry == Spec => RegistrySpec
<1>1. Init => Registry!Init
  BY DEF Init, Registry!Init, InFlightPhases
<1>2. QED
  BY <1>1, TypeInit, TypeStep, RefinementStep, PTL
     DEF Spec, RegistrySpec, Registry!Spec
=============================================================================
