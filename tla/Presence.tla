------------------------------ MODULE Presence ------------------------------
(***************************************************************************)
(* Who is online: the table online_users (services/presence.service.ts),   *)
(* the sockets that write it and the updates they are sent                 *)
(* (services/websocket.service.ts, the presence part).                     *)
(*                                                                         *)
(* The table holds a row per socket.  Statuses are written per user, rows  *)
(* are deleted per socket or by the cleanup, and only the first two are    *)
(* announced.  The cleanup compares "YYYY-MM-DD hh:mm:ss" with an ISO      *)
(* string as text: ' ' is less than 'T', so a row of the day of the        *)
(* cut-off is deleted whatever its time.  Kept are only the rows seen      *)
(* after a midnight that is less than five minutes past.                   *)
(***************************************************************************)
EXTENDS Naturals

CONSTANTS
  Socket,     \* socket ids
  Member,
  Tenanted,   \* users whose token names a tenant; AuthService issues none
  MaxEnds     \* bound: ends of the process

ASSUME PresenceAssumption ==
  Tenanted \subseteq Member /\ "nobody" \notin Member /\ MaxEnds \in Nat

VARIABLES
  alive,      \* the process: "down", "up", or "closed" (up, with a closed handle)
  owner,      \* the user of each connected socket
  online,     \* the status in the row of each socket, and whose it is
  seenLate,   \* sockets whose row was last seen after the latest midnight
  midnight,   \* bound: one midnight, "ahead", "just" (less than five minutes ago)
              \* or "past"
  shown,      \* what each connected client knows of each user
  swept,      \* history: users whose row went without an announcement
  ghost,      \* history: sockets whose row a dead process left
  ends

presenceVars == <<alive, owner, online, seenLate, midnight, shown, swept, ghost, ends>>

Nobody == "nobody"
NoRow == [user |-> Nobody, status |-> "offline"]
Unknown == [u \in Member |-> "offline"]
Statuses == {"online", "away", "busy"}

PresenceInit ==
  /\ alive = "up"
  /\ owner = [s \in Socket |-> Nobody]
  /\ online = [s \in Socket |-> NoRow]
  /\ seenLate = {} /\ midnight = "ahead"
  /\ shown = [s \in Socket |-> Unknown]
  /\ swept = {} /\ ghost = {}
  /\ ends = 0

\* broadcastToTenant: every connected client of the room replaces what it knew.
Broadcast(view, members, u, status) ==
  [s \in Socket |-> IF s \in members THEN [view[s] EXCEPT ![u] = status] ELSE view[s]]

Connected == {s \in Socket : owner[s] # Nobody}
Room(who) == {s \in Socket : who[s] \in Tenanted}

\* A user connects: setOnline inserts a row and announces it, to the new client
\* too.  The column tenant_id is NOT NULL, so without a tenant, as with a closed
\* handle, the insert fails and the error is logged.
Connect(s, u) ==
  /\ alive # "down" /\ owner[s] = Nobody
  /\ online[s] = NoRow    \* socket ids are not used again
  /\ owner' = [owner EXCEPT ![s] = u]
  /\ IF alive = "up" /\ u \in Tenanted
       THEN /\ online' = [online EXCEPT ![s] = [user |-> u, status |-> "online"]]
            /\ seenLate' = IF midnight = "just" THEN seenLate \cup {s} ELSE seenLate
            /\ shown' = Broadcast(shown, Room(owner'), u, "online")
            /\ swept' = swept \ {u}
       ELSE UNCHANGED <<online, seenLate, shown, swept>>
  /\ UNCHANGED <<alive, midnight, ghost, ends>>

\* Mutant: the status is announced although no row has it.
UpdateStatusAnnouncesAlways(s, status) ==
  LET u == owner[s] IN
  /\ alive = "up" /\ u # Nobody
  /\ shown' = Broadcast(shown, Room(owner), u, status)
  /\ UNCHANGED <<alive, owner, online, seenLate, midnight, swept, ghost, ends>>

\* presence:status: all rows of the user are written, and the new status is
\* announced if there was one.
UpdateStatus(s, status) ==
  LET u == owner[s]
      rows == {t \in Socket : online[t].user = u} IN
  /\ alive = "up" /\ u # Nobody /\ rows # {}
  /\ online' = [t \in Socket |-> IF t \in rows THEN [user |-> u, status |-> status] ELSE online[t]]
  /\ seenLate' = IF midnight = "just" THEN seenLate \cup rows ELSE seenLate
  /\ shown' = Broadcast(shown, Room(owner), u, status)
  /\ swept' = swept \ {u}
  /\ UNCHANGED <<alive, owner, midnight, ghost, ends>>

\* presence:get-online.  With a closed handle the query throws in the handler,
\* and the uncaught exception ends the process.
GetOnline(s) ==
  /\ alive = "up" /\ owner[s] \in Tenanted
  /\ shown' = [shown EXCEPT ![s] = [u \in Member |->
                 LET rows == {t \in Socket : online[t].user = u}
                 IN IF rows = {} THEN "offline" ELSE online[CHOOSE t \in rows : TRUE].status]]
  /\ UNCHANGED <<alive, owner, online, seenLate, midnight, swept, ghost, ends>>

\* disconnect: setOffline deletes the row of the socket and announces the user
\* as offline, even when another socket of theirs is connected.
Disconnect(s) ==
  /\ alive # "down" /\ owner[s] # Nobody
  /\ owner' = [owner EXCEPT ![s] = Nobody]
  /\ IF alive = "up"
       THEN /\ online' = [online EXCEPT ![s] = NoRow]
            /\ seenLate' = seenLate \ {s}
            /\ shown' = IF online[s] = NoRow THEN [shown EXCEPT ![s] = Unknown]
                        ELSE [Broadcast(shown, Room(owner'), owner[s], "offline")
                                EXCEPT ![s] = Unknown]
            /\ UNCHANGED ghost
       ELSE /\ ghost' = IF online[s] = NoRow THEN ghost ELSE ghost \cup {s}
            /\ shown' = [shown EXCEPT ![s] = Unknown]
            /\ UNCHANGED <<online, seenLate>>
  /\ UNCHANGED <<alive, midnight, swept, ends>>

\* Mutant: the rows of the day are kept, whatever their age.
CleanupKeepsGhosts ==
  LET rows == {s \in Socket : online[s] # NoRow /\ s \notin seenLate \cup ghost} IN
  /\ alive = "up" /\ rows # {}
  /\ online' = [s \in Socket |-> IF s \in rows THEN NoRow ELSE online[s]]
  /\ swept' = swept \cup {online[s].user : s \in rows}
  /\ UNCHANGED <<alive, owner, seenLate, midnight, shown, ghost, ends>>

\* cleanupStaleRecords, every two minutes.  Nothing is announced.
CleanupStaleRecords ==
  LET rows == {s \in Socket : online[s] # NoRow /\ s \notin seenLate} IN
  /\ alive = "up" /\ rows # {}
  /\ online' = [s \in Socket |-> IF s \in rows THEN NoRow ELSE online[s]]
  /\ swept' = swept \cup {online[s].user : s \in rows}
  /\ ghost' = ghost \ rows
  /\ UNCHANGED <<alive, owner, seenLate, midnight, shown, ends>>

\* Midnight passes, and five minutes after it.
Midnight ==
  /\ midnight = "ahead"
  /\ midnight' = "just" /\ seenLate' = {}
  /\ UNCHANGED <<alive, owner, online, shown, swept, ghost, ends>>

FiveMinutes ==
  /\ midnight = "just"
  /\ midnight' = "past" /\ seenLate' = {}
  /\ UNCHANGED <<alive, owner, online, shown, swept, ghost, ends>>

\* restoreBackup closes the handle under the process.
CloseHandle ==
  /\ alive = "up"
  /\ alive' = "closed"
  /\ UNCHANGED <<owner, online, seenLate, midnight, shown, swept, ghost, ends>>

Gone ==
  /\ alive' = "down" /\ ends' = ends + 1
  /\ owner' = [s \in Socket |-> Nobody]
  /\ shown' = [s \in Socket |-> Unknown]

\* A crash, the SIGINT listener of config/database.ts, or a handler that threw
\* because of the closed handle.
PresenceCrash ==
  /\ alive # "down" /\ ends < MaxEnds
  /\ Gone
  /\ ghost' = ghost \cup {s \in Connected : online[s] # NoRow}
  /\ UNCHANGED <<online, seenLate, midnight, swept>>

\* gracefulShutdown: close() disconnects the sockets, their handlers run at
\* once, and only then is the handle closed.
CloseSockets ==
  /\ alive = "up" /\ ends < MaxEnds
  /\ Gone
  /\ online' = [s \in Socket |-> IF s \in Connected THEN NoRow ELSE online[s]]
  /\ seenLate' = seenLate \ Connected
  /\ UNCHANGED <<midnight, swept, ghost>>

PresenceStart ==
  /\ alive = "down"
  /\ alive' = "up"
  /\ UNCHANGED <<owner, online, seenLate, midnight, shown, swept, ghost, ends>>

PresenceNext ==
  \/ \E s \in Socket :
       \/ \E u \in Member : Connect(s, u)
       \/ \E status \in Statuses : UpdateStatus(s, status)
       \/ GetOnline(s)
       \/ Disconnect(s)
  \/ CleanupStaleRecords \/ Midnight \/ FiveMinutes
  \/ CloseHandle \/ PresenceCrash \/ CloseSockets \/ PresenceStart

\* The interval of the cleanup, the clock, and the supervisor that starts the
\* process again; a closed handle is followed by the restart that
\* restoreBackup asks for.
PresenceFairness ==
  /\ WF_presenceVars(CleanupStaleRecords)
  /\ WF_presenceVars(FiveMinutes)
  /\ WF_presenceVars(PresenceStart)

PresenceSpec == PresenceInit /\ [][PresenceNext]_presenceVars /\ PresenceFairness

-----------------------------------------------------------------------------
PresenceTypeOK ==
  /\ alive \in {"down", "up", "closed"}
  /\ owner \in [Socket -> Member \cup {Nobody}]
  /\ online \in [Socket -> {NoRow} \cup [user : Tenanted, status : Statuses]]
  /\ seenLate \subseteq Socket /\ ghost \subseteq Socket /\ swept \subseteq Member
  /\ midnight \in {"ahead", "just", "past"}
  /\ shown \in [Socket -> [Member -> Statuses \cup {"offline"}]]
  /\ ends \in 0 .. MaxEnds

\* A row belongs to a connected socket of its user, unless a process that died,
\* or a closed handle, left it behind: status writes, disconnects, cleanups and
\* shutdowns in any order leave no other ghost.
RowsHaveSockets ==
  \A s \in Socket : online[s] # NoRow => owner[s] = online[s].user \/ s \in ghost

\* A user who is shown as present has a row, unless the cleanup took it away
\* without an announcement or the handle is closed.
ShownHasRow ==
  \A s \in Connected, u \in Member :
    shown[s][u] # "offline" => \/ \E t \in Socket : online[t].user = u
                               \/ u \in swept \/ alive = "closed"

\* What a dead process left is cleaned up, whatever happens meanwhile; unless
\* the handle is closed for good.
GhostsGo == \A s \in Socket : s \in ghost ~> s \notin ghost \/ alive = "closed"

\* The rows, the connected sockets and what their clients were told agree.
PresenceIsSound == PresenceTypeOK /\ RowsHaveSockets /\ ShownHasRow
=============================================================================
