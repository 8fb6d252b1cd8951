-------------------------- MODULE SessionRegistry --------------------------
(***************************************************************************)
(* What both session managers, WhatsAppSessionManager of src/ and the      *)
(* SessionManager of api-server/, promise about the `sessions` map of      *)
(* active sessions, whatever their callbacks, reconnect timers and         *)
(* shutdown do: every start attempt is made for one session name, its      *)
(* client may be stored under that name and under no other, and it is      *)
(* stored at most once.  A client that has left the map (or whose start    *)
(* failed) never comes back.                                               *)
(***************************************************************************)
CONSTANTS
  Name,      \* session names
  Client,    \* start attempts, each of which creates at most one client
  NoName,    \* the owner of an attempt that has not begun
  NoClient   \* the value of an absent map entry

VARIABLES
  sessions,  \* the map of active sessions
  owner,     \* the session name an attempt was begun for
  pending    \* the attempts that may still put their client in the map

rvars == <<sessions, owner, pending>>

Init ==
  /\ sessions = [n \in Name |-> NoClient]
  /\ owner = [c \in Client |-> NoName]
  /\ pending = {}

\* An attempt begins for name n with an identity nothing refers to.
Begin(n, c) ==
  /\ c \notin pending
  /\ \A m \in Name : sessions[m] # c
  /\ owner' = [owner EXCEPT ![c] = n]
  /\ pending' = pending \cup {c}
  /\ UNCHANGED sessions

\* A pending attempt stores its client under its own name.
Store(c) ==
  /\ c \in pending
  /\ owner[c] \in Name
  /\ sessions' = [sessions EXCEPT ![owner[c]] = c]
  /\ pending' = pending \ {c}
  /\ UNCHANGED owner

\* An entry is dropped, an attempt is given up, or both at once.
Drop(n, given_up) ==
  /\ sessions' = [sessions EXCEPT ![n] = NoClient]
  /\ pending' = pending \ given_up
  /\ UNCHANGED owner

\* An entry is dropped and, in the same step, an attempt for its name begins.
Replace(n, c) ==
  /\ c \notin pending
  /\ \A m \in Name : sessions[m] # c
  /\ sessions' = [sessions EXCEPT ![n] = NoClient]
  /\ owner' = [owner EXCEPT ![c] = n]
  /\ pending' = pending \cup {c}

GiveUp(c) ==
  /\ pending' = pending \ {c}
  /\ UNCHANGED <<sessions, owner>>

\* The process ends: the map and every attempt end with it.
Reset ==
  /\ sessions' = [n \in Name |-> NoClient]
  /\ owner' = [c \in Client |-> NoName]
  /\ pending' = {}

Next ==
  \/ \E n \in Name, c \in Client : Begin(n, c) \/ Replace(n, c)
  \/ \E c \in Client : Store(c) \/ GiveUp(c)
  \/ \E n \in Name, given_up \in SUBSET Client : Drop(n, given_up)
  \/ Reset

Spec == Init /\ [][Next]_rvars
=============================================================================
