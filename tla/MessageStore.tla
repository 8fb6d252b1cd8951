---------------------------- MODULE MessageStore ----------------------------
(***************************************************************************)
(* The rows a session's listeners write: messages, conversations and       *)
(* contacts.  setupMessageListeners of services/whatsapp-session.manager.ts*)
(* handles 'message' and 'ack' events of the client's page, sendMessage    *)
(* saves what it has sent, SessionModel.delete removes the session.  More  *)
(* than one client of the same session may have listeners at work: a       *)
(* client that has left the manager's map is not closed.                   *)
(*                                                                         *)
(* SQLite calls are synchronous, so an action is the code between two      *)
(* `await`s.  All messages are of one session; foreign keys make inserts   *)
(* fail when its row is gone.                                              *)
(***************************************************************************)
EXTENDS Naturals, FiniteSets

CONSTANTS
  Received,   \* ids of messages others send
  Sent,       \* ids of messages sendMessage sends
  Chat,
  ChatOf,     \* the chat of each received message
  Listener,   \* clients whose listeners are registered
  MaxAck      \* the last acknowledgement level

\* What an 'ack' event carries as msg.id: an object with the id in it, not the
\* id itself.
EventId(m) == [_serialized |-> m]

ASSUME StoreAssumption ==
  /\ IsFiniteSet(Received)
  /\ Received \cap Sent = {}
  /\ \A m \in Sent : EventId(m) \notin Received \cup Sent
  /\ ChatOf \in [Received -> Chat]
  /\ MaxAck \in Nat

VARIABLES
  session,        \* whether the session's row exists
  messages,       \* ids of the rows of `messages`
  ack,            \* the ack column of each message
  read,           \* ids of messages with is_read = 1
  conversations,  \* chats that have a row in `conversations`
  unread,         \* the unread_count column of each conversation
  contacts,       \* senders (one per chat) that have a row in `contacts`
  handled,        \* events onMessage has been called for
  waiting,        \* handlers that await client.getContact
  level,          \* the ack level WhatsApp has reached for each sent message
  heard,          \* the level each listener has been called with
  sending         \* "idle", "sent" (awaits getHostDevice) or "over"

rowVars == <<messages, ack, read, conversations, unread, contacts>>
ackVars == <<level, heard, sending>>
storeVars == <<session, messages, ack, read, conversations, unread, contacts,
          handled, waiting, level, heard, sending>>

Id == Received \cup Sent

StoreInit ==
  /\ session = TRUE
  /\ messages = {}
  /\ ack = [m \in Id |-> 0]
  /\ read = {}
  /\ conversations = {}
  /\ unread = [c \in Chat |-> 0]
  /\ contacts = {}
  /\ handled = {} /\ waiting = {}
  /\ level = [m \in Sent |-> 0]
  /\ heard = [l \in Listener |-> [m \in Sent |-> 0]]
  /\ sending = [m \in Sent |-> "idle"]

-----------------------------------------------------------------------------
(* Incoming messages.                                                      *)

\* Mutant: the conversation is brought up to date before the message is saved.
OnMessageCountsFirst(l, m) ==
  /\ <<l, m>> \notin handled
  /\ handled' = handled \cup {<<l, m>>}
  /\ IF session
       THEN /\ conversations' = conversations \cup {ChatOf[m]}
            /\ unread' = [unread EXCEPT ![ChatOf[m]] = @ + 1]
       ELSE UNCHANGED <<conversations, unread>>
  /\ IF session /\ m \notin messages
       THEN /\ messages' = messages \cup {m}
            /\ waiting' = waiting \cup {<<l, m>>}
       ELSE UNCHANGED <<messages, waiting>>
  /\ UNCHANGED <<session, ack, read, contacts, ackVars>>

\* The listener of client l for message m up to `await client.getContact`.
\* Saving fails for an id that is stored or without a session: the rest of
\* the handler is skipped.
OnMessage(l, m) ==
  /\ <<l, m>> \notin handled
  /\ handled' = handled \cup {<<l, m>>}
  /\ IF session /\ m \notin messages
       THEN /\ messages' = messages \cup {m}
            /\ conversations' = conversations \cup {ChatOf[m]}
            /\ unread' = [unread EXCEPT ![ChatOf[m]] = @ + 1]
            /\ waiting' = waiting \cup {<<l, m>>}
       ELSE UNCHANGED <<messages, conversations, unread, waiting>>
  /\ UNCHANGED <<session, ack, read, contacts, ackVars>>

\* getContact answers: the upsert fails if the session is gone by now.  It may
\* also fail itself; the handler ends in either case.
ContactAnswers(l, m) ==
  /\ <<l, m>> \in waiting
  /\ waiting' = waiting \ {<<l, m>>}
  /\ \/ session /\ contacts' = contacts \cup {ChatOf[m]}
     \/ UNCHANGED contacts
  /\ UNCHANGED <<session, messages, ack, read, conversations, unread, handled, ackVars>>

\* PATCH .../messages/:messageId/read
MarkAsRead(m) ==
  /\ m \in messages
  /\ read' = read \cup {m}
  /\ UNCHANGED <<session, messages, ack, conversations, unread, contacts,
                 handled, waiting, ackVars>>

-----------------------------------------------------------------------------
(* Outgoing messages and acknowledgements.                                 *)

\* client.sendText resolves.  The events that came before its result have been
\* handled, the result carries the level reached by then.
SendResolves(m) ==
  /\ sending[m] = "idle"
  /\ sending' = [sending EXCEPT ![m] = "sent"]
  /\ \E l \in Listener, a \in 0..MaxAck :
       /\ level' = [level EXCEPT ![m] = a]
       /\ heard' = [heard EXCEPT ![l][m] = a]
       /\ ack' = [ack EXCEPT ![m] = a]
  /\ UNCHANGED <<session, messages, read, conversations, unread, contacts,
                 handled, waiting>>

\* getHostDevice answers and the message is saved with the ack of the result
\* (kept in `ack` meanwhile); without a session the insert fails.
SaveSent(m) ==
  /\ sending[m] = "sent"
  /\ sending' = [sending EXCEPT ![m] = "over"]
  /\ messages' = IF session THEN messages \cup {m} ELSE messages
  /\ UNCHANGED <<session, ack, read, conversations, unread, contacts,
                 handled, waiting, level, heard>>

\* getHostDevice fails: the message is not saved.
SaveSkipped(m) ==
  /\ sending[m] = "sent"
  /\ sending' = [sending EXCEPT ![m] = "over"]
  /\ UNCHANGED <<session, rowVars, handled, waiting, level, heard>>

\* WhatsApp acknowledges: sent, delivered, read, played.
Acknowledge(m) ==
  /\ sending[m] # "idle" /\ level[m] < MaxAck
  /\ level' = [level EXCEPT ![m] = @ + 1]
  /\ UNCHANGED <<session, rowVars, handled, waiting, heard, sending>>

\* updateAck: the row whose message_id is the given value, if there is one;
\* otherwise an error that the listener logs.
UpdateAck(id, a) == ack' = IF id \in messages THEN [ack EXCEPT ![id] = a] ELSE ack

\* The next 'ack' event of listener l: its msg.id goes to updateAck as it is.
OnAck(l, m) ==
  /\ heard[l][m] < level[m]
  /\ heard' = [heard EXCEPT ![l][m] = @ + 1]
  /\ UpdateAck(EventId(m), heard'[l][m])
  /\ UNCHANGED <<session, messages, read, conversations, unread, contacts,
                 handled, waiting, level, sending>>

-----------------------------------------------------------------------------
(* The session itself.                                                     *)

\* DELETE /sessions/:name: four DELETEs in one synchronous function
DeleteSession ==
  /\ session
  /\ session' = FALSE
  /\ messages' = {} /\ read' = {}
  /\ conversations' = {} /\ unread' = [c \in Chat |-> 0]
  /\ contacts' = {}
  /\ UNCHANGED <<ack, handled, waiting, ackVars>>

CreateSession ==
  /\ ~session
  /\ session' = TRUE
  /\ UNCHANGED <<rowVars, handled, waiting, ackVars>>

StoreNext ==
  \/ \E l \in Listener, m \in Received : OnMessage(l, m) \/ ContactAnswers(l, m)
  \/ \E m \in Id : MarkAsRead(m)
  \/ \E m \in Sent : SendResolves(m) \/ SaveSent(m) \/ SaveSkipped(m) \/ Acknowledge(m)
  \/ \E l \in Listener, m \in Sent : OnAck(l, m)
  \/ DeleteSession \/ CreateSession

StoreSpec == StoreInit /\ [][StoreNext]_storeVars

-----------------------------------------------------------------------------
\* Every variable has values of its kind.
StoreTypeOK ==
  /\ session \in BOOLEAN
  /\ messages \subseteq Id /\ read \subseteq Id
  /\ ack \in [Id -> 0..MaxAck]
  /\ conversations \subseteq Chat /\ contacts \subseteq Chat
  /\ unread \in [Chat -> Nat]
  /\ handled \subseteq Listener \X Received
  /\ waiting \subseteq handled
  /\ level \in [Sent -> 0..MaxAck]
  /\ heard \in [Listener -> [Sent -> 0..MaxAck]]
  /\ sending \in [Sent -> {"idle", "sent", "over"}]

StoredOf(c) == {m \in messages \cap Received : ChatOf[m] = c}

\* Two clients of a session hand over the same message, the session may be
\* deleted and created in between: a conversation's count misses no unread
\* message of others, and counts none twice.  (markAsRead does not lower it,
\* so it may also count messages that have been read.)
UnreadInBounds ==
  \A c \in Chat : /\ Cardinality(StoredOf(c) \ read) <= unread[c]
                  /\ unread[c] <= Cardinality(StoredOf(c))

\* Whatever handlers were still waiting when the session was deleted, no row
\* of a session that does not exist is left or written.
NoOrphanRows == ~session => messages = {} /\ conversations = {} /\ contacts = {}

\* Every stored message of others is in a conversation that can be listed.
StoredHaveConversation ==
  \A m \in messages \cap Received : ChatOf[m] \in conversations

-----------------------------------------------------------------------------
\* DATABASE_SCHEMA.md: ack is the message's acknowledgement status.  Once all
\* events have been handled it is the one WhatsApp has reported.
AckUpToDate ==
  \A m \in Sent :
    m \in messages /\ (\A l \in Listener : heard[l][m] = level[m]) => ack[m] = level[m]

\* Messages, contacts, conversations and sessions agree, whichever clients store the
\* same message and whichever session comes and goes meanwhile.
StoreIsSound == StoreTypeOK /\ UnreadInBounds /\ NoOrphanRows /\ StoredHaveConversation
=============================================================================
