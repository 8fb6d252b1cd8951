------------------------- MODULE MessageStoreProofs -------------------------
(***************************************************************************)
(* The rows of a session, for every set of messages, chats and listeners:  *)
(* well typed, without orphans, every stored message of others in a        *)
(* conversation, and counted there, once.                                  *)
(***************************************************************************)
EXTENDS MessageStore, FiniteSetTheorems, TLAPS

\* The counter is never lowered: it is the number of stored messages of others.
UnreadCountsStored ==
  \A c \in Chat : unread[c] = Cardinality(StoredOf(c))

StoreInv == StoreTypeOK /\ NoOrphanRows /\ StoredHaveConversation /\ UnreadCountsStored

USE DEF rowVars, ackVars, Id

LEMMA StoreTypeInit == StoreInit => StoreTypeOK
BY StoreAssumption DEF StoreAssumption, StoreInit, StoreTypeOK

LEMMA StoreTypeStep == StoreTypeOK /\ [StoreNext]_storeVars => StoreTypeOK'
<1> SUFFICES ASSUME StoreTypeOK, [StoreNext]_storeVars PROVE StoreTypeOK'
  OBVIOUS
<1> USE StoreAssumption DEF StoreAssumption, StoreTypeOK
<1>1. ASSUME NEW l \in Listener, NEW m \in Received, OnMessage(l, m) PROVE StoreTypeOK'
  BY <1>1 DEF OnMessage
<1>2. ASSUME NEW l \in Listener, NEW m \in Received, ContactAnswers(l, m) PROVE StoreTypeOK'
  BY <1>2 DEF ContactAnswers
<1>3. ASSUME NEW m \in Id, MarkAsRead(m) PROVE StoreTypeOK'
  BY <1>3 DEF MarkAsRead
<1>4. ASSUME NEW m \in Sent, SendResolves(m) PROVE StoreTypeOK'
  BY <1>4 DEF SendResolves
<1>5. ASSUME NEW m \in Sent, SaveSent(m) PROVE StoreTypeOK'
  BY <1>5 DEF SaveSent
<1>6. ASSUME NEW m \in Sent, SaveSkipped(m) PROVE StoreTypeOK'
  BY <1>6 DEF SaveSkipped
<1>7. ASSUME NEW m \in Sent, Acknowledge(m) PROVE StoreTypeOK'
  BY <1>7 DEF Acknowledge
<1>8. ASSUME NEW l \in Listener, NEW m \in Sent, OnAck(l, m) PROVE StoreTypeOK'
  <2>1. heard[l][m] + 1 \in 0..MaxAck
    BY <1>8 DEF OnAck
  <2>2. heard' \in [Listener -> [Sent -> 0..MaxAck]] /\ heard'[l][m] \in 0..MaxAck
    BY <1>8, <2>1 DEF OnAck
  <2>3. QED
    BY <1>8, <2>2 DEF OnAck, UpdateAck
<1>9. CASE DeleteSession
  BY <1>9 DEF DeleteSession
<1>10. CASE CreateSession
  BY <1>10 DEF CreateSession
<1>11. CASE UNCHANGED storeVars
  BY <1>11 DEF storeVars
<1>12. QED
  BY <1>1, <1>2, <1>3, <1>4, <1>5, <1>6, <1>7, <1>8, <1>9, <1>10, <1>11 DEF StoreNext

LEMMA OrphanStep == StoreTypeOK /\ NoOrphanRows /\ [StoreNext]_storeVars => NoOrphanRows'
BY DEF StoreTypeOK, NoOrphanRows, StoreNext, storeVars, OnMessage, ContactAnswers, MarkAsRead,
       SendResolves,
       SaveSent, SaveSkipped, Acknowledge, OnAck, UpdateAck, DeleteSession, CreateSession

LEMMA ConversationStep ==
  StoreTypeOK /\ StoredHaveConversation /\ [StoreNext]_storeVars => StoredHaveConversation'
BY StoreAssumption
   DEF StoreAssumption, StoredHaveConversation, StoreNext, storeVars, OnMessage, ContactAnswers,
       MarkAsRead, SendResolves, SaveSent, SaveSkipped, Acknowledge, OnAck, UpdateAck,
       DeleteSession, CreateSession

\* Storing a message of others changes the stored messages of its chat alone.
LEMMA StoredOfAdds ==
  ASSUME NEW m \in Received, m \notin messages, messages' = messages \cup {m},
         NEW c \in Chat
  PROVE  /\ ChatOf[m] = c => StoredOf(c)' = StoredOf(c) \cup {m} /\ m \notin StoredOf(c)
         /\ ChatOf[m] # c => StoredOf(c)' = StoredOf(c)
BY DEF StoredOf

LEMMA StoredOfFinite == ASSUME NEW c \in Chat PROVE IsFiniteSet(StoredOf(c))
<1>1. StoredOf(c) \subseteq Received
  BY DEF StoredOf
<1>2. QED
  BY <1>1, StoreAssumption, FS_Subset DEF StoreAssumption

LEMMA UnreadStep ==
  StoreTypeOK /\ UnreadCountsStored /\ [StoreNext]_storeVars => UnreadCountsStored'
<1> SUFFICES ASSUME StoreTypeOK, UnreadCountsStored, [StoreNext]_storeVars, NEW c \in Chat
             PROVE  unread'[c] = Cardinality(StoredOf(c)')
  BY DEF UnreadCountsStored
<1>1. unread[c] = Cardinality(StoredOf(c))
  BY DEF UnreadCountsStored
<1>2. ASSUME unread' = unread, StoredOf(c)' = StoredOf(c)
      PROVE  unread'[c] = Cardinality(StoredOf(c)')
  BY <1>1, <1>2
<1>3. ASSUME NEW l \in Listener, NEW m \in Received, OnMessage(l, m)
      PROVE  unread'[c] = Cardinality(StoredOf(c)')
  <2>1. CASE session /\ m \notin messages
    <3>1. CASE ChatOf[m] = c
      <4>1. Cardinality(StoredOf(c)') = Cardinality(StoredOf(c)) + 1
        BY <1>3, <2>1, <3>1, StoredOfAdds, StoredOfFinite, FS_AddElement DEF OnMessage
      <4>2. unread'[c] = unread[c] + 1
        BY <1>3, <2>1, <3>1 DEF OnMessage, StoreTypeOK
      <4>3. QED
        BY <1>1, <4>1, <4>2
    <3>2. CASE ChatOf[m] # c
      <4>1. StoredOf(c)' = StoredOf(c)
        BY <1>3, <2>1, <3>2, StoredOfAdds DEF OnMessage
      <4>2. unread'[c] = unread[c]
        BY <1>3, <2>1, <3>2 DEF OnMessage, StoreTypeOK
      <4>3. QED
        BY <1>1, <4>1, <4>2
    <3>3. QED
      BY <3>1, <3>2
  <2>2. CASE ~(session /\ m \notin messages)
    BY <1>2, <1>3, <2>2 DEF OnMessage, StoredOf
  <2>3. QED
    BY <2>1, <2>2
<1>4. ASSUME NEW m \in Sent, SaveSent(m)
      PROVE  unread'[c] = Cardinality(StoredOf(c)')
  BY <1>2, <1>4, StoreAssumption DEF SaveSent, StoredOf, StoreAssumption
<1>5. CASE DeleteSession
  <2>1. StoredOf(c)' = {}
    BY <1>5 DEF DeleteSession, StoredOf
  <2>2. QED
    BY <1>5, <2>1, FS_EmptySet DEF DeleteSession
<1>6. ASSUME UNCHANGED <<unread, messages>>
      PROVE  unread'[c] = Cardinality(StoredOf(c)')
  BY <1>2, <1>6 DEF StoredOf
<1>7. QED
  BY <1>3, <1>4, <1>5, <1>6
     DEF StoreNext, storeVars, ContactAnswers, MarkAsRead, SendResolves, SaveSkipped,
         Acknowledge, OnAck, UpdateAck, CreateSession

LEMMA BoundsOfCount == StoreTypeOK /\ UnreadCountsStored => UnreadInBounds
<1> SUFFICES ASSUME UnreadCountsStored, NEW c \in Chat
             PROVE  /\ Cardinality(StoredOf(c) \ read) <= unread[c]
                    /\ unread[c] <= Cardinality(StoredOf(c))
  BY DEF UnreadInBounds
<1>1. IsFiniteSet(StoredOf(c)) /\ StoredOf(c) \ read \subseteq StoredOf(c)
  BY StoredOfFinite
<1>2. Cardinality(StoredOf(c) \ read) <= Cardinality(StoredOf(c))
  BY <1>1, FS_Subset
<1>3. Cardinality(StoredOf(c)) \in Nat
  BY <1>1, FS_CardinalityType
<1>4. QED
  BY <1>2, <1>3 DEF UnreadCountsStored

LEMMA StoreInvInit == StoreInit => StoreInv
<1> SUFFICES ASSUME StoreInit PROVE StoreInv
  OBVIOUS
<1>1. \A c \in Chat : StoredOf(c) = {}
  BY DEF StoreInit, StoredOf
<1>2. UnreadCountsStored
  BY <1>1, FS_EmptySet DEF StoreInit, UnreadCountsStored
<1>3. NoOrphanRows /\ StoredHaveConversation
  BY DEF StoreInit, NoOrphanRows, StoredHaveConversation
<1>4. QED
  BY <1>2, <1>3, StoreTypeInit DEF StoreInv

LEMMA StoreInvStep == StoreInv /\ [StoreNext]_storeVars => StoreInv'
BY StoreTypeStep, OrphanStep, ConversationStep, UnreadStep DEF StoreInv

LEMMA StoreInvariant == StoreSpec => []StoreInv
BY StoreInvInit, StoreInvStep, PTL DEF StoreSpec

\* The rows of a session are well typed.
THEOREM StoreTypeCorrect == StoreSpec => []StoreTypeOK
BY StoreInvariant, PTL DEF StoreInv

\* A conversation's count misses no unread message and counts none twice,
\* however many listeners hand them over and however often the session is
\* deleted and created.
THEOREM UnreadCountBounded == StoreSpec => []UnreadInBounds
BY StoreInvariant, BoundsOfCount, PTL DEF StoreInv

\* Handlers that are still waiting write nothing for a deleted session.
THEOREM RowsHaveASession == StoreSpec => []NoOrphanRows
BY StoreInvariant, PTL DEF StoreInv

\* No stored message of others is missing from the list of conversations.
THEOREM StoredMessagesListed == StoreSpec => []StoredHaveConversation
BY StoreInvariant, PTL DEF StoreInv

\* The rows of messages, contacts, conversations and sessions agree, for any
\* number of clients that store the same messages.
THEOREM StoreSound == StoreSpec => []StoreIsSound
BY StoreInvariant, BoundsOfCount, PTL DEF StoreInv, StoreIsSound
=============================================================================
