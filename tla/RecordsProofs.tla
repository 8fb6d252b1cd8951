----------------------------- MODULE RecordsProofs -----------------------------
(***************************************************************************)
(* What is proved of the rows that single requests and events write: the   *)
(* inbox of the stand-alone server, the accounts with the limiter of their *)
(* routes, and the session requests.  The last section puts them together  *)
(* with what the modules about the listeners and the tenants prove, as     *)
(* module Records runs them.                                               *)
(***************************************************************************)
EXTENDS Records, MessageStoreProofs, TenantsProofs, FiniteSetTheorems, TLAPS

-----------------------------------------------------------------------------
(* The inbox of api-server/server.js.  What the handlers know of their message *)
(* is old when they go on; what they rely on is that a stored message keeps its*)
(* day, a conversation its row, and a transferred one an agent.               *)

\* Whoever waits has stored its message, on a day that has come.
WaitersStored ==
  /\ \A h \in handlers : stored[h.message] # 0
  /\ \A m \in Message : stored[m] <= today

\* A conversation a person handed over has a row and an agent.
HandedOver ==
  \A c \in byHand :
    unreadCount[c] > 0 /\ assigned[c] = transferred[c] /\ assigned[c] \in Agent

InboxInv ==
  /\ InboxTypeOK /\ WaitersStored /\ HandedOver
  /\ AutoAssignWithinCapacity /\ AnalyticsMatch

LEMMA InboxConstants ==
  /\ ContactOf \in [Message -> Contact] /\ NoAgent \notin Agent
  /\ Capacity \in Nat \ {0} /\ Hooks \in Nat \ {0}
  /\ LastDay \in Nat \ {0}
  /\ IsFiniteSet(Contact) /\ IsFiniteSet(Message)
BY InboxAssumption DEF InboxAssumption

LEMMA StoredCounts ==
  ASSUME NEW f, NEW d
  PROVE  /\ IsFiniteSet({m \in Message : f[m] = d})
         /\ Cardinality({m \in Message : f[m] = d}) \in 0 .. Cardinality(Message)
<1> DEFINE S == {m \in Message : f[m] = d}
<1>1. IsFiniteSet(S) /\ Cardinality(S) <= Cardinality(Message)
  <2>1. S \in SUBSET Message
    OBVIOUS
  <2> HIDE DEF S
  <2>2. QED
    BY <2>1, InboxConstants, FS_Subset
<1>2. Cardinality(S) \in Nat /\ Cardinality(Message) \in Nat
  <2> HIDE DEF S
  <2>1. QED
    BY <1>1, InboxConstants, FS_CardinalityType
<1>3. QED
  BY <1>1, <1>2

LEMMA InboxInvInit == InboxInit => InboxInv
<1> SUFFICES ASSUME InboxInit PROVE InboxInv
  OBVIOUS
<1> USE InboxConstants
<1>1. Cardinality(Message) \in Nat
  BY FS_CardinalityType
<1>2. InboxTypeOK
  <2>1. 1 \in Day /\ 0 \in 0 .. LastDay /\ 0 \in 0 .. Cardinality(Message)
    BY <1>1 DEF Day
  <2>2. QED
    BY <2>1 DEF InboxInit, InboxTypeOK
<1>3. WaitersStored /\ HandedOver
  BY DEF InboxInit, WaitersStored, HandedOver
<1>4. AutoAssignWithinCapacity
  <2> SUFFICES ASSUME NEW a \in Agent
               PROVE  Cardinality({c \in Contact \ byHand : assigned[c] = a}) <= Capacity
    BY DEF AutoAssignWithinCapacity
  <2>1. {c \in Contact \ byHand : assigned[c] = a} = {}
    BY DEF InboxInit
  <2>2. QED
    BY <2>1, FS_EmptySet
<1>5. AnalyticsMatch
  <2> SUFFICES ASSUME NEW d \in Day
               PROVE  counted[d] <= Cardinality(StoredOn(d)) /\ counted[d] = Cardinality(StoredOn(d))
    BY DEF AnalyticsMatch
  <2>1. StoredOn(d) = {}
    BY DEF StoredOn, InboxInit, Day
  <2>2. counted[d] = 0
    BY DEF InboxInit
  <2>3. QED
    BY <2>1, <2>2, FS_EmptySet
<1>6. QED
  BY <1>2, <1>3, <1>4, <1>5 DEF InboxInv

\* The agents of the conversations that nobody handed over: fewer of them, no harm.
LEMMA FewerAssigned ==
  ASSUME AutoAssignWithinCapacity,
         \A a \in Agent : {c \in Contact \ byHand' : assigned'[c] = a}
                            \subseteq {c \in Contact \ byHand : assigned[c] = a}
  PROVE  AutoAssignWithinCapacity'
<1> SUFFICES ASSUME NEW a \in Agent
             PROVE  Cardinality({c \in Contact \ byHand' : assigned'[c] = a}) <= Capacity
  BY DEF AutoAssignWithinCapacity
<1> DEFINE S == {c \in Contact \ byHand : assigned[c] = a}
           T == {c \in Contact \ byHand' : assigned'[c] = a}
<1>1. S \in SUBSET Contact /\ T \in SUBSET S /\ Cardinality(S) <= Capacity
  BY DEF AutoAssignWithinCapacity
<1> HIDE DEF S, T
<1>2. IsFiniteSet(S) /\ IsFiniteSet(T) /\ Cardinality(T) <= Cardinality(S)
  BY <1>1, InboxConstants, FS_Subset
<1>3. Cardinality(S) \in Nat /\ Cardinality(T) \in Nat /\ Capacity \in Nat
  BY <1>2, InboxConstants, FS_CardinalityType
<1>4. Cardinality(T) <= Capacity
  BY <1>1, <1>2, <1>3
<1>5. QED
  BY <1>4 DEF T

\* The handler gives a conversation to an agent with room only, and only one that has none.
LEMMA AssignKeepsCapacity ==
  ASSUME InboxInv, NEW c \in Contact, AssignChat(c), byHand' = byHand
  PROVE  /\ assigned' \in [Contact -> Agent \cup {NoAgent}]
         /\ \A e \in Contact : assigned[e] # NoAgent => assigned'[e] = assigned[e]
         /\ AutoAssignWithinCapacity'
<1> USE InboxConstants
<1>1. assigned \in [Contact -> Agent \cup {NoAgent}] /\ AutoAssignWithinCapacity
  BY DEF InboxInv, InboxTypeOK
<1>2. CASE assigned' = assigned
  BY <1>1, <1>2, FewerAssigned
<1>3. CASE assigned[c] = NoAgent /\ \E a \in Agent : Least(a) /\ assigned' = [assigned EXCEPT ![c] = a]
  <2>1. PICK a \in Agent : Available(a) /\ assigned' = [assigned EXCEPT ![c] = a]
    BY <1>3 DEF Least
  <2>2. Load(a) < Capacity
    BY <2>1 DEF Available
  <2>3. /\ assigned' \in [Contact -> Agent \cup {NoAgent}]
        /\ \A e \in Contact : assigned'[e] = IF e = c THEN a ELSE assigned[e]
    BY <1>1, <2>1
  <2>4. ASSUME NEW b \in Agent
        PROVE  Cardinality({e \in Contact \ byHand' : assigned'[e] = b}) <= Capacity
    <3> DEFINE L == {e \in Contact : assigned[e] = a}
               S == {e \in Contact \ byHand : assigned[e] = b}
               T == {e \in Contact \ byHand' : assigned'[e] = b}
    <3>1. CASE b # a
      <4>1. T = S
        BY <1>3, <2>3, <3>1
      <4>2. Cardinality(S) <= Capacity
        BY <1>1 DEF AutoAssignWithinCapacity
      <4>3. QED
        BY <4>1, <4>2
    <3>2. CASE b = a
      <4>1. L \in SUBSET Contact /\ T \in SUBSET (L \cup {c}) /\ Cardinality(L) < Capacity
        BY <2>2, <2>3, <3>2 DEF Load
      <4> HIDE DEF L, T
      <4>2. IsFiniteSet(L)
        BY <4>1, FS_Subset
      <4>3. /\ IsFiniteSet(L \cup {c})
            /\ Cardinality(L \cup {c}) = IF c \in L THEN Cardinality(L) ELSE Cardinality(L) + 1
        BY <4>2, FS_AddElement
      <4>4. IsFiniteSet(T) /\ Cardinality(T) <= Cardinality(L \cup {c})
        BY <4>1, <4>3, FS_Subset
      <4>5. Cardinality(L) \in Nat /\ Cardinality(T) \in Nat
        BY <4>2, <4>4, FS_CardinalityType
      <4>6. Cardinality(T) <= Capacity
        BY <4>1, <4>3, <4>4, <4>5
      <4>7. QED
        BY <4>6 DEF T
    <3>3. QED
      BY <3>1, <3>2
  <2>5. QED
    BY <1>3, <2>3, <2>4 DEF AutoAssignWithinCapacity
<1>4. QED
  BY <1>2, <1>3 DEF AssignChat

LEMMA InboxTypes ==
  InboxInv =>
    /\ stored \in [Message -> 0 .. LastDay] /\ unreadCount \in [Contact -> Nat]
    /\ assigned \in [Contact -> Agent \cup {NoAgent}]
    /\ transferred \in [Contact -> Agent \cup {NoAgent}]
    /\ agentState \in [Agent -> {"offline", "online"}]
    /\ hook \in [Hook -> {"none", "matching", "broken"}]
    /\ handlers \subseteq Handler /\ counted \in [Day -> 0 .. Cardinality(Message)]
    /\ today \in Day /\ Day \subseteq Nat \ {0} /\ today \in Nat
    /\ byHand \subseteq Contact /\ uncounted \subseteq Day
    /\ \A m \in Message : stored[m] \in Nat
    /\ \A h \in handlers : h.message \in Message /\ stored[h.message] \in Day
    /\ \A c \in Contact : unreadCount[c] \in Nat
<1> SUFFICES ASSUME InboxInv
             PROVE  /\ Day \subseteq Nat \ {0} /\ today \in Nat
                    /\ \A m \in Message : stored[m] \in Nat
                    /\ \A h \in handlers : h.message \in Message /\ stored[h.message] \in Day
                    /\ \A c \in Contact : unreadCount[c] \in Nat
  BY DEF InboxInv, InboxTypeOK
<1> USE InboxConstants
<1>1. InboxTypeOK /\ WaitersStored
  BY DEF InboxInv
<1>2. Day \subseteq Nat \ {0} /\ today \in Nat
  BY <1>1 DEF Day, InboxTypeOK
<1>3. \A m \in Message : stored[m] \in 0 .. LastDay
  BY <1>1 DEF InboxTypeOK
<1>4. \A h \in handlers : h.message \in Message
  BY <1>1 DEF InboxTypeOK, Handler
<1>5. \A h \in handlers : stored[h.message] \in 0 .. LastDay /\ stored[h.message] # 0
  BY <1>1, <1>3, <1>4 DEF WaitersStored
<1>6. \A c \in Contact : unreadCount[c] \in Nat
  BY <1>1 DEF InboxTypeOK
<1>7. QED
  BY <1>2, <1>3, <1>4, <1>5, <1>6 DEF Day

\* A message that comes is stored today, once; other days keep what they have.
LEMMA DeliverKeeps ==
  ASSUME InboxInv, NEW m \in Message, Deliver(m)
  PROVE  InboxInv'
<1> USE InboxConstants
<1>1. /\ unreadCount[ContactOf[m]] < MaxDeliveries[ContactOf[m]]
      /\ stored' = [stored EXCEPT ![m] = IF @ = 0 THEN today ELSE @]
      /\ unreadCount' = [unreadCount EXCEPT ![ContactOf[m]] = @ + 1]
      /\ handlers' = handlers \cup {[message |-> m, turn |-> unreadCount[ContactOf[m]] + 1,
                                    left |-> CalledHooks, aborts |-> SomeBroken]}
      /\ UNCHANGED <<assigned, agentState, hook, counted, today, transferred, byHand, uncounted>>
  BY DEF Deliver
<1> DEFINE new == [message |-> m, turn |-> unreadCount[ContactOf[m]] + 1,
                   left |-> CalledHooks, aborts |-> SomeBroken]
<1>2. new \in Handler /\ new.message = m
  <2>1. ContactOf[m] \in Contact
    OBVIOUS
  <2>2. unreadCount[ContactOf[m]] + 1 \in Nat
    BY <1>1, <2>1, InboxTypes
  <2>3. QED
    BY <2>2 DEF CalledHooks, SomeBroken, Handler
<1> HIDE DEF new
<1>3. /\ stored' \in [Message -> 0 .. LastDay]
      /\ \A n \in Message : stored'[n] = IF n = m /\ stored[n] = 0 THEN today ELSE stored[n]
      /\ stored'[m] # 0
  BY <1>1, InboxTypes DEF Day
<1>4. /\ unreadCount' \in [Contact -> Nat]
      /\ \A c \in Contact : unreadCount'[c] >= unreadCount[c]
  <2>1. ContactOf[m] \in Contact
    OBVIOUS
  <2>2. unreadCount[ContactOf[m]] + 1 \in Nat
    BY <1>1, <2>1, InboxTypes
  <2>3. QED
    BY <1>1, <2>1, <2>2, InboxTypes
<1>5. InboxTypeOK'
  <2>1. handlers' \subseteq Handler
    BY <1>1, <1>2, InboxTypes DEF new
  <2>2. UNCHANGED Handler
    BY DEF Handler, Hook
  <2>3. QED
    BY <1>1, <1>3, <1>4, <2>1, InboxTypes DEF InboxTypeOK, Handler, Hook, Day
<1>6. WaitersStored'
  <2>1. \A h \in handlers' : h \in handlers \/ h.message = m
    BY <1>1, <1>2 DEF new
  <2>2. \A h \in handlers : stored'[h.message] # 0
    BY <1>3, InboxTypes DEF InboxInv, WaitersStored
  <2>3. \A n \in Message : stored'[n] <= today
    BY <1>3, InboxTypes DEF InboxInv, WaitersStored
  <2>4. QED
    BY <1>1, <1>3, <2>1, <2>2, <2>3 DEF WaitersStored
<1>7. HandedOver'
  <2>1. \A c \in byHand : c \in Contact /\ unreadCount[c] > 0 /\ unreadCount[c] \in Nat
                            /\ assigned[c] = transferred[c] /\ assigned[c] \in Agent
    BY InboxTypes DEF InboxInv, HandedOver
  <2>2. \A c \in Contact : unreadCount'[c] \in Nat /\ unreadCount'[c] >= unreadCount[c]
    BY <1>4
  <2>3. \A c \in byHand : unreadCount'[c] > 0
    BY <2>1, <2>2
  <2>4. QED
    BY <1>1, <2>1, <2>3 DEF HandedOver
<1>8. AutoAssignWithinCapacity'
  BY <1>1, FewerAssigned DEF InboxInv
<1>9. AnalyticsMatch'
  <2> SUFFICES ASSUME NEW d \in Day
               PROVE  /\ counted[d] <= Cardinality(StoredOn(d)')
                      /\ \/ counted[d] = Cardinality(StoredOn(d)')
                         \/ d \in uncounted
                         \/ \E h \in handlers' : stored'[h.message] = d
    BY <1>1 DEF AnalyticsMatch, StoredOn, Day
  <2> DEFINE S == {n \in Message : stored[n] = d}
             T == {n \in Message : stored'[n] = d}
  <2>1. /\ counted[d] <= Cardinality(S)
        /\ \/ counted[d] = Cardinality(S)
           \/ d \in uncounted
           \/ \E h \in handlers : stored[h.message] = d
    BY DEF InboxInv, AnalyticsMatch, StoredOn
  <2>2. S \in SUBSET T
    BY <1>3, InboxTypes
  <2>3. /\ IsFiniteSet(S) /\ IsFiniteSet(T) /\ Cardinality(S) \in Nat /\ Cardinality(T) \in Nat
        /\ counted[d] \in Nat
    <3>1. Cardinality(S) \in 0 .. Cardinality(Message) /\ IsFiniteSet(S)
      BY StoredCounts
    <3>2. Cardinality(T) \in 0 .. Cardinality(Message) /\ IsFiniteSet(T)
      BY StoredCounts
    <3>3. counted[d] \in 0 .. Cardinality(Message)
      BY InboxTypes
    <3>4. Cardinality(Message) \in Nat
      BY FS_CardinalityType
    <3> HIDE DEF S, T
    <3>5. QED
      BY <3>1, <3>2, <3>3, <3>4
  <2>4. Cardinality(S) <= Cardinality(T)
    <3> HIDE DEF S, T
    <3>1. QED
      BY <2>2, <2>3, FS_Subset
  <2>5. S = T \/ stored'[m] = d
    <3>1. CASE stored'[m] # d
      <4>1. \A n \in Message : stored'[n] = d <=> stored[n] = d
        <5>1. \A n \in Message : n # m => stored'[n] = stored[n]
          BY <1>3
        <5>2. stored[m] # d
          BY <1>3, <3>1, InboxTypes
        <5>3. QED
          BY <3>1, <5>1, <5>2
      <4>2. QED
        BY <4>1
    <3>2. QED
      BY <3>1
  <2>6. \E h \in handlers' : h.message = m
    BY <1>1, <1>2 DEF new
  <2>7. \A h \in handlers : h \in handlers' /\ stored'[h.message] = stored[h.message]
    BY <1>1, <1>3, InboxTypes DEF InboxInv, WaitersStored
  <2>8. T = StoredOn(d)'
    BY DEF StoredOn
  <2> HIDE DEF S, T
  <2>9. counted[d] <= Cardinality(T)
    BY <2>1, <2>3, <2>4
  <2>10. counted[d] = Cardinality(T) \/ d \in uncounted \/ \E h \in handlers' : stored'[h.message] = d
    BY <2>1, <2>5, <2>6, <2>7
  <2>11. QED
    BY <2>8, <2>9, <2>10
<1>10. QED
  BY <1>5, <1>6, <1>7, <1>8, <1>9 DEF InboxInv

\* What a handler leaves behind when its message is stored on day d and it will not
\* recount that day any more.
LEMMA CutOffKeeps ==
  ASSUME InboxInv, NEW H \in SUBSET handlers,
         UNCHANGED <<stored, unreadCount, assigned, agentState, hook, counted, today, transferred,
                     byHand>>,
         handlers' = handlers \ H, uncounted' = uncounted \cup {stored[h.message] : h \in H}
  PROVE  InboxInv'
<1> USE InboxConstants
<1>1. uncounted' \subseteq Day
  BY InboxTypes
<1>2. InboxTypeOK'
  BY <1>1, InboxTypes DEF InboxTypeOK, Handler, Hook, Day
<1>3. WaitersStored' /\ HandedOver'
  BY DEF InboxInv, WaitersStored, HandedOver
<1>4. AutoAssignWithinCapacity'
  BY FewerAssigned DEF InboxInv
<1>5. AnalyticsMatch'
  <2> SUFFICES ASSUME NEW d \in Day
               PROVE  /\ counted[d] <= Cardinality(StoredOn(d))
                      /\ \/ counted[d] = Cardinality(StoredOn(d))
                         \/ d \in uncounted'
                         \/ \E h \in handlers' : stored[h.message] = d
    BY DEF AnalyticsMatch, StoredOn, Day
  <2>1. /\ counted[d] <= Cardinality(StoredOn(d))
        /\ \/ counted[d] = Cardinality(StoredOn(d))
           \/ d \in uncounted
           \/ \E h \in handlers : stored[h.message] = d
    BY DEF InboxInv, AnalyticsMatch
  <2>2. ASSUME NEW h \in handlers, stored[h.message] = d
        PROVE  d \in uncounted' \/ \E g \in handlers' : stored[g.message] = d
    BY <2>2
  <2>3. QED
    BY <2>1, <2>2
<1>6. QED
  BY <1>2, <1>3, <1>4, <1>5 DEF InboxInv

\* A handler that ends gives its conversation to somebody and recounts today.
LEMMA HandlerEndsKeeps ==
  ASSUME InboxInv, NEW h \in handlers, HandlerEnds(h)
  PROVE  InboxInv'
<1> USE InboxConstants
<1>1. /\ handlers' = handlers \ {h} /\ AssignChat(ContactOf[h.message]) /\ UpdateDaily(h.message)
      /\ UNCHANGED <<stored, unreadCount, agentState, hook, today, transferred, byHand>>
  BY DEF HandlerEnds
<1>2. h.message \in Message /\ ContactOf[h.message] \in Contact /\ stored[h.message] \in Day
  BY InboxTypes
<1>3. /\ assigned' \in [Contact -> Agent \cup {NoAgent}]
      /\ \A e \in Contact : assigned[e] # NoAgent => assigned'[e] = assigned[e]
      /\ AutoAssignWithinCapacity'
  BY <1>1, <1>2, AssignKeepsCapacity
<1>4. /\ counted' = [counted EXCEPT ![today] = Cardinality(StoredOn(today))]
      /\ uncounted' = IF stored[h.message] # today THEN uncounted \cup {stored[h.message]}
                      ELSE uncounted
  BY <1>1 DEF UpdateDaily
<1>5. Cardinality(StoredOn(today)) \in 0 .. Cardinality(Message)
  BY StoredCounts DEF StoredOn
<1>6. /\ counted' \in [Day -> 0 .. Cardinality(Message)] /\ uncounted' \subseteq Day
      /\ \A d \in Day : counted'[d] = IF d = today THEN Cardinality(StoredOn(today)) ELSE counted[d]
  BY <1>2, <1>4, <1>5, InboxTypes
<1>7. InboxTypeOK'
  BY <1>1, <1>3, <1>6, InboxTypes DEF InboxTypeOK, Handler, Hook, Day
<1>8. WaitersStored'
  BY <1>1 DEF InboxInv, WaitersStored
<1>9. HandedOver'
  <2>1. \A c \in byHand : c \in Contact /\ unreadCount[c] > 0
                            /\ assigned[c] = transferred[c] /\ assigned[c] \in Agent
    BY InboxTypes DEF InboxInv, HandedOver
  <2>2. \A c \in byHand : assigned'[c] = assigned[c]
    BY <1>3, <2>1
  <2>3. QED
    BY <1>1, <2>1, <2>2 DEF HandedOver
<1>10. AnalyticsMatch'
  <2> SUFFICES ASSUME NEW d \in Day
               PROVE  /\ counted'[d] <= Cardinality(StoredOn(d))
                      /\ \/ counted'[d] = Cardinality(StoredOn(d))
                         \/ d \in uncounted'
                         \/ \E g \in handlers' : stored[g.message] = d
    BY <1>1 DEF AnalyticsMatch, StoredOn, Day
  <2>1. CASE d = today
    <3>1. Cardinality(StoredOn(d)) \in Nat
      <4>1. IsFiniteSet(StoredOn(d))
        BY StoredCounts DEF StoredOn
      <4>2. QED
        BY <4>1, FS_CardinalityType
    <3>2. counted'[d] = Cardinality(StoredOn(d))
      BY <1>6, <2>1
    <3>3. QED
      BY <3>1, <3>2
  <2>2. CASE d # today
    <3>1. counted'[d] = counted[d]
      BY <1>6, <2>2
    <3>2. /\ counted[d] <= Cardinality(StoredOn(d))
          /\ \/ counted[d] = Cardinality(StoredOn(d))
             \/ d \in uncounted
             \/ \E g \in handlers : stored[g.message] = d
      BY DEF InboxInv, AnalyticsMatch
    <3>3. uncounted \subseteq uncounted'
      BY <1>4
    <3>4. stored[h.message] = d => d \in uncounted'
      BY <1>4, <2>2
    <3>5. \A g \in handlers : g \in handlers' \/ g = h
      BY <1>1
    <3>6. QED
      BY <3>1, <3>2, <3>3, <3>4, <3>5
  <2>3. QED
    BY <2>1, <2>2
<1>11. QED
  BY <1>3, <1>7, <1>8, <1>9, <1>10 DEF InboxInv

\* Another webhook has answered: the handler waits for the rest.
LEMMA HookAnswersKeeps ==
  ASSUME InboxInv, NEW h \in handlers, HookAnswers(h)
  PROVE  InboxInv'
<1> USE InboxConstants
<1> DEFINE x == CHOOSE i \in h.left : \A j \in h.left : i <= j
           g == [h EXCEPT !.left = h.left \ {x}]
<1>1. /\ handlers' = (handlers \ {h}) \cup {g}
      /\ UNCHANGED <<stored, unreadCount, assigned, agentState, hook, counted, today, transferred,
                     byHand, uncounted>>
  BY DEF HookAnswers
<1> HIDE DEF x
<1>2. g \in Handler /\ g.message = h.message
  <2>1. h \in Handler
    BY InboxTypes
  <2>2. QED
    BY <2>1 DEF Handler
<1> HIDE DEF g
<1>3. InboxTypeOK'
  <2>1. handlers' \subseteq Handler
    BY <1>1, <1>2, InboxTypes
  <2>2. QED
    BY <1>1, <2>1, InboxTypes DEF InboxTypeOK, Handler, Hook, Day
<1>4. WaitersStored'
  BY <1>1, <1>2 DEF InboxInv, WaitersStored
<1>5. HandedOver'
  BY <1>1 DEF InboxInv, HandedOver
<1>6. AutoAssignWithinCapacity'
  BY <1>1, FewerAssigned DEF InboxInv
<1>7. AnalyticsMatch'
  <2> SUFFICES ASSUME NEW d \in Day
               PROVE  /\ counted[d] <= Cardinality(StoredOn(d))
                      /\ \/ counted[d] = Cardinality(StoredOn(d))
                         \/ d \in uncounted
                         \/ \E k \in handlers' : stored[k.message] = d
    BY <1>1 DEF AnalyticsMatch, StoredOn, Day
  <2>1. /\ counted[d] <= Cardinality(StoredOn(d))
        /\ \/ counted[d] = Cardinality(StoredOn(d))
           \/ d \in uncounted
           \/ \E k \in handlers : stored[k.message] = d
    BY DEF InboxInv, AnalyticsMatch
  <2>2. (\E k \in handlers : stored[k.message] = d) => \E k \in handlers' : stored[k.message] = d
    BY <1>1, <1>2
  <2>3. QED
    BY <2>1, <2>2
<1>8. QED
  BY <1>3, <1>4, <1>5, <1>6, <1>7 DEF InboxInv

LEMMA TransferKeeps ==
  ASSUME InboxInv, NEW c \in Contact, NEW a \in Agent, Transfer(c, a)
  PROVE  InboxInv'
<1> USE InboxConstants
<1>1. /\ assigned' = (IF unreadCount[c] > 0 THEN [assigned EXCEPT ![c] = a] ELSE assigned)
      /\ transferred' = [transferred EXCEPT ![c] = a]
      /\ byHand' = (IF unreadCount[c] > 0 THEN byHand \cup {c} ELSE byHand)
      /\ UNCHANGED <<stored, unreadCount, agentState, hook, handlers, counted, today, uncounted>>
  BY DEF Transfer
<1>2. InboxTypeOK'
  BY <1>1, InboxTypes DEF InboxTypeOK, Handler, Hook, Day
<1>3. WaitersStored'
  BY <1>1 DEF InboxInv, WaitersStored
<1>4. HandedOver'
  BY <1>1, InboxTypes DEF InboxInv, HandedOver
<1>5. AutoAssignWithinCapacity'
  <2>1. \A b \in Agent : {e \in Contact \ byHand' : assigned'[e] = b}
                            \subseteq {e \in Contact \ byHand : assigned[e] = b}
    BY <1>1, InboxTypes
  <2>2. QED
    BY <2>1, FewerAssigned DEF InboxInv
<1>6. AnalyticsMatch'
  BY <1>1 DEF InboxInv, AnalyticsMatch, StoredOn, Day
<1>7. QED
  BY <1>2, <1>3, <1>4, <1>5, <1>6 DEF InboxInv

LEMMA InboxInvStep == InboxInv /\ [InboxNext]_inboxVars => InboxInv'
<1> SUFFICES ASSUME InboxInv, [InboxNext]_inboxVars PROVE InboxInv'
  OBVIOUS
<1> USE InboxConstants
<1>1. ASSUME NEW h \in handlers, HandlerAborts(h) PROVE InboxInv'
  <2>1. /\ handlers' = handlers \ {h} /\ uncounted' = uncounted \cup {stored[g.message] : g \in {h}}
        /\ UNCHANGED <<stored, unreadCount, assigned, agentState, hook, counted, today, transferred,
                       byHand>>
    BY <1>1 DEF HandlerAborts
  <2>2. {h} \in SUBSET handlers
    OBVIOUS
  <2>3. QED
    BY <2>1, <2>2, CutOffKeeps
<1>2. CASE InboxCrash
  <2>1. /\ handlers' = handlers \ handlers
        /\ uncounted' = uncounted \cup {stored[g.message] : g \in handlers}
        /\ UNCHANGED <<stored, unreadCount, assigned, agentState, hook, counted, today, transferred,
                       byHand>>
    BY <1>2 DEF InboxCrash
  <2>2. handlers \in SUBSET handlers
    OBVIOUS
  <2>3. QED
    BY <2>1, <2>2, CutOffKeeps
<1>3. ASSUME NEW a \in Agent, PatchAgent(a) PROVE InboxInv'
  <2>1. /\ agentState' \in [Agent -> {"offline", "online"}]
        /\ UNCHANGED <<stored, unreadCount, assigned, hook, handlers, counted, today, transferred,
                       byHand, uncounted>>
    BY <1>3, InboxTypes DEF PatchAgent
  <2>2. InboxTypeOK'
    BY <2>1, InboxTypes DEF InboxTypeOK, Handler, Hook, Day
  <2>3. QED
    BY <2>1, <2>2 DEF InboxInv, WaitersStored, HandedOver, AutoAssignWithinCapacity, AnalyticsMatch,
                      StoredOn, Day
<1>4. ASSUME NEW i \in Hook, PostWebhook(i) \/ DeleteWebhook(i) PROVE InboxInv'
  <2>1. /\ hook' \in [Hook -> {"none", "matching", "broken"}]
        /\ UNCHANGED <<stored, unreadCount, assigned, agentState, handlers, counted, today,
                       transferred, byHand, uncounted>>
    BY <1>4, InboxTypes DEF PostWebhook, DeleteWebhook
  <2>2. InboxTypeOK'
    BY <2>1, InboxTypes DEF InboxTypeOK, Handler, Hook, Day
  <2>3. QED
    BY <2>1, <2>2 DEF InboxInv, WaitersStored, HandedOver, AutoAssignWithinCapacity, AnalyticsMatch,
                      StoredOn, Day
<1>5. CASE Midnight
  <2>1. /\ today' \in Day /\ today' = today + 1
        /\ UNCHANGED <<stored, unreadCount, assigned, agentState, hook, handlers, counted,
                       transferred, byHand, uncounted>>
    BY <1>5, InboxTypes DEF Midnight, Day
  <2>2. InboxTypeOK'
    BY <2>1, InboxTypes DEF InboxTypeOK, Handler, Hook, Day
  <2>3. WaitersStored'
    BY <2>1, InboxTypes DEF InboxInv, WaitersStored
  <2>4. QED
    BY <2>1, <2>2, <2>3 DEF InboxInv, HandedOver, AutoAssignWithinCapacity, AnalyticsMatch,
                            StoredOn, Day
<1>6. CASE UNCHANGED inboxVars
  BY <1>6 DEF inboxVars, InboxInv, InboxTypeOK, Handler, Hook, Day, WaitersStored, HandedOver,
              AutoAssignWithinCapacity, AnalyticsMatch, StoredOn
<1>7. QED
  BY <1>1, <1>2, <1>3, <1>4, <1>5, <1>6, DeliverKeeps, HookAnswersKeeps, HandlerEndsKeeps,
     TransferKeeps DEF InboxNext

\* However many message handlers of the stand-alone server wait for their webhooks: no
\* agent is given more conversations than it may have, and the row of a day shows what
\* was received on it, but for days of which a handler was cut off.
THEOREM InboxSound == InboxSpec => []InboxIsSound
<1>1. InboxInv => InboxIsSound
  BY DEF InboxInv, InboxIsSound
<1>2. QED
  BY <1>1, InboxInvInit, InboxInvStep, PTL DEF InboxSpec

\* A handler that waited for its webhooks takes no conversation from the agent to whom a
\* person transferred it meanwhile.
THEOREM TransferredStays == InboxSpec => []TransfersWin
<1>1. InboxInv => TransfersWin
  BY DEF InboxInv, HandedOver, TransfersWin
<1>2. QED
  BY <1>1, InboxInvInit, InboxInvStep, PTL DEF InboxSpec

-----------------------------------------------------------------------------
(* Accounts.  The limiter's count covers, in its window, the attempts that     *)
(* were refused and those that still wait for a hash or a comparison; each     *)
(* success takes one hit back, of its own window or, coming late, of another.  *)

Places == {"idle", "hashing", "comparing", "rehashing", "done"}
AccountAnswers == {"none", "ok", "limited", "conflict", "refused", "failed"}

Calls ==
  [kind : {"none", "register", "login", "change"}, email : Email \cup {"none"},
   old : Password \cup {"none"}, new : Password \cup {"none"}, pc : Places,
   seen : Password \cup {"none"}, active : BOOLEAN, in : Nat, answer : AccountAnswers]

\* The calls of this window that the limiter counted and that have no answer yet.
Pending == {o \in Op : Limited(o) /\ op[o].pc \notin {"idle", "done"} /\ op[o].in = window}

AccountTypes ==
  /\ userStatus \in [Email -> {"absent", "active", "inactive"}]
  /\ password \in [Email -> Password]
  /\ op \in [Op -> Calls]
  /\ hits \in Nat /\ window \in Nat /\ failures \in Nat /\ late \in Nat

CallsAreSound ==
  \A o \in Op :
    /\ op[o].answer # "none" <=> op[o].pc = "done"
    /\ op[o].pc \notin {"idle", "done"} => op[o].kind # "none" /\ op[o].email \in Email
    /\ op[o].pc \notin {"idle", "done"} /\ op[o].kind # "login" => op[o].new \in Password
    /\ op[o].in <= window

\* Of each address one registration was answered with an account.
OneRegistration ==
  /\ \A e \in Email : userStatus[e] # "absent" <=> \E o \in Op : Done(o, "register", e)
  /\ \A e \in Email : \A o, q \in Op : Done(o, "register", e) /\ Done(q, "register", e) => o = q

\* What was refused or waits is covered by the hits, and within the limit.
HitsCover ==
  /\ IsFiniteSet(Pending)
  /\ failures + Cardinality(Pending) <= hits + late
  /\ failures + Cardinality(Pending) <= AuthMax + late

AccountsInv ==
  /\ AccountTypes /\ CallsAreSound /\ OneRegistration /\ PasswordWasSet /\ HitsCover

LEMMA AccountConstants == AuthMax \in Nat /\ LastWindow \in Nat
BY AccountsAssumption DEF AccountsAssumption

LEMMA IdleFacts ==
  /\ IdleOp \in Calls /\ IdleOp.pc = "idle" /\ IdleOp.answer = "none" /\ IdleOp.kind = "none"
  /\ IdleOp.in = 0
BY DEF IdleOp, Calls, Places, AccountAnswers

LEMMA AccountsInvInit == AccountsInit => AccountsInv
<1> SUFFICES ASSUME AccountsInit PROVE AccountsInv
  OBVIOUS
<1> USE AccountConstants
<1>1. \A o \in Op : op[o] = IdleOp
  BY DEF AccountsInit
<1>2. AccountTypes
  BY IdleFacts DEF AccountsInit, AccountTypes
<1>3. CallsAreSound
  BY <1>1, IdleFacts DEF AccountsInit, CallsAreSound
<1>4. OneRegistration /\ PasswordWasSet
  BY <1>1, IdleFacts DEF AccountsInit, OneRegistration, PasswordWasSet, Done
<1>5. HitsCover
  <2>1. Pending = {}
    BY <1>1, IdleFacts DEF Pending
  <2>2. QED
    BY <2>1, FS_EmptySet DEF AccountsInit, HitsCover
<1>6. QED
  BY <1>2, <1>3, <1>4, <1>5 DEF AccountsInv

\* A call is answered.
LEMMA AnsweredCall ==
  ASSUME AccountTypes, NEW o \in Op, NEW a \in AccountAnswers \ {"none"}, Answers(o, a)
  PROVE  /\ op' \in [Op -> Calls]
         /\ \A q \in Op : q # o => op'[q] = op[q]
         /\ op'[o].pc = "done" /\ op'[o].answer = a /\ op'[o].kind = op[o].kind
         /\ op'[o].email = op[o].email /\ op'[o].new = op[o].new /\ op'[o].in = op[o].in
<1> DEFINE r == [op[o] EXCEPT !.pc = "done", !.answer = a]
<1>1. op[o] \in Calls /\ op \in [Op -> Calls]
  BY DEF AccountTypes
<1>2. /\ r \in Calls /\ r.pc = "done" /\ r.answer = a /\ r.kind = op[o].kind
      /\ r.email = op[o].email /\ r.new = op[o].new /\ r.in = op[o].in
  <2>1. r.pc \in Places /\ r.answer \in AccountAnswers
    BY <1>1 DEF Calls, Places
  <2>2. /\ r.pc = "done" /\ r.answer = a /\ r.kind = op[o].kind
        /\ r.email = op[o].email /\ r.new = op[o].new /\ r.in = op[o].in
    BY <1>1 DEF Calls
  <2>3. r \in Calls
    BY <1>1, <2>1 DEF Calls
  <2>4. QED
    BY <2>2, <2>3
<1>3. op' = [op EXCEPT ![o] = r]
  BY <1>1 DEF Answers
<1> HIDE DEF r
<1>4. op'[o] = r
  BY <1>1, <1>3
<1>5. QED
  BY <1>1, <1>2, <1>3, <1>4

\* A request that ends takes a hit back or is counted among the failures.
LEMMA EndKeeps ==
  ASSUME AccountTypes, CallsAreSound, HitsCover, NEW o \in Op, op[o].pc \notin {"idle", "done"},
         NEW a \in {"ok", "failed", "refused"}, RequestEnds(o, a)
  PROVE  /\ op' \in [Op -> Calls] /\ window' \in Nat /\ hits' \in Nat
         /\ failures' \in Nat /\ late' \in Nat
         /\ CallsAreSound' /\ HitsCover'
         /\ \A q \in Op, k \in {"register", "login", "change"}, e \in Email :
              Done(q, k, e)' <=>
                Done(q, k, e) \/ (a = "ok" /\ q = o /\ op[o].kind = k /\ op[o].email = e)
         /\ \A q \in Op : op'[q].new = op[q].new
<1> USE AccountConstants
<1>1. /\ op' \in [Op -> Calls]
      /\ \A q \in Op : q # o => op'[q] = op[q]
      /\ op'[o].pc = "done" /\ op'[o].answer = a /\ op'[o].kind = op[o].kind
      /\ op'[o].email = op[o].email /\ op'[o].new = op[o].new /\ op'[o].in = op[o].in
  BY AnsweredCall DEF RequestEnds, AccountAnswers
<1>2. /\ hits' = IF Limited(o) /\ a = "ok" /\ hits > 0 THEN hits - 1 ELSE hits
      /\ late' = IF Limited(o) /\ a = "ok" /\ hits > 0 /\ op[o].in # window THEN late + 1 ELSE late
      /\ failures' = IF Limited(o) /\ a # "ok" /\ op[o].in = window THEN failures + 1 ELSE failures
      /\ window' = window
  BY DEF RequestEnds, ForgetHit
<1>3. hits \in Nat /\ late \in Nat /\ failures \in Nat /\ window \in Nat
  BY DEF AccountTypes
<1>4. window' \in Nat /\ hits' \in Nat /\ failures' \in Nat /\ late' \in Nat
  BY <1>2, <1>3
<1>5. CallsAreSound'
  BY <1>1, <1>2 DEF CallsAreSound
<1>6. op[o].answer = "none"
  BY DEF CallsAreSound
<1>7. \A q \in Op, k \in {"register", "login", "change"}, e \in Email :
        Done(q, k, e)' <=>
          Done(q, k, e) \/ (a = "ok" /\ q = o /\ op[o].kind = k /\ op[o].email = e)
  BY <1>1, <1>6 DEF Done
<1>8. Pending' = Pending \ {o}
  BY <1>1, <1>2 DEF Pending, Limited
<1>9. o \in Pending <=> Limited(o) /\ op[o].in = window
  BY DEF Pending
<1> DEFINE p == Cardinality(Pending)
           p1 == Cardinality(Pending')
<1>10. /\ IsFiniteSet(Pending') /\ p \in Nat /\ p1 \in Nat
       /\ p1 = IF o \in Pending THEN p - 1 ELSE p
  <2>1. IsFiniteSet(Pending)
    BY DEF HitsCover
  <2>2. /\ IsFiniteSet(Pending \ {o})
        /\ Cardinality(Pending \ {o}) = IF o \in Pending THEN p - 1 ELSE p
    BY <2>1, FS_RemoveElement
  <2>3. p \in Nat /\ Cardinality(Pending \ {o}) \in Nat
    BY <2>1, <2>2, FS_CardinalityType
  <2>4. QED
    BY <1>8, <2>2, <2>3
<1>11. failures + p <= hits + late /\ failures + p <= AuthMax + late
  BY DEF HitsCover
<1> HIDE DEF p, p1
<1>12. failures' + p1 <= hits' + late' /\ failures' + p1 <= AuthMax + late'
  BY <1>2, <1>3, <1>9, <1>10, <1>11
<1>13. HitsCover'
  BY <1>10, <1>12 DEF HitsCover, p1
<1>14. \A q \in Op : op'[q].new = op[q].new
  BY <1>1
<1>15. QED
  BY <1>1, <1>4, <1>5, <1>7, <1>13, <1>14

\* What is answered before anything is awaited: nothing but the limiter's count changes,
\* and a call that goes on or is refused had room.
LEMMA BeginKeeps ==
  ASSUME AccountsInv, NEW o \in Op, op[o].pc = "idle",
         NEW r \in Calls, r.kind # "none", r.pc \notin {"idle", "done"}, r.answer = "none",
         r.email \in Email, r.in = window, r.kind # "login" => r.new \in Password,
         NEW a \in {"none", "limited", "conflict", "refused"},
         r.kind # "change" /\ a # "limited" => hits < AuthMax,
         Begins(o, r, a)
  PROVE  AccountsInv'
<1> USE AccountConstants
<1> DEFINE s == IF a = "none" THEN r ELSE [r EXCEPT !.pc = "done", !.answer = a]
<1>1. AccountTypes /\ CallsAreSound /\ OneRegistration /\ PasswordWasSet /\ HitsCover
  BY DEF AccountsInv
<1>2. /\ op' = [op EXCEPT ![o] = s]
      /\ r.kind = "change" => hits' = hits /\ failures' = failures
      /\ r.kind # "change" =>
           /\ hits' = hits + 1
           /\ failures' = IF a \in {"none", "limited"} THEN failures ELSE failures + 1
      /\ UNCHANGED <<userStatus, password, window, late>>
  BY DEF Begins
<1>3. /\ s \in Calls /\ s.kind = r.kind /\ s.email = r.email /\ s.in = window
      /\ s.new = r.new
      /\ a = "none" => s.answer = "none" /\ s.pc = r.pc
      /\ a # "none" => s.answer = a /\ s.pc = "done"
  BY DEF Calls, Places, AccountAnswers
<1> HIDE DEF s
<1>4. /\ op' \in [Op -> Calls] /\ op'[o] = s
      /\ \A q \in Op : q # o => op'[q] = op[q]
  BY <1>1, <1>2, <1>3 DEF AccountTypes
<1>5. hits \in Nat /\ late \in Nat /\ failures \in Nat /\ window \in Nat
  BY <1>1 DEF AccountTypes
<1>6. AccountTypes'
  BY <1>1, <1>2, <1>4, <1>5 DEF AccountTypes
<1>7. CallsAreSound'
  BY <1>1, <1>2, <1>3, <1>4, <1>5 DEF CallsAreSound
<1>8. op[o].answer = "none" /\ s.answer # "ok"
  BY <1>1, <1>3 DEF CallsAreSound
<1>9. \A q \in Op, k \in {"register", "login", "change"}, e \in Email :
        Done(q, k, e)' <=> Done(q, k, e)
  BY <1>4, <1>8 DEF Done
<1>10. OneRegistration'
  BY <1>1, <1>2, <1>9 DEF OneRegistration
<1>11. PasswordWasSet'
  <2> SUFFICES ASSUME NEW e \in Email, userStatus[e] # "absent"
               PROVE  \E q \in Op : op'[q].new = password[e]
                                      /\ (Done(q, "register", e)' \/ Done(q, "change", e)')
    BY <1>2 DEF PasswordWasSet
  <2>1. PICK q \in Op : op[q].new = password[e] /\ (Done(q, "register", e) \/ Done(q, "change", e))
    BY <1>1 DEF PasswordWasSet
  <2>2. q # o
    BY <1>8, <2>1 DEF Done
  <2>3. QED
    BY <1>4, <1>9, <2>1, <2>2
<1>12. HitsCover'
  <2> DEFINE p == Cardinality(Pending)
             p1 == Cardinality(Pending')
  <2>1. o \notin Pending
    BY DEF Pending
  <2>2. IsFiniteSet(Pending) /\ p \in Nat
    BY <1>1, FS_CardinalityType DEF HitsCover
  <2>3. failures + p <= hits + late /\ failures + p <= AuthMax + late
    BY <1>1 DEF HitsCover
  <2>4. CASE r.kind = "change" \/ a # "none"
    <3>1. Pending' = Pending
      <4>1. ~ (s.kind \in {"register", "login"} /\ s.pc \notin {"idle", "done"})
        BY <1>3, <2>4
      <4>2. QED
        BY <1>2, <1>4, <2>1, <4>1 DEF Pending, Limited
    <3>2. p1 = p /\ IsFiniteSet(Pending')
      BY <2>2, <3>1
    <3> HIDE DEF p, p1
    <3>3. failures' + p1 <= hits' + late' /\ failures' + p1 <= AuthMax + late'
      BY <1>2, <1>5, <2>2, <2>3, <2>4, <3>2
    <3>4. QED
      BY <3>2, <3>3 DEF HitsCover, p1
  <2>5. CASE r.kind # "change" /\ a = "none"
    <3>1. r.kind \in {"register", "login"}
      BY <2>5 DEF Calls
    <3>2. Pending' = Pending \cup {o}
      BY <1>2, <1>3, <1>4, <2>5, <3>1 DEF Pending, Limited
    <3>3. IsFiniteSet(Pending') /\ p1 = p + 1
      <4>1. /\ IsFiniteSet(Pending \cup {o})
            /\ Cardinality(Pending \cup {o}) = IF o \in Pending THEN p ELSE p + 1
        BY <2>2, FS_AddElement
      <4>2. QED
        BY <2>1, <3>2, <4>1
    <3> HIDE DEF p, p1
    <3>4. failures' + p1 <= hits' + late' /\ failures' + p1 <= AuthMax + late'
      BY <1>2, <1>5, <2>2, <2>3, <2>5, <3>3
    <3>5. QED
      BY <3>3, <3>4 DEF HitsCover, p1
  <2>6. QED
    BY <2>4, <2>5
<1>13. QED
  BY <1>6, <1>7, <1>10, <1>11, <1>12 DEF AccountsInv

\* Where nobody's password was set anew, the calls that set it are those of before.
LEMMA SameDone ==
  ASSUME OneRegistration, PasswordWasSet,
         \A e \in Email : (userStatus'[e] = "absent" <=> userStatus[e] = "absent"),
         password' = password,
         \A q \in Op, k \in {"register", "change"}, e \in Email : Done(q, k, e)' <=> Done(q, k, e),
         \A q \in Op : op'[q].new = op[q].new
  PROVE  OneRegistration' /\ PasswordWasSet'
<1>1. OneRegistration'
  BY DEF OneRegistration
<1>2. PasswordWasSet'
  BY DEF PasswordWasSet
<1>3. QED
  BY <1>1, <1>2

LEMMA BeginsKeep ==
  ASSUME AccountsInv, NEW o \in Op, NEW e \in Email, NEW p \in Password,
         \/ Register(o, e, p)
         \/ Login(o, e, p)
         \/ \E q \in Password : ChangePassword(o, e, p, q)
  PROVE  AccountsInv'
<1>1. window \in Nat /\ userStatus[e] \in {"absent", "active", "inactive"} /\ password[e] \in Password
  BY DEF AccountsInv, AccountTypes
<1>2. CASE Register(o, e, p)
  <2> DEFINE r == [IdleOp EXCEPT !.kind = "register", !.email = e, !.new = p, !.pc = "hashing",
                                 !.in = window]
             a == CASE ~Admitted -> "limited" [] Admitted /\ userStatus[e] # "absent" -> "conflict"
                    [] OTHER -> "none"
  <2>1. op[o].pc = "idle" /\ Begins(o, r, a)
    BY <1>2 DEF Register
  <2>2. /\ r \in Calls /\ r.kind = "register" /\ r.pc = "hashing" /\ r.answer = "none"
        /\ r.email = e /\ r.in = window /\ (r.kind # "login" => r.new \in Password)
    BY <1>1 DEF IdleOp, Calls, Places, AccountAnswers
  <2>3. a \in {"none", "limited", "conflict", "refused"} /\ (a # "limited" => hits < AuthMax)
    BY DEF Admitted
  <2> HIDE DEF r, a
  <2>4. QED
    BY <2>1, <2>2, <2>3, BeginKeeps
<1>3. CASE Login(o, e, p)
  <2> DEFINE r == [IdleOp EXCEPT !.kind = "login", !.email = e, !.old = p, !.pc = "comparing",
                                 !.seen = password[e], !.active = (userStatus[e] = "active"),
                                 !.in = window]
             a == CASE ~Admitted -> "limited" [] Admitted /\ userStatus[e] = "absent" -> "refused"
                    [] OTHER -> "none"
  <2>1. op[o].pc = "idle" /\ Begins(o, r, a)
    BY <1>3 DEF Login
  <2>2. PICK b \in BOOLEAN : b = (userStatus[e] = "active")
    OBVIOUS
  <2>3. /\ r \in Calls /\ r.kind = "login" /\ r.pc = "comparing" /\ r.answer = "none"
        /\ r.email = e /\ r.in = window /\ (r.kind # "login" => r.new \in Password)
    BY <1>1, <2>2 DEF IdleOp, Calls, Places, AccountAnswers
  <2>4. a \in {"none", "limited", "conflict", "refused"} /\ (a # "limited" => hits < AuthMax)
    BY DEF Admitted
  <2> HIDE DEF r, a
  <2>5. QED
    BY <2>1, <2>3, <2>4, BeginKeeps
<1>4. ASSUME NEW q \in Password, ChangePassword(o, e, p, q) PROVE AccountsInv'
  <2> DEFINE r == [IdleOp EXCEPT !.kind = "change", !.email = e, !.old = p, !.new = q,
                                 !.pc = "comparing", !.seen = password[e], !.in = window]
             a == IF userStatus[e] = "active" THEN "none" ELSE "refused"
  <2>1. op[o].pc = "idle" /\ Begins(o, r, a)
    BY <1>4 DEF ChangePassword
  <2>2. /\ r \in Calls /\ r.kind = "change" /\ r.pc = "comparing" /\ r.answer = "none"
        /\ r.email = e /\ r.in = window /\ (r.kind # "login" => r.new \in Password)
    BY <1>1 DEF IdleOp, Calls, Places, AccountAnswers
  <2>3. a \in {"none", "limited", "conflict", "refused"}
    OBVIOUS
  <2> HIDE DEF r, a
  <2>4. QED
    BY <2>1, <2>2, <2>3, BeginKeeps
<1>5. QED
  BY <1>2, <1>3, <1>4

\* A registration writes its row, unless one has come meanwhile.
LEMMA InsertKeeps ==
  ASSUME AccountsInv, NEW o \in Op, InsertRow(o)
  PROVE  AccountsInv'
<1>1. AccountTypes /\ CallsAreSound /\ OneRegistration /\ PasswordWasSet /\ HitsCover
  BY DEF AccountsInv
<1>2. op[o].kind = "register" /\ op[o].pc = "hashing" /\ op[o].email \in Email
  BY <1>1 DEF InsertRow, CallsAreSound
<1>3. CASE userStatus[op[o].email] # "absent"
  <2>1. RequestEnds(o, "failed") /\ UNCHANGED <<userStatus, password>>
    BY <1>3 DEF InsertRow
  <2>2. /\ op' \in [Op -> Calls] /\ window' \in Nat /\ hits' \in Nat
        /\ failures' \in Nat /\ late' \in Nat /\ CallsAreSound' /\ HitsCover'
        /\ \A q \in Op, k \in {"register", "login", "change"}, e \in Email :
             Done(q, k, e)' <=>
               Done(q, k, e) \/ ("failed" = "ok" /\ q = o /\ op[o].kind = k /\ op[o].email = e)
        /\ \A q \in Op : op'[q].new = op[q].new
    BY <1>1, <1>2, <2>1, EndKeeps
  <2>3. OneRegistration' /\ PasswordWasSet'
    BY <1>1, <2>1, <2>2, SameDone
  <2>4. AccountTypes'
    BY <1>1, <2>1, <2>2 DEF AccountTypes
  <2>5. QED
    BY <2>2, <2>3, <2>4 DEF AccountsInv
<1>4. CASE userStatus[op[o].email] = "absent"
  <2> DEFINE x == op[o].email
  <2>1. /\ userStatus' = [userStatus EXCEPT ![x] = "active"]
        /\ password' = [password EXCEPT ![x] = op[o].new]
        /\ RequestEnds(o, "ok")
    BY <1>4 DEF InsertRow
  <2>2. /\ op' \in [Op -> Calls] /\ window' \in Nat /\ hits' \in Nat
        /\ failures' \in Nat /\ late' \in Nat /\ CallsAreSound' /\ HitsCover'
        /\ \A q \in Op, k \in {"register", "login", "change"}, e \in Email :
             Done(q, k, e)' <=>
               Done(q, k, e) \/ ("ok" = "ok" /\ q = o /\ op[o].kind = k /\ op[o].email = e)
        /\ \A q \in Op : op'[q].new = op[q].new
    BY <1>1, <1>2, <2>1, EndKeeps
  <2>3. \A q \in Op, e \in Email :
          /\ Done(q, "register", e)' <=> Done(q, "register", e) \/ (q = o /\ x = e)
          /\ Done(q, "change", e)' <=> Done(q, "change", e)
    BY <1>2, <2>2
  <2>4. /\ \A e \in Email : userStatus'[e] = IF e = x THEN "active" ELSE userStatus[e]
        /\ \A e \in Email : password'[e] = IF e = x THEN op[o].new ELSE password[e]
        /\ x \in Email
    BY <1>1, <1>2, <2>1 DEF AccountTypes
  <2>5. OneRegistration'
    <3>1. \A e \in Email : userStatus[e] # "absent" <=> \E q \in Op : Done(q, "register", e)
      BY <1>1 DEF OneRegistration
    <3>2. \A q \in Op : ~Done(q, "register", x)
      BY <1>4, <2>4, <3>1
    <3>3. \A e \in Email : userStatus'[e] # "absent" <=> \E q \in Op : Done(q, "register", e)'
      BY <2>3, <2>4, <3>1
    <3>4. \A e \in Email : \A p, q \in Op : Done(p, "register", e)' /\ Done(q, "register", e)' => p = q
      BY <1>1, <2>3, <3>2 DEF OneRegistration
    <3>5. QED
      BY <3>3, <3>4 DEF OneRegistration
  <2>6. PasswordWasSet'
    <3> SUFFICES ASSUME NEW e \in Email, userStatus'[e] # "absent"
                 PROVE  \E q \in Op : op'[q].new = password'[e]
                                        /\ (Done(q, "register", e)' \/ Done(q, "change", e)')
      BY DEF PasswordWasSet
    <3>1. CASE e = x
      BY <2>2, <2>3, <2>4, <3>1
    <3>2. CASE e # x
      <4>1. PICK q \in Op : op[q].new = password[e]
                              /\ (Done(q, "register", e) \/ Done(q, "change", e))
        BY <1>1, <2>4, <3>2 DEF PasswordWasSet
      <4>2. QED
        BY <2>2, <2>3, <2>4, <3>2, <4>1
    <3>3. QED
      BY <3>1, <3>2
  <2>7. AccountTypes'
    <3>1. op[o].new \in Password
      BY <1>1, <1>2 DEF CallsAreSound
    <3>2. QED
      BY <1>1, <2>1, <2>2, <3>1 DEF AccountTypes
  <2>8. QED
    BY <2>2, <2>5, <2>6, <2>7 DEF AccountsInv
<1>5. QED
  BY <1>3, <1>4

\* The old password was compared with what was read before.
LEMMA ComparedKeeps ==
  ASSUME AccountsInv, NEW o \in Op, Compared(o) \/ (Verified(o) /\ op[o].old # op[o].seen)
  PROVE  AccountsInv'
<1>1. AccountTypes /\ CallsAreSound /\ OneRegistration /\ PasswordWasSet /\ HitsCover
  BY DEF AccountsInv
<1>2. PICK a \in {"ok", "failed", "refused"} :
        /\ RequestEnds(o, a) /\ UNCHANGED <<userStatus, password>>
        /\ op[o].pc = "comparing" /\ (op[o].kind = "login" \/ a # "ok")
  BY DEF Compared, Verified
<1>3. /\ op' \in [Op -> Calls] /\ window' \in Nat /\ hits' \in Nat
      /\ failures' \in Nat /\ late' \in Nat /\ CallsAreSound' /\ HitsCover'
      /\ \A q \in Op, k \in {"register", "login", "change"}, e \in Email :
           Done(q, k, e)' <=>
             Done(q, k, e) \/ (a = "ok" /\ q = o /\ op[o].kind = k /\ op[o].email = e)
      /\ \A q \in Op : op'[q].new = op[q].new
  BY <1>1, <1>2, EndKeeps
<1>4. \A q \in Op, k \in {"register", "change"}, e \in Email : Done(q, k, e)' <=> Done(q, k, e)
  BY <1>2, <1>3
<1>5. OneRegistration' /\ PasswordWasSet'
  BY <1>1, <1>2, <1>3, <1>4, SameDone
<1>6. AccountTypes'
  BY <1>1, <1>2, <1>3 DEF AccountTypes
<1>7. QED
  BY <1>3, <1>5, <1>6 DEF AccountsInv

\* The new password of a change is hashed: nobody has an answer for it.
LEMMA VerifiedKeeps ==
  ASSUME AccountsInv, NEW o \in Op, Verified(o), op[o].old = op[o].seen
  PROVE  AccountsInv'
<1>1. AccountTypes /\ CallsAreSound /\ OneRegistration /\ PasswordWasSet /\ HitsCover
  BY DEF AccountsInv
<1>2. /\ op[o].kind = "change" /\ op[o].pc = "comparing"
      /\ op' = [op EXCEPT ![o].pc = "rehashing"]
      /\ UNCHANGED <<hits, window, failures, late, userStatus, password>>
  BY DEF Verified, Goes
<1>3. /\ op' \in [Op -> Calls] /\ op'[o] = [op[o] EXCEPT !.pc = "rehashing"]
      /\ \A q \in Op : q # o => op'[q] = op[q]
  <2>1. op[o] \in Calls /\ op \in [Op -> Calls]
    BY <1>1 DEF AccountTypes
  <2>2. [op[o] EXCEPT !.pc = "rehashing"] \in Calls
    BY <2>1 DEF Calls, Places
  <2>3. QED
    BY <1>2, <2>1, <2>2
<1>4. op[o] \in Calls
  BY <1>1 DEF AccountTypes
<1>5. /\ op'[o].pc = "rehashing" /\ op'[o].kind = op[o].kind /\ op'[o].email = op[o].email
      /\ op'[o].new = op[o].new /\ op'[o].in = op[o].in /\ op'[o].answer = op[o].answer
  BY <1>3, <1>4 DEF Calls
<1>6. AccountTypes'
  BY <1>1, <1>2, <1>3 DEF AccountTypes
<1>7. CallsAreSound'
  BY <1>1, <1>2, <1>3, <1>5 DEF CallsAreSound
<1>8. /\ \A q \in Op, k \in {"register", "change"}, e \in Email : Done(q, k, e)' <=> Done(q, k, e)
      /\ \A q \in Op : op'[q].new = op[q].new
  BY <1>3, <1>5 DEF Done
<1>9. OneRegistration' /\ PasswordWasSet'
  BY <1>1, <1>2, <1>8, SameDone
<1>10. Pending' = Pending
  BY <1>2, <1>3, <1>5 DEF Pending, Limited
<1>11. HitsCover'
  BY <1>1, <1>2, <1>10 DEF HitsCover
<1>12. QED
  BY <1>6, <1>7, <1>9, <1>11 DEF AccountsInv

\* A change writes the new password, whatever was written meanwhile.
LEMMA UpdateKeeps ==
  ASSUME AccountsInv, NEW o \in Op, UpdatePassword(o)
  PROVE  AccountsInv'
<1> DEFINE x == op[o].email
<1>1. AccountTypes /\ CallsAreSound /\ OneRegistration /\ PasswordWasSet /\ HitsCover
  BY DEF AccountsInv
<1>2. /\ op[o].kind = "change" /\ op[o].pc = "rehashing"
      /\ password' = [password EXCEPT ![x] = op[o].new]
      /\ RequestEnds(o, "ok") /\ userStatus' = userStatus
  BY DEF UpdatePassword
<1>3. x \in Email /\ op[o].new \in Password
  BY <1>1, <1>2 DEF CallsAreSound
<1>4. /\ op' \in [Op -> Calls] /\ window' \in Nat /\ hits' \in Nat
      /\ failures' \in Nat /\ late' \in Nat /\ CallsAreSound' /\ HitsCover'
      /\ \A q \in Op, k \in {"register", "login", "change"}, e \in Email :
           Done(q, k, e)' <=>
             Done(q, k, e) \/ ("ok" = "ok" /\ q = o /\ op[o].kind = k /\ op[o].email = e)
      /\ \A q \in Op : op'[q].new = op[q].new
  BY <1>1, <1>2, EndKeeps
<1>5. \A q \in Op, e \in Email :
        /\ Done(q, "register", e)' <=> Done(q, "register", e)
        /\ Done(q, "change", e)' <=> Done(q, "change", e) \/ (q = o /\ x = e)
  BY <1>2, <1>4
<1>6. \A e \in Email : password'[e] = IF e = x THEN op[o].new ELSE password[e]
  BY <1>1, <1>2 DEF AccountTypes
<1>7. OneRegistration'
  BY <1>1, <1>2, <1>5 DEF OneRegistration
<1>8. PasswordWasSet'
  <2> SUFFICES ASSUME NEW e \in Email, userStatus[e] # "absent"
               PROVE  \E q \in Op : op'[q].new = password'[e]
                                      /\ (Done(q, "register", e)' \/ Done(q, "change", e)')
    BY <1>2 DEF PasswordWasSet
  <2>1. CASE e = x
    BY <1>4, <1>5, <1>6, <2>1
  <2>2. CASE e # x
    <3>1. PICK q \in Op : op[q].new = password[e]
                            /\ (Done(q, "register", e) \/ Done(q, "change", e))
      BY <1>1 DEF PasswordWasSet
    <3>2. QED
      BY <1>4, <1>5, <1>6, <2>2, <3>1
  <2>3. QED
    BY <2>1, <2>2
<1>9. AccountTypes'
  BY <1>1, <1>2, <1>3, <1>4 DEF AccountTypes
<1>10. QED
  BY <1>4, <1>7, <1>8, <1>9 DEF AccountsInv

\* Every call of the window before is one of an earlier window now.
LEMMA WindowKeeps ==
  ASSUME AccountsInv, NextWindow
  PROVE  AccountsInv'
<1> USE AccountConstants
<1>1. AccountTypes /\ CallsAreSound /\ OneRegistration /\ PasswordWasSet /\ HitsCover
  BY DEF AccountsInv
<1>2. /\ window' = window + 1 /\ hits' = 0 /\ failures' = 0 /\ late' = 0
      /\ UNCHANGED <<userStatus, password, op>>
  BY DEF NextWindow
<1>3. AccountTypes'
  BY <1>1, <1>2 DEF AccountTypes
<1>4. \A o \in Op : op[o].in \in Nat /\ op[o].in <= window /\ window \in Nat
  BY <1>1 DEF AccountTypes, CallsAreSound, Calls
<1>5. CallsAreSound'
  BY <1>1, <1>2, <1>4 DEF CallsAreSound
<1>6. OneRegistration' /\ PasswordWasSet'
  BY <1>1, <1>2 DEF OneRegistration, PasswordWasSet, Done
<1>7. Pending' = {}
  BY <1>2, <1>4 DEF Pending
<1>8. HitsCover'
  BY <1>2, <1>7, FS_EmptySet DEF HitsCover
<1>9. QED
  BY <1>3, <1>5, <1>6, <1>8 DEF AccountsInv

LEMMA AccountsInvStep == AccountsInv /\ [AccountsNext]_accountVars => AccountsInv'
<1> SUFFICES ASSUME AccountsInv, [AccountsNext]_accountVars PROVE AccountsInv'
  OBVIOUS
<1>1. ASSUME NEW o \in Op, Steps(o) PROVE AccountsInv'
  BY <1>1, InsertKeeps, ComparedKeeps, VerifiedKeeps, UpdateKeeps DEF Steps
<1>2. ASSUME NEW e \in Email, NEW s \in {"active", "inactive"}, SetUserStatus(e, s)
      PROVE  AccountsInv'
  <2>1. /\ userStatus[e] # "absent" /\ userStatus' = [userStatus EXCEPT ![e] = s]
        /\ UNCHANGED <<password, op, hits, window, failures, late>>
    BY <1>2 DEF SetUserStatus
  <2>2. AccountTypes /\ CallsAreSound /\ OneRegistration /\ PasswordWasSet /\ HitsCover
    BY DEF AccountsInv
  <2>3. AccountTypes'
    BY <2>1, <2>2 DEF AccountTypes
  <2>4. \A f \in Email : userStatus'[f] = "absent" <=> userStatus[f] = "absent"
    BY <2>1, <2>2 DEF AccountTypes
  <2>5. \A q \in Op, k \in {"register", "change"}, f \in Email : Done(q, k, f)' <=> Done(q, k, f)
    BY <2>1 DEF Done
  <2>6. OneRegistration' /\ PasswordWasSet'
    BY <2>1, <2>2, <2>4, <2>5, SameDone
  <2>7. CallsAreSound' /\ HitsCover'
    BY <2>1, <2>2 DEF CallsAreSound, HitsCover, Pending, Limited
  <2>8. QED
    BY <2>3, <2>6, <2>7 DEF AccountsInv
<1>3. CASE UNCHANGED accountVars
  BY <1>3 DEF accountVars, AccountsInv, AccountTypes, CallsAreSound, OneRegistration, PasswordWasSet,
              HitsCover, Pending, Limited, Done
<1>4. QED
  BY <1>1, <1>2, <1>3, BeginsKeep, WindowKeeps DEF AccountsNext

LEMMA AccountsInvImplies == AccountsInv => AccountsAreSound
<1> SUFFICES ASSUME AccountsInv PROVE AccountsAreSound
  OBVIOUS
<1> USE AccountConstants
<1>1. AccountTypes /\ CallsAreSound /\ OneRegistration /\ PasswordWasSet /\ HitsCover
  BY DEF AccountsInv
<1>2. AccountsTypeOK
  BY <1>1 DEF AccountTypes, CallsAreSound, Calls, Places, AccountAnswers, AccountsTypeOK
<1>3. OneAccountPerEmail
  <2> SUFFICES ASSUME NEW e \in Email
               PROVE  /\ Cardinality({o \in Op : Done(o, "register", e)}) <= 1
                      /\ userStatus[e] # "absent" <=> \E o \in Op : Done(o, "register", e)
    BY DEF OneAccountPerEmail
  <2>1. CASE \E o \in Op : Done(o, "register", e)
    <3>1. PICK o \in Op : Done(o, "register", e)
      BY <2>1
    <3>2. {q \in Op : Done(q, "register", e)} = {o}
      BY <1>1, <3>1 DEF OneRegistration
    <3>3. Cardinality({o}) = 1
      BY FS_Singleton
    <3>4. QED
      BY <1>1, <3>2, <3>3 DEF OneRegistration
  <2>2. CASE ~ \E o \in Op : Done(o, "register", e)
    <3>1. {q \in Op : Done(q, "register", e)} = {}
      BY <2>2
    <3>2. QED
      BY <1>1, <3>1, FS_EmptySet DEF OneRegistration
  <2>3. QED
    BY <2>1, <2>2
<1>4. FailuresAreLimited
  <2>1. Cardinality(Pending) \in Nat
    BY <1>1, FS_CardinalityType DEF HitsCover
  <2>2. failures \in Nat /\ late \in Nat /\ failures + Cardinality(Pending) <= AuthMax + late
    BY <1>1 DEF HitsCover, AccountTypes
  <2>3. QED
    BY <2>1, <2>2 DEF FailuresAreLimited
<1>5. QED
  BY <1>1, <1>2, <1>3, <1>4 DEF AccountsAreSound

\* In whatever order calls that hash and compare overlap: an address has one account,
\* made by one registration; its password is one that a call answered with success set;
\* and in a window no more attempts fail than the limiter of the routes lets through, but
\* for the hits that calls of an earlier window took back (src/services/auth.service.ts).
THEOREM AccountsSound == AccountsSpec => []AccountsAreSound
BY AccountsInvImplies, AccountsInvInit, AccountsInvStep, PTL DEF AccountsSpec

-----------------------------------------------------------------------------
(* The REST API.  Each session a user creates was counted by the limiter of    *)
(* sessions, which counts no further than it lets through.                    *)

CreationsAreCounted == \A u \in User : creations[u] <= taken["session"][u]

RestTypes ==
  /\ role \in [User -> Roles \cup {"inactive", "none"}]
  /\ row \in [Row -> {"absent", "disconnected", "connecting"}]
  /\ children \subseteq Row /\ referenced \subseteq Row
  /\ reconnect \in [Row -> BOOLEAN]
  /\ taken \in [Limiters -> [User -> Nat]]
  /\ \A l \in Limiters, u \in User : taken[l][u] <= MaxOf(l)
  /\ answer.code \in {200, 201, 400, 401, 403, 404, 409, 429, 500}
  /\ creations \in [User -> Nat]

RestInv == RestTypes /\ NoRowsWithoutSession /\ CreationsAreCounted

LEMMA RestConstants ==
  /\ ApiMax \in Nat /\ SessionMax \in Nat /\ MessageMax \in Nat
  /\ \A l \in Limiters : MaxOf(l) \in Nat
  /\ MaxOf("session") = SessionMax /\ "session" \in Limiters
BY RestAssumption DEF RestAssumption, MaxOf, Limiters

LEMMA RouteFacts ==
  \A route \in Routes :
    /\ route.roles \subseteq Roles
    /\ route.name \in {"create", "start", "stop", "update"} => route.roles = Staff
    /\ route.name = "delete" => route.roles = {"admin"}
    /\ route.name = "create" => route.limiter = "session"
BY DEF Routes, SessionRoutes, MessageRoutes, Route, Roles, Staff

LEMMA RestInvInit == RestInit => RestInv
<1> SUFFICES ASSUME RestInit PROVE RestInv
  OBVIOUS
<1>1. RestTypes
  BY RestConstants DEF RestInit, RestTypes
<1>2. NoRowsWithoutSession /\ CreationsAreCounted
  BY RestConstants DEF RestInit, NoRowsWithoutSession, CreationsAreCounted
<1>3. QED
  BY <1>1, <1>2 DEF RestInv

\* What a handler does to the rows.
LEMMA HandlesKeeps ==
  ASSUME RestTypes, NoRowsWithoutSession, NEW route \in Routes, NEW n \in Row, Handles(route, n)
  PROVE  /\ row' \in [Row -> {"absent", "disconnected", "connecting"}]
         /\ children' \subseteq Row /\ referenced' = referenced
         /\ reconnect' \in [Row -> BOOLEAN]
         /\ \A c \in children' \cup referenced' : row'[c] # "absent"
         /\ Result(route, n) \in {200, 201, 404, 409, 500}
         /\ Result(route, n) >= 400 => row' = row /\ reconnect' = reconnect
         /\ Result(route, n) >= 400 /\ Result(route, n) # 500 => children' = children
         /\ row' # row => route.name \in {"create", "start", "stop", "delete"}
         /\ \A c \in Row : row[c] # "absent" /\ row'[c] = "absent" => route.name = "delete"
<1>1. /\ row \in [Row -> {"absent", "disconnected", "connecting"}]
      /\ children \subseteq Row /\ referenced \subseteq Row /\ reconnect \in [Row -> BOOLEAN]
      /\ \A c \in children \cup referenced : row[c] # "absent"
  BY DEF RestTypes, NoRowsWithoutSession
<1>2. Result(route, n) \in {200, 201, 404, 409, 500}
  BY DEF Result
<1>3. /\ reconnect' \in [Row -> BOOLEAN] /\ referenced' = referenced
      /\ Result(route, n) >= 400 => reconnect' = reconnect
  <2>1. CASE Result(route, n) < 400 /\ route.name \in {"create", "update"}
    <3>1. PICK b \in BOOLEAN : reconnect' = [reconnect EXCEPT ![n] = b]
      BY <2>1 DEF Handles
    <3>2. QED
      BY <1>1, <1>2, <2>1, <3>1 DEF Handles
  <2>2. CASE ~ (Result(route, n) < 400 /\ route.name \in {"create", "update"})
    BY <1>1, <2>2 DEF Handles
  <2>3. QED
    BY <2>1, <2>2
<1>4. CASE route.name = "delete"
  <2>1. /\ children' = children \ {n}
        /\ row' = IF n \in referenced THEN row ELSE [row EXCEPT ![n] = "absent"]
    BY <1>4 DEF Handles, Delete
  <2>2. Result(route, n) >= 400 =>
          row[n] # "absent" /\ n \in referenced /\ Result(route, n) = 500
    BY <1>4 DEF Result
  <2>3. QED
    BY <1>1, <1>2, <1>3, <1>4, <2>1, <2>2
<1>5. CASE route.name # "delete"
  <2>1. /\ children' = children
        /\ \/ row' = row
           \/ /\ Result(route, n) < 400 /\ route.name \in {"create", "start", "stop"}
              /\ row' = [row EXCEPT ![n] = "disconnected"] \/ row' = [row EXCEPT ![n] = "connecting"]
    <3>1. /\ children' = children
          /\ row' = IF Result(route, n) >= 400 THEN row
                    ELSE CASE route.name \in {"create", "stop"} -> [row EXCEPT ![n] = "disconnected"]
                           [] route.name = "start" -> [row EXCEPT ![n] = "connecting"]
                           [] OTHER -> row
      BY <1>5 DEF Handles
    <3>2. CASE Result(route, n) >= 400
      BY <3>1, <3>2
    <3>3. CASE ~ (Result(route, n) >= 400)
      <4>1. Result(route, n) < 400
        BY <1>2, <3>3
      <4>2. QED
        BY <3>1, <3>3, <4>1
    <3>4. QED
      BY <3>2, <3>3
  <2>2. QED
    BY <1>1, <1>2, <1>3, <1>5, <2>1
<1>6. QED
  BY <1>4, <1>5

\* What the stages let through.
LEMMA LetThrough ==
  ASSUME NEW u, NEW route \in Routes, NEW valid \in BOOLEAN
  PROVE  /\ Refusal(u, route, valid) \in {0, 400, 401, 403, 429}
         /\ Refusal(u, route, valid) = 0 =>
              role[u] \in route.roles /\ Within(route.limiter, u) /\ Within("api", u)
BY DEF Refusal, Authorized

LEMMA RequestKeepsRest ==
  ASSUME RestInv, NEW u \in User, NEW route \in Routes, NEW n \in Row, NEW valid \in BOOLEAN,
         Request(u, route, n, valid)
  PROVE  RestInv'
<1> DEFINE refusal == Refusal(u, route, valid)
<1> USE RestConstants
<1>1. RestTypes /\ NoRowsWithoutSession /\ CreationsAreCounted
  BY DEF RestInv
<1>2. refusal \in {0, 400, 401, 403, 429}
  BY LetThrough
<1>3. /\ taken' = [l \in Limiters |-> [taken[l] EXCEPT ![u] =
                     IF l \in Counted(u, route) /\ @ < MaxOf(l) THEN @ + 1 ELSE @]]
      /\ IF refusal # 0 THEN UNCHANGED rowsOfApi ELSE Handles(route, n)
      /\ answer' = [code |-> IF refusal # 0 THEN refusal ELSE Result(route, n), user |-> u]
      /\ creations' = (IF refusal = 0 /\ route.name = "create" /\ Result(route, n) = 201
                       THEN [creations EXCEPT ![u] = @ + 1] ELSE creations)
      /\ role' = role
  BY DEF Request
<1>4. Result(route, n) \in {200, 201, 404, 409, 500}
  BY DEF Result
<1>5. /\ row' \in [Row -> {"absent", "disconnected", "connecting"}]
      /\ children' \subseteq Row /\ referenced' \subseteq Row /\ reconnect' \in [Row -> BOOLEAN]
      /\ NoRowsWithoutSession'
  <2>1. CASE refusal = 0
    BY <1>1, <1>3, <2>1, HandlesKeeps DEF RestTypes, NoRowsWithoutSession
  <2>2. CASE refusal # 0
    BY <1>1, <1>3, <2>2 DEF RestTypes, NoRowsWithoutSession, rowsOfApi
  <2>3. QED
    BY <2>1, <2>2
<1>6. /\ taken' \in [Limiters -> [User -> Nat]]
      /\ \A l \in Limiters, v \in User :
           /\ taken'[l][v] <= MaxOf(l) /\ taken'[l][v] >= taken[l][v]
           /\ v = u /\ l \in Counted(u, route) /\ taken[l][v] < MaxOf(l) =>
                taken'[l][v] = taken[l][v] + 1
  <2> DEFINE t == [l \in Limiters |-> [taken[l] EXCEPT ![u] =
                     IF l \in Counted(u, route) /\ @ < MaxOf(l) THEN @ + 1 ELSE @]]
  <2>1. taken \in [Limiters -> [User -> Nat]]
    BY <1>1 DEF RestTypes
  <2>2. \A l \in Limiters, v \in User : taken[l][v] \in Nat /\ taken[l][v] <= MaxOf(l)
    BY <1>1 DEF RestTypes
  <2>3. ASSUME NEW l \in Limiters
        PROVE  /\ t[l] \in [User -> Nat]
               /\ \A v \in User : t[l][v] =
                    IF v = u /\ l \in Counted(u, route) /\ taken[l][v] < MaxOf(l)
                    THEN taken[l][v] + 1 ELSE taken[l][v]
    <3>1. taken[l] \in [User -> Nat] /\ MaxOf(l) \in Nat
      BY <2>1
    <3>2. t[l] = [taken[l] EXCEPT ![u] =
                    IF l \in Counted(u, route) /\ taken[l][u] < MaxOf(l) THEN taken[l][u] + 1
                    ELSE taken[l][u]]
      OBVIOUS
    <3> HIDE DEF t
    <3>3. QED
      BY <3>1, <3>2
  <2>4. t \in [Limiters -> [User -> Nat]]
    BY <2>3
  <2>5. taken' = t
    BY <1>3
  <2> HIDE DEF t
  <2>6. QED
    BY <2>2, <2>3, <2>4, <2>5
<1>7. CreationsAreCounted' /\ creations' \in [User -> Nat]
  <2>1. creations \in [User -> Nat] /\ taken["session"] \in [User -> Nat]
    BY <1>1 DEF RestTypes
  <2>2. \A v \in User : creations[v] \in Nat /\ creations[v] <= taken["session"][v]
    BY <1>1, <2>1 DEF CreationsAreCounted
  <2>3. CASE refusal = 0 /\ route.name = "create" /\ Result(route, n) = 201
    <3>1. route.limiter = "session" /\ role[u] \in route.roles /\ Within("session", u) /\ Within("api", u)
      BY <2>3, LetThrough, RouteFacts
    <3>2. "session" \in Counted(u, route)
      BY <3>1 DEF Counted, Authorized
    <3>3. taken["session"][u] < MaxOf("session")
      BY <3>1 DEF Within
    <3>4. taken'["session"][u] = taken["session"][u] + 1
      BY <1>6, <3>2, <3>3
    <3>5. \A v \in User : creations'[v] = IF v = u THEN creations[v] + 1 ELSE creations[v]
      BY <1>3, <2>1, <2>3
    <3>6. creations' \in [User -> Nat]
      BY <1>3, <2>1, <2>3
    <3>7. \A v \in User : creations'[v] <= taken'["session"][v]
      <4>1. \A v \in User : taken'["session"][v] >= taken["session"][v]
              /\ taken'["session"][v] \in Nat /\ taken["session"][v] \in Nat
        BY <1>6, <2>1
      <4>2. QED
        BY <2>2, <3>4, <3>5, <4>1
    <3>8. QED
      BY <3>6, <3>7 DEF CreationsAreCounted
  <2>4. CASE ~ (refusal = 0 /\ route.name = "create" /\ Result(route, n) = 201)
    <3>1. creations' = creations
      BY <1>3, <2>4
    <3>2. \A v \in User : taken'["session"][v] >= taken["session"][v]
            /\ taken'["session"][v] \in Nat /\ taken["session"][v] \in Nat
      BY <1>6, <2>1
    <3>3. QED
      BY <2>1, <2>2, <3>1, <3>2 DEF CreationsAreCounted
  <2>5. QED
    BY <2>3, <2>4
<1>8. answer'.code \in {200, 201, 400, 401, 403, 404, 409, 429, 500}
  BY <1>2, <1>3, <1>4
<1>9. RestTypes'
  BY <1>1, <1>3, <1>5, <1>6, <1>7, <1>8 DEF RestTypes
<1>10. QED
  BY <1>5, <1>7, <1>9 DEF RestInv

LEMMA RestInvStep == RestInv /\ [RestNext]_restVars => RestInv'
<1> SUFFICES ASSUME RestInv, [RestNext]_restVars PROVE RestInv'
  OBVIOUS
<1> USE RestConstants
<1>1. ASSUME NEW u \in User, NEW r \in Roles \cup {"inactive"}, ChangeRole(u, r) PROVE RestInv'
  <2>1. /\ role' = [role EXCEPT ![u] = r]
        /\ UNCHANGED <<row, children, referenced, reconnect, taken, answer, creations>>
    BY <1>1 DEF ChangeRole, rowsOfApi
  <2>2. RestTypes'
    BY <2>1 DEF RestInv, RestTypes
  <2>3. QED
    BY <2>1, <2>2 DEF RestInv, NoRowsWithoutSession, CreationsAreCounted
<1>2. ASSUME NEW n \in Row, RowsArrive(n) PROVE RestInv'
  BY <1>2 DEF RowsArrive, RestInv, RestTypes, NoRowsWithoutSession, CreationsAreCounted
<1>3. CASE Reset
  <2>1. /\ taken' = [l \in Limiters |-> [v \in User |-> 0]] /\ creations' = [v \in User |-> 0]
        /\ UNCHANGED <<role, row, children, referenced, reconnect, answer>>
    BY <1>3 DEF Reset, rowsOfApi
  <2>2. RestTypes'
    BY <2>1 DEF RestInv, RestTypes
  <2>3. NoRowsWithoutSession' /\ CreationsAreCounted'
    BY <2>1 DEF RestInv, NoRowsWithoutSession, CreationsAreCounted
  <2>4. QED
    BY <2>2, <2>3 DEF RestInv
<1>4. CASE UNCHANGED restVars
  BY <1>4 DEF restVars, rowsOfApi, RestInv, RestTypes, NoRowsWithoutSession, CreationsAreCounted
<1>5. QED
  BY <1>1, <1>2, <1>3, <1>4, RequestKeepsRest DEF RestNext

LEMMA RestInvImplies == RestInv => RestIsSound
<1> SUFFICES ASSUME RestInv PROVE RestIsSound
  OBVIOUS
<1> USE RestConstants
<1>1. \A l \in Limiters, u \in User : taken[l][u] \in Nat /\ taken[l][u] <= MaxOf(l)
  BY DEF RestInv, RestTypes
<1>2. RestTypeOK
  BY <1>1 DEF RestInv, RestTypes, RestTypeOK
<1>3. \A u \in User : creations[u] \in Nat /\ creations[u] <= taken["session"][u]
  BY DEF RestInv, RestTypes, CreationsAreCounted
<1>4. CreationsAreLimited
  BY <1>1, <1>3 DEF CreationsAreLimited
<1>5. QED
  BY <1>2, <1>4 DEF RestInv, RestIsSound

\* However requests, changes of roles, rows of the listeners and the limiters' windows
\* interleave: no row lies under a session that is gone, though SessionModel.delete is no
\* transaction, and nobody creates more sessions in a window than sessionLimiter says.
THEOREM RestSound == RestSpec => []RestIsSound
BY RestInvImplies, RestInvInit, RestInvStep, PTL DEF RestSpec

\* Who has changed the session rows in a step, and what a refusal leaves alone.
LEMMA RestStepEntitled ==
  RestInv /\ [RestNext]_restVars =>
    /\ [answer'.code >= 400 =>
          /\ UNCHANGED <<row, reconnect>>
          /\ answer'.code = 500 \/ children \subseteq children']_restVars
    /\ [row' # row => LET u == answer'.user IN
          /\ role[u] \in Staff
          /\ (\E n \in Row : row[n] # "absent" /\ row'[n] = "absent") => role[u] = "admin"]_restVars
<1> SUFFICES ASSUME RestInv, RestNext
             PROVE  /\ answer'.code >= 400 =>
                         /\ UNCHANGED <<row, reconnect>>
                         /\ answer'.code = 500 \/ children \subseteq children'
                    /\ row' # row =>
                         /\ role[answer'.user] \in Staff
                         /\ (\E n \in Row : row[n] # "absent" /\ row'[n] = "absent")
                              => role[answer'.user] = "admin"
  OBVIOUS
<1>1. CASE UNCHANGED <<row, reconnect>> /\ children \subseteq children'
  BY <1>1
<1>2. CASE \E u \in User, route \in Routes, n \in Row, valid \in BOOLEAN : Request(u, route, n, valid)
  <2>1. PICK u \in User, route \in Routes, n \in Row, valid \in BOOLEAN : Request(u, route, n, valid)
    BY <1>2
  <2> DEFINE refusal == Refusal(u, route, valid)
  <2>2. /\ IF refusal # 0 THEN UNCHANGED rowsOfApi ELSE Handles(route, n)
        /\ answer' = [code |-> IF refusal # 0 THEN refusal ELSE Result(route, n), user |-> u]
    BY <2>1 DEF Request
  <2>3. CASE refusal # 0
    BY <2>2, <2>3 DEF rowsOfApi
  <2>4. CASE refusal = 0
    <3>1. answer'.code = Result(route, n) /\ answer'.user = u /\ Handles(route, n)
      BY <2>2, <2>4
    <3>2. /\ Result(route, n) \in {200, 201, 404, 409, 500}
          /\ Result(route, n) >= 400 => row' = row /\ reconnect' = reconnect
          /\ Result(route, n) >= 400 /\ Result(route, n) # 500 => children' = children
          /\ row' # row => route.name \in {"create", "start", "stop", "delete"}
          /\ \A c \in Row : row[c] # "absent" /\ row'[c] = "absent" => route.name = "delete"
      BY <3>1, HandlesKeeps DEF RestInv
    <3>3. role[u] \in route.roles
      BY <2>4, LetThrough
    <3>4. /\ route.name \in {"create", "start", "stop"} => route.roles = Staff
          /\ route.name = "delete" => route.roles = {"admin"}
      BY RouteFacts
    <3>5. "admin" \in Staff
      BY DEF Staff
    <3>6. QED
      BY <3>1, <3>2, <3>3, <3>4, <3>5
  <2>5. QED
    BY <2>3, <2>4
<1>3. QED
  BY <1>1, <1>2 DEF RestNext, ChangeRole, RowsArrive, Reset, rowsOfApi

-----------------------------------------------------------------------------
(* All of them, as module Records runs them: a step of one is a step of its    *)
(* own specification and leaves the others alone.                             *)

RecordsInv == StoreInv /\ InboxInv /\ AccountsInv /\ RestInv /\ TenantsInv

LEMMA RecordsInit == Init => RecordsInv
<1>1. Init => StoreInit /\ InboxInit /\ AccountsInit /\ RestInit /\ TenantsInit
  BY DEF Init
<1>2. QED
  BY <1>1, StoreInvInit, InboxInvInit, AccountsInvInit, RestInvInit, TenantsInvInit DEF RecordsInv

LEMMA RecordsParts ==
  [Next]_recordsVars =>
    [StoreNext]_storeVars /\ [InboxNext]_inboxVars /\ [AccountsNext]_accountVars
      /\ [RestNext]_restVars /\ [TenantsNext]_tenantVars
<1> SUFFICES ASSUME [Next]_recordsVars
             PROVE  [StoreNext]_storeVars /\ [InboxNext]_inboxVars /\ [AccountsNext]_accountVars
                      /\ [RestNext]_restVars /\ [TenantsNext]_tenantVars
  OBVIOUS
<1>1. CASE UNCHANGED recordsVars
  BY <1>1 DEF recordsVars
<1>2. CASE Next
  <2>1. /\ part # "listeners" => UNCHANGED storeVars
        /\ part # "handler" => UNCHANGED inboxVars
        /\ part # "accounts" => UNCHANGED accountVars
        /\ part # "rest" => UNCHANGED restVars
        /\ part # "tenants" => UNCHANGED tenantVars
    BY <1>2 DEF Next, Rest
  <2>2. /\ part = "listeners" => StoreNext
        /\ part = "handler" => InboxNext
        /\ part = "accounts" => AccountsNext
        /\ part = "rest" => RestNext
        /\ part = "tenants" => TenantsNext
    BY <1>2 DEF Next
  <2>3. QED
    BY <2>1, <2>2
<1>3. QED
  BY <1>1, <1>2

LEMMA RecordsStep == RecordsInv /\ [Next]_recordsVars => RecordsInv'
<1>1. StoreInv /\ [StoreNext]_storeVars => StoreInv'
  BY StoreInvStep
<1>2. InboxInv /\ [InboxNext]_inboxVars => InboxInv'
  BY InboxInvStep
<1>3. AccountsInv /\ [AccountsNext]_accountVars => AccountsInv'
  BY AccountsInvStep
<1>4. RestInv /\ [RestNext]_restVars => RestInv'
  BY RestInvStep
<1>5. TenantsInv /\ [TenantsNext]_tenantVars => TenantsInv'
  BY TenantsInvStep
<1>6. QED
  BY <1>1, <1>2, <1>3, <1>4, <1>5, RecordsParts DEF RecordsInv

LEMMA RecordsInvariant == Spec => []RecordsInv
BY RecordsInit, RecordsStep, PTL DEF Spec

\* The rows of the listeners, the inbox, the accounts, the sessions and the tenants each
\* agree among themselves, as the run of module Records checks them.
THEOREM RecordsSound ==
  Spec => [](StoreIsSound /\ InboxIsSound /\ TransfersWin /\ AccountsAreSound /\ RestIsSound
               /\ TenantsAreSound)
<1>1. StoreInv => StoreIsSound
  BY BoundsOfCount DEF StoreInv, StoreIsSound
<1>2. InboxInv => InboxIsSound /\ TransfersWin
  BY DEF InboxInv, InboxIsSound, HandedOver, TransfersWin
<1>3. RecordsInv => StoreIsSound /\ InboxIsSound /\ TransfersWin /\ AccountsAreSound /\ RestIsSound
                      /\ TenantsAreSound
  BY <1>1, <1>2, AccountsInvImplies, RestInvImplies, TenantsInvImplies DEF RecordsInv
<1>4. QED
  BY <1>3, RecordsInvariant, PTL

\* A request of the REST API that is refused changes no session row and takes no rows from
\* under one, but for a delete that fails half way; those that change a session row are
\* let through by the role the row of the user gives at that time, a deletion only by an
\* admin's; and the events of requests are of tenants active at that time.
THEOREM RequestsEntitled == Spec => RequestsAreEntitled
<1>1. RecordsInv /\ [Next]_recordsVars =>
        /\ [answer'.code >= 400 =>
              /\ UNCHANGED <<row, reconnect>>
              /\ answer'.code = 500 \/ children \subseteq children']_restVars
        /\ [row' # row => LET u == answer'.user IN
              /\ role[u] \in Staff
              /\ (\E n \in Row : row[n] # "absent" /\ row'[n] = "absent")
                   => role[u] = "admin"]_restVars
        /\ [\A r \in references' \ references :
              r.table = "events" /\ r.age = 0 => tenants[r.tenant].status = "active"]_tenantVars
  BY RecordsParts, RestStepEntitled, EventsStep DEF RecordsInv
<1>2. QED
  BY <1>1, RecordsInvariant, PTL
     DEF Spec, RequestsAreEntitled, RefusedChangesNothing, ChangedByStaff, EventsOfActiveTenants
================================================================================
