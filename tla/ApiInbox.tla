------------------------------ MODULE ApiInbox ------------------------------
(***************************************************************************)
(* The inbox of one session of the stand-alone server, api-server/         *)
(* server.js: incoming messages, conversations, agents, webhooks and the   *)
(* daily analytics.  The message handler writes its rows, awaits one       *)
(* webhook after the other and then assigns the conversation and recounts  *)
(* the day; between the awaits anything may happen.  Names, texts and acks *)
(* are left out.                                                           *)
(***************************************************************************)
EXTENDS Naturals, FiniteSets

CONSTANTS
  Contact, Message,  \* chats and identities of incoming messages
  ContactOf,         \* the chat of each message
  Agent,          \* agents that may be registered
  NoAgent,        \* an assigned_agent column that is NULL
  Capacity,       \* max_conversations of every agent
  Hooks,          \* webhooks are numbered 1..Hooks
  MaxDeliveries,  \* bound: times the messages of each chat are delivered
  LastDay         \* bound: days that pass

ASSUME InboxAssumption ==
  /\ ContactOf \in [Message -> Contact] /\ NoAgent \notin Agent
  /\ IsFiniteSet(Contact) /\ IsFiniteSet(Message)
  /\ MaxDeliveries \in [Contact -> Nat]
  /\ {Capacity, Hooks, LastDay} \subseteq Nat \ {0}

VARIABLES
  stored,     \* day each stored message was created, 0 when not stored
  unreadCount,     \* unread_count of the conversations, 0 without a row
  assigned,   \* assigned_agent of the conversations
  agentState, \* "online" or "offline", as good as no row at all
  hook,       \* "none" (or none that matches), "matching" or "broken"
  handlers,   \* message handlers that await a webhook
  counted,    \* messages_received of the analytics row of each day
  today,      \* the current date
  transferred,\* to_agent of the newest transfer_history row of each chat
  byHand,     \* history: conversations whose agent a person has set
  uncounted   \* history: days of which a handler missed its recount

inboxVars == <<stored, unreadCount, assigned, agentState, hook, handlers, counted,
               today, transferred, byHand, uncounted>>

Hook == 1..Hooks
Day == 1..LastDay
StoredOn(d) == {m \in Message : stored[m] = d}
Load(a) == Cardinality({c \in Contact : assigned[c] = a})

InboxInit ==
  /\ stored = [m \in Message |-> 0]
  /\ unreadCount = [c \in Contact |-> 0]
  /\ assigned = [c \in Contact |-> NoAgent]
  /\ agentState = [a \in Agent |-> "offline"]
  /\ hook = [h \in Hook |-> "none"]
  /\ handlers = {}
  /\ counted = [d \in Day |-> 0]
  /\ today = 1
  /\ transferred = [c \in Contact |-> NoAgent]
  /\ byHand = {}
  /\ uncounted = {}

-----------------------------------------------------------------------------
\* The hooks trigger() will call: those that match, up to the first whose
\* events cannot be searched.
CalledHooks ==
  {h \in Hook : hook[h] = "matching" /\ \A i \in 1..h : hook[i] # "broken"}
SomeBroken == \E h \in Hook : hook[h] = "broken"

\* onMessage up to the await of the webhooks: the message is stored once,
\* the conversation counts every delivery, and every delivery has a handler of
\* its own, also one of a message whose handler still waits: "turn" tells them
\* apart.  (An outgoing message, which onMessage does not report, would skip
\* the webhooks.)
Deliver(m) ==
  /\ unreadCount[ContactOf[m]] < MaxDeliveries[ContactOf[m]]
  /\ stored' = [stored EXCEPT ![m] = IF @ = 0 THEN today ELSE @]
  /\ unreadCount' = [unreadCount EXCEPT ![ContactOf[m]] = @ + 1]
  /\ handlers' = handlers \cup {[message |-> m, turn |-> unreadCount[ContactOf[m]] + 1,
                                left |-> CalledHooks, aborts |-> SomeBroken]}
  /\ UNCHANGED <<assigned, agentState, hook, counted, today, transferred, byHand, uncounted>>

\* The next webhook answers or fails; its call is logged either way.
HookAnswers(h) ==
  /\ h.left # {}
  /\ handlers' = (handlers \ {h}) \cup
       {[h EXCEPT !.left = @ \ {CHOOSE i \in @ : \A j \in @ : i <= j}]}
  /\ UNCHANGED <<stored, unreadCount, assigned, agentState, hook, counted, today, transferred,
                 byHand, uncounted>>

\* A broken hook throws out of trigger(): the rest of the handler is skipped.
HandlerAborts(h) ==
  /\ h.left = {} /\ h.aborts
  /\ handlers' = handlers \ {h}
  /\ uncounted' = uncounted \cup {stored[h.message]}
  /\ UNCHANGED <<stored, unreadCount, assigned, agentState, hook, counted, today, transferred,
                 byHand>>

\* Mutant: the day's row is incremented.
UpdateDailyAdds(m) ==
  /\ counted' = [counted EXCEPT ![today] = @ + 1]
  /\ uncounted' = IF stored[m] # today THEN uncounted \cup {stored[m]} ELSE uncounted

\* Analytics.updateDaily: today's row is counted anew.
UpdateDaily(m) ==
  /\ counted' = [counted EXCEPT ![today] = Cardinality(StoredOn(today))]
  /\ uncounted' = IF stored[m] # today THEN uncounted \cup {stored[m]} ELSE uncounted

\* AgentManager.assignToAvailableAgent: the online agent with the least open
\* conversations, if it has room.
Available(a) == agentState[a] = "online" /\ Load(a) < Capacity
Least(a) == Available(a) /\ \A b \in Agent : Available(b) => Load(a) <= Load(b)

\* Mutant: the conversation is not looked up again after the webhooks.
AssignChatBlindly(c) ==
  IF \A a \in Agent : ~Least(a)
    THEN UNCHANGED assigned
    ELSE \E a \in Agent : Least(a) /\ assigned' = [assigned EXCEPT ![c] = a]

AssignChat(c) ==
  IF assigned[c] # NoAgent \/ (\A a \in Agent : ~Least(a))
    THEN UNCHANGED assigned
    ELSE \E a \in Agent : Least(a) /\ assigned' = [assigned EXCEPT ![c] = a]

\* The handler goes on after its last webhook, to its end.
HandlerEnds(h) ==
  /\ h.left = {} /\ ~h.aborts
  /\ handlers' = handlers \ {h}
  /\ AssignChat(ContactOf[h.message])
  /\ UpdateDaily(h.message)
  /\ UNCHANGED <<stored, unreadCount, agentState, hook, today, transferred, byHand>>

-----------------------------------------------------------------------------
\* POST /agents adds an agent that is offline; PATCH /agents/:email/status.
PatchAgent(a) ==
  /\ \E s \in {"offline", "online"} \ {agentState[a]} : agentState' = [agentState EXCEPT ![a] = s]
  /\ UNCHANGED <<stored, unreadCount, assigned, hook, handlers, counted, today, transferred,
                 byHand, uncounted>>

\* POST .../transfer: to any agent, full, offline or unknown; recorded even
\* when there is no conversation to update.
Transfer(c, a) ==
  /\ assigned' = IF unreadCount[c] > 0 THEN [assigned EXCEPT ![c] = a] ELSE assigned
  /\ transferred' = [transferred EXCEPT ![c] = a]
  /\ byHand' = IF unreadCount[c] > 0 THEN byHand \cup {c} ELSE byHand
  /\ UNCHANGED <<stored, unreadCount, agentState, hook, handlers, counted, today, uncounted>>

\* POST and DELETE /webhooks
PostWebhook(h) ==
  /\ hook[h] = "none"
  /\ \E kind \in {"matching", "broken"} : hook' = [hook EXCEPT ![h] = kind]
  /\ UNCHANGED <<stored, unreadCount, assigned, agentState, handlers, counted, today,
                 transferred, byHand, uncounted>>

DeleteWebhook(h) ==
  /\ hook[h] # "none"
  /\ hook' = [hook EXCEPT ![h] = "none"]
  /\ UNCHANGED <<stored, unreadCount, assigned, agentState, handlers, counted, today,
                 transferred, byHand, uncounted>>

Midnight ==
  /\ today < LastDay
  /\ today' = today + 1
  /\ UNCHANGED <<stored, unreadCount, assigned, agentState, hook, handlers, counted,
                 transferred, byHand, uncounted>>

\* The process ends and starts again: the handlers are gone, the rows stay.
InboxCrash ==
  /\ handlers' = {}
  /\ uncounted' = uncounted \cup {stored[h.message] : h \in handlers}
  /\ UNCHANGED <<stored, unreadCount, assigned, agentState, hook, counted, today, transferred,
                 byHand>>

InboxNext ==
  \/ \E m \in Message : Deliver(m)
  \/ \E h \in handlers : HookAnswers(h) \/ HandlerAborts(h) \/ HandlerEnds(h)
  \/ \E a \in Agent : PatchAgent(a)
  \/ \E c \in Contact, a \in Agent : Transfer(c, a)
  \/ \E h \in Hook : PostWebhook(h) \/ DeleteWebhook(h)
  \/ Midnight \/ InboxCrash

InboxSpec == InboxInit /\ [][InboxNext]_inboxVars

-----------------------------------------------------------------------------
Handler ==
  [message : Message, turn : Nat, left : SUBSET Hook, aborts : BOOLEAN]

\* Every variable has values of its kind.
InboxTypeOK ==
  /\ stored \in [Message -> 0..LastDay]
  /\ unreadCount \in [Contact -> Nat]
  /\ assigned \in [Contact -> Agent \cup {NoAgent}]
  /\ agentState \in [Agent -> {"offline", "online"}]
  /\ hook \in [Hook -> {"none", "matching", "broken"}]
  /\ handlers \subseteq Handler
  /\ counted \in [Day -> 0..Cardinality(Message)]
  /\ today \in Day
  /\ transferred \in [Contact -> Agent \cup {NoAgent}]
  /\ byHand \subseteq Contact /\ uncounted \subseteq Day

\* However many handlers wait for their webhooks at once, the conversations
\* they hand to an agent stay within its maximum; only transfers exceed it.
AutoAssignWithinCapacity ==
  \A a \in Agent : Cardinality({c \in Contact \ byHand : assigned[c] = a}) <= Capacity

\* A conversation that a person handed over while handlers waited is not taken
\* away by them: its agent is the one the newest transfer named.
TransfersWin == \A c \in byHand : assigned[c] = transferred[c]

\* The row of a day never shows more than was received, and shows all of it
\* once the handlers are through, except on days of which a handler was cut
\* off (broken hook, crash) or came back only after midnight.
AnalyticsMatch ==
  \A d \in Day :
    /\ counted[d] <= Cardinality(StoredOn(d))
    /\ \/ counted[d] = Cardinality(StoredOn(d))
       \/ d \in uncounted
       \/ \E h \in handlers : stored[h.message] = d

\* What the overlapping handlers have made of agents, conversations and daily counts.
InboxIsSound == InboxTypeOK /\ AutoAssignWithinCapacity /\ AnalyticsMatch
=============================================================================
