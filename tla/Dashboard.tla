------------------------------ MODULE Dashboard ------------------------------
(***************************************************************************)
(* What a tenant is told of its sessions and messages                      *)
(* (services/analytics.service.ts, TenantModel.getStats), as functions of  *)
(* the rows that the session manager and its listeners write.              *)
(*                                                                         *)
(* WhatsApp stamps a message in seconds, the queries compare in            *)
(* milliseconds: a row with such a stamp is older than every limit.  Only  *)
(* a sent message whose result has no stamp gets Date.now().               *)
(***************************************************************************)
EXTENDS Integers, FiniteSets

CONSTANTS
  Owner,        \* tenants
  Holding,      \* session names
  Person,       \* contacts
  MaxMessages   \* bound: messages

ASSUME DashboardAssumption == MaxMessages \in Nat /\ IsFiniteSet(Holding)

VARIABLES
  ownerOf,   \* the tenant of each session row, Unowned where it is NULL
  rowState,  \* the status of each session row
  mails,     \* rows of messages
  listed,    \* rows of contacts
  opened     \* rows of conversations: no code closes one

dashboardVars == <<ownerOf, rowState, mails, listed, opened>>

Unowned == "none"
Seconds == -1  \* the age of a stamp in seconds
RowStatus == {"connected", "disconnected", "connecting", "qr_code", "error"}

DashboardInit ==
  /\ ownerOf = [n \in Holding |-> Unowned]
  /\ rowState = [n \in Holding |-> "disconnected"]
  /\ mails = {} /\ listed = {} /\ opened = {}

\* The tenant is written by whoever writes the database: nothing in src/ does.
SetOwner(n, o) ==
  /\ ownerOf' = [ownerOf EXCEPT ![n] = o]
  /\ UNCHANGED <<rowState, mails, listed, opened>>

\* SessionModel.updateStatus.
StatusChanges(n, s) ==
  /\ rowState' = [rowState EXCEPT ![n] = s]
  /\ UNCHANGED <<ownerOf, mails, listed, opened>>

MessageRow(n, who, fromMe, age) ==
  [session |-> n, sender |-> who, fromMe |-> fromMe, age |-> age, id |-> Cardinality(mails)]

\* The onMessage listener: a message, its chat and its contact.
MailReceived(n, who) ==
  /\ Cardinality(mails) < MaxMessages
  /\ mails' = mails \cup {MessageRow(n, who, FALSE, Seconds)}
  /\ listed' = listed \cup {[session |-> n, person |-> who]}
  /\ opened' = opened \cup {[session |-> n, chat |-> who]}
  /\ UNCHANGED <<ownerOf, rowState>>

\* sendMessage: the sender is the host, which is a contact of others.
MailSent(n, host, age) ==
  /\ Cardinality(mails) < MaxMessages
  /\ mails' = mails \cup {MessageRow(n, host, TRUE, age)}
  /\ UNCHANGED <<ownerOf, rowState, listed, opened>>

Aged(age) == CASE age = 0 -> 1 [] age = 1 -> 2 [] age = 2 -> 8 [] OTHER -> age

TimePasses ==
  /\ mails' = {[m EXCEPT !.age = Aged(@)] : m \in mails}
  /\ UNCHANGED <<ownerOf, rowState, listed, opened>>

DashboardNext ==
  \/ \E n \in Holding, o \in Owner \cup {Unowned} : SetOwner(n, o)
  \/ \E n \in Holding, s \in RowStatus : StatusChanges(n, s)
  \/ \E n \in Holding, who \in Person : MailReceived(n, who)
  \/ \E n \in Holding, host \in Person, age \in {Seconds, 0} : MailSent(n, host, age)
  \/ TimePasses

DashboardSpec == DashboardInit /\ [][DashboardNext]_dashboardVars

-----------------------------------------------------------------------------
Sessions(o) == {n \in Holding : ownerOf[n] = o}

Messages(o) == {m \in mails : m.session \in Sessions(o)}
Since(o, days) == {m \in Messages(o) : m.age \in 0 .. days}

\* getDashboardMetrics: the overview.
Overview(o) ==
  [messages |-> Cardinality(Messages(o)),
   sessions |-> Cardinality(Sessions(o)),
   active   |-> Cardinality({n \in Sessions(o) : rowState[n] = "connected"}),
   contacts |-> Cardinality({c.person : c \in {c \in listed : c.session \in Sessions(o)}}),
   chats    |-> Cardinality({c \in opened : c.session \in Sessions(o)})]

\* ... what it counts of the messages,
MessageStats(o) ==
  [sent     |-> Cardinality({m \in Messages(o) : m.fromMe}),
   received |-> Cardinality({m \in Messages(o) : ~m.fromMe}),
   today    |-> Cardinality(Since(o, 0)),
   week     |-> Cardinality(Since(o, 7)),
   month    |-> Cardinality(Since(o, 30))]

\* Mutant: a status with no field of its own is dropped.
SessionStatsOfFour(o) ==
  [s \in RowStatus |-> IF s = "connecting" THEN 0
                       ELSE Cardinality({n \in Sessions(o) : rowState[n] = s})]

\* ... and of the sessions: a status that is none of the four fields gets one.
SessionStats(o) == [s \in RowStatus |-> Cardinality({n \in Sessions(o) : rowState[n] = s})]

\* ... and the senders: the join pairs each row of a contact with the messages it sent to
\* the sessions of any tenant.
TopContacts(o) ==
  LET own == {c \in listed : c.session \in Sessions(o)} IN
  {[person |-> p, count |-> Cardinality({c \in own : c.person = p})
                              * Cardinality({m \in mails : m.sender = p})] :
     p \in {c.person : c \in own}}

\* getHourlyActivity and getMessageTrends: only what is stamped in milliseconds.
HourlyActivity(o) == Cardinality(Since(o, 1))

MessageTrends(o, days) ==
  [age \in 0 .. days |-> [fromMe \in BOOLEAN |->
     Cardinality({m \in Since(o, days) : m.age = age /\ m.fromMe = fromMe})]]

\* getStats, for the routes of the tenants.
TenantStats(o) ==
  [sessions |-> Cardinality(Sessions(o)), messages |-> Cardinality(Messages(o)),
   active   |-> Cardinality({n \in Sessions(o) : rowState[n] = "connected"})]

\* The numbers of one dashboard agree: no message and no session is in two of the
\* fields that split a total, or in none, whichever status the rows come to have.
DashboardAddsUp ==
  \A o \in Owner :
    LET stats == SessionStats(o)
        Day(d) == MessageTrends(o, 7)[d][TRUE] + MessageTrends(o, 7)[d][FALSE] IN
    /\ MessageStats(o).sent + MessageStats(o).received = Overview(o).messages
    /\ stats["connected"] + stats["disconnected"] + stats["connecting"] + stats["qr_code"]
         + stats["error"] = Overview(o).sessions
    /\ stats["connected"] = TenantStats(o).active
    /\ MessageStats(o).week
         = Day(0) + Day(1) + Day(2) + Day(3) + Day(4) + Day(5) + Day(6) + Day(7)

\* What happens to the sessions of others changes no number of a tenant (its top contacts
\* apart, which TopContacts counts over all tenants).
OthersDoNotCount ==
  [][\A o \in Owner :
       (/\ \A n \in Holding :
             ownerOf[n] = o \/ ownerOf'[n] = o => UNCHANGED <<ownerOf[n], rowState[n]>>
        /\ {m \in mails' : ownerOf'[m.session] = o} = {m \in mails : ownerOf[m.session] = o}
        /\ {c \in listed' : ownerOf'[c.session] = o} = {c \in listed : ownerOf[c.session] = o}
        /\ {c \in opened' : ownerOf'[c.session] = o} = {c \in opened : ownerOf[c.session] = o})
       => UNCHANGED <<Overview(o), MessageStats(o), SessionStats(o), HourlyActivity(o)>>
    ]_dashboardVars
=============================================================================
