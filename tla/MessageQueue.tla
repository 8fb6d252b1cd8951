---------------------------- MODULE MessageQueue ----------------------------
(***************************************************************************)
(* New messages inside the page: the queue that hands them to the callers  *)
(* of waitNewMessages (lib/wapi/listeners/init-listeners.js) and the calls *)
(* that fetch what is new in a chat (lib/wapi/functions/get-unread-        *)
(* messages.js).  Messages are numbered in the order of their arrival, all *)
(* in one chat.                                                            *)
(*                                                                         *)
(* The handler that would save what was not handed over before a reload is *)
(* set after wapi.js has registered it, as undefined: nothing is saved.    *)
(***************************************************************************)
EXTENDS Integers, Sequences

CONSTANTS
  Incoming,   \* bound: messages
  OwnOnes,    \* messages sent from this account (isSentByMe)
  Notices,    \* messages that are notifications
  BodyLess,   \* messages that have no body when they arrive
  Waiter      \* callbacks of waitNewMessages

ASSUME QueueAssumption ==
  /\ Incoming \in Nat
  /\ UNION {OwnOnes, Notices, BodyLess} \subseteq 1 .. Incoming

VARIABLES
  hooked,     \* readyPromise has resolved: the listener is there
  arrived,    \* messages that have arrived
  isNew,      \* messages whose isNewMsg is true
  unread,     \* the chat's unreadCount
  delays,     \* messages in timers of no time and of two seconds
  queue,      \* _newMessagesQueue
  debouncing, \* _newMessagesDebouncer is set
  waiting,    \* _newMessagesCallbacks
  heardBy,    \* history: what each callback was called with
  given       \* history: messages getUnreadMessages has returned as new

storeVars == <<arrived, isNew, unread, given>>
queueVars == <<hooked, storeVars, delays, queue, debouncing, waiting, heardBy>>

NoDelays == [none |-> <<>>, two |-> <<>>]

QueueInit ==
  /\ hooked = FALSE /\ arrived = 0 /\ isNew = {} /\ unread = 0
  /\ delays = NoDelays /\ queue = <<>> /\ debouncing = FALSE /\ waiting = <<>>
  /\ heardBy = [w \in Waiter |-> <<>>] /\ given = {}

\* readyPromise resolves.
Hook ==
  /\ ~hooked /\ hooked' = TRUE
  /\ UNCHANGED <<storeVars, delays, queue, debouncing, waiting, heardBy>>

\* The 'add' event of MsgStore.  One without a body is looked at 2 s later.
MessageAdded ==
  LET m == arrived + 1 IN
  /\ arrived < Incoming
  /\ arrived' = m
  /\ isNew' = isNew \cup {m}
  /\ unread' = IF m \in OwnOnes THEN unread ELSE (IF unread = -1 THEN 1 ELSE unread + 1)
  /\ delays' = IF ~hooked \/ m \in OwnOnes THEN delays
               ELSE IF m \in BodyLess THEN [delays EXCEPT !.two = Append(@, m)]
               ELSE [delays EXCEPT !.none = Append(@, m)]
  /\ UNCHANGED <<hooked, queue, debouncing, waiting, heardBy, given>>

\* The message is put into the queue, unless processMessageObj has nothing for it, and
\* the debouncer is started if there is something to debounce.
DelayEnds(d) ==
  /\ delays[d] # <<>>
  /\ delays' = [delays EXCEPT ![d] = Tail(@)]
  /\ queue' = IF Head(delays[d]) \in Notices THEN queue ELSE Append(queue, Head(delays[d]))
  /\ debouncing' = (debouncing \/ queue' # <<>>)
  /\ UNCHANGED <<hooked, storeVars, waiting, heardBy>>

\* waitNewMessages.
WaitNewMessages(w, once) ==
  /\ hooked
  /\ \A i \in DOMAIN waiting : waiting[i].who # w
  /\ waiting' = Append(waiting, [who |-> w, once |-> once])
  /\ UNCHANGED <<hooked, storeVars, delays, queue, debouncing, heardBy>>

\* Mutant: the queue is emptied after the callbacks.
DebouncerEndsLate(thrower) ==
  /\ debouncing /\ debouncing' = FALSE
  /\ queue' = IF thrower \in DOMAIN waiting THEN queue ELSE <<>>
  /\ heardBy' = [w \in Waiter |->
       IF \E i \in DOMAIN waiting : waiting[i].who = w /\ i <= thrower
       THEN heardBy[w] \o queue ELSE heardBy[w]]
  /\ waiting' = IF thrower \in DOMAIN waiting THEN waiting
                ELSE SelectSeq(waiting, LAMBDA c : ~c.once)
  /\ UNCHANGED <<hooked, storeVars, delays>>

\* The debouncer's second is over: debouncer and queue are reset, then the callbacks are
\* called.  If the one at position `thrower` throws, those behind it are not called and
\* those to be used once stay; no callback is at the position behind the last.
DebouncerEnds(thrower) ==
  /\ debouncing /\ debouncing' = FALSE
  /\ queue' = <<>>
  /\ heardBy' = [w \in Waiter |->
       IF \E i \in DOMAIN waiting : waiting[i].who = w /\ i <= thrower
       THEN heardBy[w] \o queue ELSE heardBy[w]]
  /\ waiting' = IF thrower \in DOMAIN waiting THEN waiting
                ELSE SelectSeq(waiting, LAMBDA c : ~c.once)
  /\ UNCHANGED <<hooked, storeVars, delays>>

Flush == \E thrower \in 1 .. Len(waiting) + 1 : DebouncerEnds(thrower)

\* processMessageObj: a notification is returned to who asks for notifications, anything
\* else unless it is ours and those are not asked for.
Returned(messages, me, notices) ==
  {m \in messages : IF m \in Notices THEN notices ELSE me \/ m \notin OwnOnes}

\* The last n messages of others, or the last one of a chat marked as unread (-1).
LastUnread ==
  LET others == SelectSeq([m \in 1 .. arrived |-> m], LAMBDA m : m \notin OwnOnes)
      wanted == IF unread = -1 THEN 1 ELSE unread
  IN  {others[i] : i \in {i \in DOMAIN others : i > Len(others) - wanted}}

\* getUnreadMessages: isNewMsg is cleared before it is known whether the message is one
\* the caller wants; the count is only used, and reset, if nothing is new.
GetUnreadMessages(me, notices, useCount) ==
  LET fresh == Returned(isNew, me, notices) IN
  /\ isNew' = {}
  /\ given' = given \cup fresh
  /\ unread' = IF fresh = {} /\ useCount /\ LastUnread # {} THEN 0 ELSE unread
  /\ UNCHANGED <<hooked, arrived, delays, queue, debouncing, waiting, heardBy>>

\* getUnreadMessagesInChat.
GetUnreadInChat(me, notices) == GetUnreadMessages(me, notices, FALSE)

\* The chat is read, or marked as unread, on the phone.
ReadOnPhone(count) ==
  /\ count # unread /\ unread' = count
  /\ UNCHANGED <<hooked, arrived, isNew, given, delays, queue, debouncing, waiting, heardBy>>

\* The document is replaced: what the old one had in its variables and timers is gone,
\* and the messages of the new one's stores are not new.
PageReloads ==
  /\ hooked' = FALSE /\ delays' = NoDelays /\ queue' = <<>> /\ debouncing' = FALSE
  /\ waiting' = <<>> /\ isNew' = {}
  /\ UNCHANGED <<arrived, unread, given, heardBy>>

QueueNext ==
  \/ Hook
  \/ MessageAdded
  \/ \E d \in {"none", "two"} : DelayEnds(d)
  \/ \E w \in Waiter, once \in BOOLEAN : WaitNewMessages(w, once)
  \/ Flush
  \/ \E me, notices, useCount \in BOOLEAN : GetUnreadMessages(me, notices, useCount)
  \/ \E me, notices \in BOOLEAN : GetUnreadInChat(me, notices)
  \/ \E count \in {0, -1} : ReadOnPhone(count)
  \/ PageReloads

\* The timer of the debouncer; a reload may come first.
QueueSpec == QueueInit /\ [][QueueNext]_queueVars /\ WF_queueVars(Flush)

-----------------------------------------------------------------------------
\* A queue that is not empty has a timer that will empty it, also after a callback threw.
NoneStranded == queue # <<>> => debouncing

\* No callback is handed a message twice, or a notification or message of ours, and
\* messages that have a body come in the order of their arrival, over batches that fail,
\* late registrations and reloads.  (One without a body may come after later ones.)
HandedOverOnce ==
  \A w \in Waiter : LET heard == heardBy[w] IN
    \A i, j \in DOMAIN heard :
      /\ heard[i] = heard[j] => i = j
      /\ i < j => heard[i] < heard[j] \/ {heard[i], heard[j]} \cap BodyLess # {}
      /\ heard[i] \notin OwnOnes \cup Notices

\* What has been returned as new is not new any more.
ReturnedIsOld == given \cap isNew = {}

QueueIsSound == NoneStranded /\ HandedOverOnce /\ ReturnedIsOld

\* What is queued leaves the queue, whether or not a callback gets it: without one, and
\* for those behind one that throws, it is gone.
QueueDrains == (queue # <<>>) ~> (queue = <<>>)

Holds(s, m) == \E i \in DOMAIN s : s[i] = m

\* The first callback is handed whatever is queued, unless a reload comes first.
FirstIsHanded ==
  \A w \in Waiter, m \in 1 .. Incoming :
    Holds(queue, m) /\ waiting # <<>> /\ waiting[1].who = w
      ~> Holds(heardBy[w], m) \/ ~hooked
=============================================================================
