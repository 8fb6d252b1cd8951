----------------------------- MODULE ListenerLayer -----------------------------
(***************************************************************************)
(* ListenerLayer (src/api/layers/listener.layer.ts): how an event of the   *)
(* page reaches the callbacks of a client.  After each injection a chain   *)
(* exposes the missing functions to the page, one at a time and with       *)
(* awaits between, and then registers one forwarder for each event; a      *)
(* function outlives the document, its mark `exposed` and the forwarder do *)
(* not.  Chains of two documents may run at the same time.                 *)
(***************************************************************************)
EXTENDS BrowserPage, Sequences

CONSTANTS
  Event,      \* the events of ExposedFn and the seven that follow it
  Listener,   \* callbacks given to an on... method
  EventOf,    \* EventOf[l]: the event l is registered for
  MaxFires    \* bound: the events the page has to tell

ASSUME ListenerAssumption == MaxFires \in Nat /\ EventOf \in [Listener -> Event]

VARIABLES
  attach,     \* attach[d]: "none", "expose", "done": the chain of document d
  toExpose,   \* toExpose[d]: the functions the loop has still to look at
  exposing,   \* exposing[d]: the function that exposeFunction is at work on, a set
  bound,      \* names that puppeteer has taken
  exposed,    \* functions that documents have
  marked,     \* marked[d]: functions of document d with the mark `exposed`
  forwarders, \* forwarders[d][e]: the handlers of e registered in document d
  listening,  \* callbacks registered with listenerEmitter
  fires,      \* the events the page has told so far
  wire,       \* calls of exposed functions on their way to node
  heard       \* heard[l]: the events l was called with

attachVars == <<attach, toExpose, exposing, bound, exposed, marked, forwarders>>
hearVars == <<listening, fires, wire, heard>>
listenerVars == <<attachVars, hearVars>>

ListenerTypeOK ==
  /\ attach \in [Documents -> {"none", "expose", "done"}]
  /\ toExpose \in [Documents -> SUBSET Event]
  /\ exposing \in [Documents -> SUBSET Event]
  /\ exposed \subseteq bound /\ bound \subseteq Event
  /\ marked \in [Documents -> SUBSET Event]
  /\ forwarders \in [Documents -> [Event -> 0 .. 1]]
  /\ listening \subseteq Listener
  /\ fires \in 0 .. MaxFires
  /\ wire \in Seq([event : Event, id : 1 .. MaxFires])
  /\ heard \in [Listener -> Seq(1 .. MaxFires)]

ListenerInit ==
  /\ attach = [d \in Documents |-> "none"]
  /\ toExpose = [d \in Documents |-> {}]
  /\ exposing = [d \in Documents |-> {}]
  /\ bound = {} /\ exposed = {}
  /\ marked = [d \in Documents |-> {}]
  /\ forwarders = [d \in Documents |-> [e \in Event |-> 0]]
  /\ listening = {}
  /\ fires = 0
  /\ wire = <<>>
  /\ heard = [l \in Listener |-> <<>>]

BeginExposing(d) ==
  /\ chain[d] = "injected" /\ attach[d] = "none"
  /\ attach' = [attach EXCEPT ![d] = "expose"]
  /\ toExpose' = [toExpose EXCEPT ![d] = Event]
  /\ UNCHANGED <<exposing, bound, exposed, marked, forwarders, hearVars>>

\* The current document is asked for the function; an error counts as no.
Has(d, e) ==
  /\ exposing[d] = {} /\ e \in toExpose[d]
  /\ IF Alive /\ e \in exposed
     THEN toExpose' = [toExpose EXCEPT ![d] = @ \ {e}] /\ UNCHANGED exposing
     ELSE exposing' = [exposing EXCEPT ![d] = {e}] /\ UNCHANGED toExpose
  /\ UNCHANGED <<attach, bound, exposed, marked, forwarders, hearVars>>

\* exposeFunction takes the name, and throws when the name is taken or the page gone.
TakeName(d) ==
  \E e \in exposing[d] :
    /\ e \in toExpose[d]
    /\ toExpose' = [toExpose EXCEPT ![d] = @ \ {e}]
    /\ IF e \in bound \/ ~Alive
       THEN exposing' = [exposing EXCEPT ![d] = {}] /\ UNCHANGED bound
       ELSE bound' = bound \cup {e} /\ UNCHANGED exposing
    /\ UNCHANGED <<attach, exposed, marked, forwarders, hearVars>>

\* The function reaches the current document and the later ones.
Expose(d) ==
  \E e \in exposing[d] :
    /\ e \notin toExpose[d]
    /\ exposing' = [exposing EXCEPT ![d] = {}]
    /\ exposed' = IF Alive THEN exposed \cup {e} ELSE exposed
    /\ UNCHANGED <<attach, toExpose, bound, marked, forwarders, hearVars>>

\* Mutant: the mark of a function is not looked at.
RegisterForwardersAgain(d) ==
  /\ attach[d] = "expose" /\ toExpose[d] = {} /\ exposing[d] = {}
  /\ attach' = [attach EXCEPT ![d] = "done"]
  /\ LET new == IF Works THEN exposed ELSE {}
     IN  /\ forwarders' = [forwarders EXCEPT ![document] =
                             [e \in Event |-> @[e] + (IF e \in new THEN 1 ELSE 0)]]
         /\ marked' = [marked EXCEPT ![document] = @ \cup new]
  /\ UNCHANGED <<toExpose, exposing, bound, exposed, hearVars>>

\* One evaluate for all events; a document without scripts or without the function
\* throws before the mark is set, and the exception is caught event by event.
RegisterForwarders(d) ==
  /\ attach[d] = "expose" /\ toExpose[d] = {} /\ exposing[d] = {}
  /\ attach' = [attach EXCEPT ![d] = "done"]
  /\ LET new == IF Works THEN exposed \ marked[document] ELSE {}
     IN  /\ forwarders' = [forwarders EXCEPT ![document] =
                             [e \in Event |-> @[e] + (IF e \in new THEN 1 ELSE 0)]]
         /\ marked' = [marked EXCEPT ![document] = @ \cup new]
  /\ UNCHANGED <<toExpose, exposing, bound, exposed, hearVars>>

\* registerEvent
Listen(l) ==
  /\ l \notin listening
  /\ listening' = listening \cup {l}
  /\ UNCHANGED <<attachVars, fires, wire, heard>>

Dispose(l) ==
  /\ l \in listening
  /\ listening' = listening \ {l}
  /\ UNCHANGED <<attachVars, fires, wire, heard>>

\* The page tells an event: every forwarder calls the exposed function.
Fire(e) ==
  /\ Works
  /\ fires < MaxFires
  /\ fires' = fires + 1
  /\ LET call == [event |-> e, id |-> fires + 1]
     IN  wire' = wire \o [i \in 1 .. forwarders[document][e] |-> call]
  /\ UNCHANGED <<attachVars, listening, heard>>

\* listenerEmitter.emit, a turn after the call arrived; a closed page tells no more.
Emit ==
  /\ wire # <<>>
  /\ wire' = Tail(wire)
  /\ heard' = [l \in Listener |->
                 IF l \in listening /\ EventOf[l] = Head(wire).event
                 THEN Append(heard[l], Head(wire).id)
                 ELSE heard[l]]
  /\ UNCHANGED <<attachVars, listening, fires>>

Hangup ==
  /\ page = "closed" /\ wire # <<>>
  /\ wire' = <<>>
  /\ UNCHANGED <<attachVars, listening, fires, heard>>

AttachStep(d) ==
  \/ BeginExposing(d)
  \/ \E e \in Event : Has(d, e)
  \/ TakeName(d)
  \/ Expose(d)
  \/ RegisterForwarders(d)

ListenerNext ==
  /\ \/ \E d \in Documents : AttachStep(d)
     \/ \E l \in Listener : Listen(l) \/ Dispose(l)
     \/ \E e \in Event : Fire(e)
     \/ Emit
     \/ Hangup
  /\ UNCHANGED pageVars

-----------------------------------------------------------------------------

\* A callback is called with the events in the order the page told them, and with none
\* twice, however often the document is replaced and the chains overlap.
HeardInOrder ==
  \A l \in Listener : \A i \in 1 .. Len(heard[l]) - 1 : heard[l][i] < heard[l][i + 1]

\* A document that stays, with its scripts, comes to forward every event: a function
\* that one chain failed to expose is being exposed by another.
AllForwarded ==
  \A d \in Documents :
    <>[](document = d /\ page = "open" /\ scripted) =>
      <>[](\A e \in Event : forwarders[d][e] = 1)
==============================================================================
