------------------------------ MODULE PageProofs ------------------------------
(***************************************************************************)
(* The page of a client and the layers over it, for any number of          *)
(* documents, calls, events and callbacks.                                 *)
(***************************************************************************)
EXTENDS Page, SequenceTheorems, FiniteSetTheorems, TLAPS

-----------------------------------------------------------------------------
(* The page.  Its document is numbered from the first load on; before that   *)
(* no login has begun that could close it.                                   *)

PageHasDocument == page # "blank" => document \in Documents

NoLoginYet == page = "blank" => login = "start" /\ ~autoClose

LEMMA PageTypeStep == PageTypeOK /\ PageNext => PageTypeOK'
<1> SUFFICES ASSUME PageTypeOK, PageNext PROVE PageTypeOK'
  OBVIOUS
<1> USE PageAssumption DEF PageTypeOK, Documents
<1>1. CASE Load
  <2>1. document + 1 \in 0 .. MaxLoads /\ page' = "open"
    BY <1>1 DEF Load
  <2>2. chain' \in [1 .. MaxLoads -> {"none", "config", "check", "script", "injected", "failed"}]
    BY <1>1 DEF Load
  <2>3. QED
    BY <1>1, <2>1, <2>2 DEF Load
<1>2. ASSUME NEW d \in Documents, Configure(d) PROVE PageTypeOK'
  BY <1>2 DEF Configure
<1>3. ASSUME NEW d \in Documents, CheckInjected(d) PROVE PageTypeOK'
  BY <1>3 DEF CheckInjected
<1>4. ASSUME NEW d \in Documents, AddScripts(d) PROVE PageTypeOK'
  BY <1>4 DEF AddScripts
<1>5. CASE ClosePage \/ AskClose
  BY <1>5 DEF ClosePage, AskClose
<1>6. QED
  BY <1>1, <1>2, <1>3, <1>4, <1>5 DEF PageNext

LEMMA PageDocumentStep ==
  PageTypeOK /\ PageHasDocument /\ PageNext => PageHasDocument' /\ (page' = "blank" => page = "blank")
BY PageAssumption
   DEF PageTypeOK, PageHasDocument, Documents, PageNext, Load, Configure, CheckInjected,
       AddScripts, ClosePage, AskClose

-----------------------------------------------------------------------------
(* Events on their way: what is on the wire is numbered upwards, and after   *)
(* everything that was heard.                                                *)

Told == [event : Event, id : 1 .. MaxFires]

\* A name that a chain has done with, and is still exposing, is taken.
BeingExposed == \A d \in Documents : \A e \in exposing[d] : e \in toExpose[d] \cup bound

MarkedOnce == \A d \in Documents, e \in Event : forwarders[d][e] = 1 => e \in marked[d]

WireInOrder ==
  /\ \A i, j \in 1 .. Len(wire) : i < j => wire[i].id < wire[j].id
  /\ \A i \in 1 .. Len(wire) : wire[i].id \in 1 .. fires

HeardBeforeWire ==
  \A l \in Listener : \A i \in 1 .. Len(heard[l]) :
    /\ heard[l][i] \in 1 .. fires
    /\ \A j \in 1 .. Len(wire) : heard[l][i] < wire[j].id

\* What the chains of the documents do, and what is on its way to a callback.
AttachInv ==
  /\ attach \in [Documents -> {"none", "expose", "done"}]
  /\ toExpose \in [Documents -> SUBSET Event]
  /\ exposing \in [Documents -> SUBSET Event]
  /\ exposed \subseteq bound /\ bound \subseteq Event
  /\ marked \in [Documents -> SUBSET Event]
  /\ forwarders \in [Documents -> [Event -> 0 .. 1]]
  /\ MarkedOnce /\ BeingExposed

HearInv ==
  /\ listening \subseteq Listener
  /\ fires \in 0 .. MaxFires
  /\ wire \in Seq(Told)
  /\ heard \in [Listener -> Seq(1 .. MaxFires)]
  /\ WireInOrder /\ HeardBeforeWire /\ HeardInOrder

LEMMA ListenerInvTypes == AttachInv /\ HearInv => ListenerTypeOK
BY DEF AttachInv, HearInv, ListenerTypeOK, Told

LEMMA ListenerInvInit == ListenerInit => AttachInv /\ HearInv
<1> SUFFICES ASSUME ListenerInit PROVE AttachInv /\ HearInv
  OBVIOUS
<1>1. <<>> \in Seq(Told) /\ <<>> \in Seq(1 .. MaxFires) /\ Len(<<>>) = 0
  BY EmptySeq
<1>2. AttachInv
  BY ListenerAssumption DEF ListenerInit, AttachInv, MarkedOnce, BeingExposed
<1>3. HearInv
  BY <1>1, ListenerAssumption
     DEF ListenerInit, HearInv, WireInOrder, HeardBeforeWire, HeardInOrder
<1>4. QED
  BY <1>2, <1>3

\* A chain touches nothing that is on its way.
LEMMA AttachInvStep ==
  ASSUME AttachInv, PageTypeOK, NEW d \in Documents, AttachStep(d)
  PROVE  AttachInv' /\ UNCHANGED hearVars
<1> USE DEF AttachInv, MarkedOnce, BeingExposed, hearVars
<1>1. CASE BeginExposing(d)
  BY <1>1 DEF BeginExposing
<1>2. ASSUME NEW e \in Event, Has(d, e) PROVE AttachInv' /\ UNCHANGED hearVars
  <2>1. UNCHANGED <<attach, bound, exposed, marked, forwarders, hearVars>>
    BY <1>2 DEF Has
  <2>2. exposing[d] = {} /\ e \in toExpose[d] /\ {e} \subseteq Event
    BY <1>2 DEF Has
  <2>3. CASE toExpose' = [toExpose EXCEPT ![d] = @ \ {e}] /\ UNCHANGED exposing
    BY <2>1, <2>2, <2>3
  <2>4. CASE exposing' = [exposing EXCEPT ![d] = {e}] /\ UNCHANGED toExpose
    BY <2>1, <2>2, <2>4
  <2>5. QED
    BY <1>2, <2>3, <2>4 DEF Has
<1>3. CASE TakeName(d)
  <2>1. PICK e \in exposing[d] :
          /\ toExpose' = [toExpose EXCEPT ![d] = @ \ {e}]
          /\ \/ exposing' = [exposing EXCEPT ![d] = {}] /\ UNCHANGED bound
             \/ bound' = bound \cup {e} /\ UNCHANGED exposing
          /\ UNCHANGED <<attach, exposed, marked, forwarders, hearVars>>
    BY <1>3 DEF TakeName
  <2>2. e \in Event
    OBVIOUS
  <2>3. BeingExposed'
    BY <2>1
  <2>4. QED
    BY <2>1, <2>2, <2>3
<1>4. CASE Expose(d)
  <2>1. PICK e \in exposing[d] :
          /\ e \notin toExpose[d]
          /\ exposing' = [exposing EXCEPT ![d] = {}]
          /\ exposed' \in {exposed, exposed \cup {e}}
          /\ UNCHANGED <<attach, toExpose, bound, marked, forwarders, hearVars>>
    BY <1>4 DEF Expose
  <2>2. QED
    BY <2>1
<1>5. CASE RegisterForwarders(d)
  <2> DEFINE new == IF Works THEN exposed \ marked[document] ELSE {}
  <2>1. new \subseteq Event
    OBVIOUS
  <2>2. document \in Documents => \A e \in new : forwarders[document][e] = 0
    BY <2>1
  <2>3. /\ forwarders' = [forwarders EXCEPT ![document] =
                             [e \in Event |-> @[e] + (IF e \in new THEN 1 ELSE 0)]]
        /\ marked' = [marked EXCEPT ![document] = @ \cup new]
        /\ attach' = [attach EXCEPT ![d] = "done"]
        /\ UNCHANGED <<toExpose, exposing, bound, exposed, listening, fires, wire, heard>>
    BY <1>5 DEF RegisterForwarders
  <2> HIDE DEF new
  <2>4. CASE document \in Documents
    <3> DEFINE more == [e \in Event |-> forwarders[document][e] + (IF e \in new THEN 1 ELSE 0)]
    <3>1. more \in [Event -> 0 .. 1]
      BY <2>2, <2>4
    <3>2. \A e \in Event : more[e] = 1 => e \in marked[document] \cup new
      BY <2>4
    <3>3. /\ forwarders' = [forwarders EXCEPT ![document] = more]
          /\ marked' = [marked EXCEPT ![document] = marked[document] \cup new]
      BY <2>3, <2>4
    <3> HIDE DEF more
    <3>4. forwarders' \in [Documents -> [Event -> 0 .. 1]] /\ MarkedOnce'
      BY <2>4, <3>1, <3>2, <3>3
    <3>5. QED
      BY <2>1, <2>3, <2>4, <3>3, <3>4
  <2>5. CASE document \notin Documents
    <3>1. forwarders' = forwarders /\ marked' = marked
      BY <2>3, <2>5
    <3>2. QED
      BY <2>3, <3>1
  <2>6. QED
    BY <2>4, <2>5
<1>6. QED
  BY <1>1, <1>2, <1>3, <1>4, <1>5 DEF AttachStep

\* The page tells an event: a forwarder puts at most one call of it on the wire.
LEMMA FireInvStep ==
  ASSUME AttachInv, HearInv, PageTypeOK, PageHasDocument, NEW e \in Event, Fire(e)
  PROVE  HearInv'
<1> DEFINE call == [event |-> e, id |-> fires + 1]
<1>1. fires + 1 \in 1 .. MaxFires /\ fires' = fires + 1 /\ UNCHANGED <<listening, heard>>
  BY ListenerAssumption DEF Fire, HearInv
<1>2. call \in Told
  BY <1>1 DEF Told
<1>3. forwarders[document][e] \in 0 .. 1
  BY DEF Fire, Works, Alive, PageHasDocument, AttachInv
<1>4. wire' = wire \o [i \in 1 .. forwarders[document][e] |-> call]
  BY DEF Fire
<1> HIDE DEF call
<1>5. wire' = wire \/ wire' = Append(wire, call)
  <2>1. CASE forwarders[document][e] = 0
    <3>1. [i \in 1 .. 0 |-> call] = <<>>
      OBVIOUS
    <3>2. QED
      BY <1>4, <2>1, <3>1, ConcatEmptySeq DEF HearInv
  <2>2. CASE forwarders[document][e] = 1
    <3>1. [i \in 1 .. 1 |-> call] = <<call>>
      OBVIOUS
    <3>2. QED
      BY <1>2, <1>4, <2>2, <3>1, AppendIsConcat DEF HearInv
  <2>3. QED
    BY <1>3, <2>1, <2>2
<1>6. CASE wire' = wire
  <2>1. fires \in Nat /\ fires' \in 0 .. MaxFires
    BY <1>1, ListenerAssumption DEF HearInv
  <2>2. WireInOrder'
    BY <1>1, <1>6, <2>1 DEF HearInv, WireInOrder
  <2>3. HeardBeforeWire' /\ HeardInOrder'
    BY <1>1, <1>6, <2>1 DEF HearInv, HeardBeforeWire, HeardInOrder
  <2>4. QED
    BY <1>1, <1>6, <2>1, <2>2, <2>3 DEF HearInv
<1>7. CASE wire' = Append(wire, call)
  <2>1. /\ wire \in Seq(Told) /\ wire' \in Seq(Told)
        /\ Len(wire) \in Nat /\ Len(wire') = Len(wire) + 1
        /\ \A i \in 1 .. Len(wire) : wire'[i] = wire[i]
        /\ wire'[Len(wire) + 1] = call
    BY <1>2, <1>7, AppendProperties, LenProperties DEF HearInv
  <2>2. call.id = fires + 1 /\ fires \in Nat
    BY ListenerAssumption DEF call, HearInv
  <2>3. \A i \in 1 .. Len(wire') :
          \/ i \in 1 .. Len(wire) /\ wire'[i].id = wire[i].id
          \/ i = Len(wire) + 1 /\ wire'[i].id = fires + 1
    BY <2>1, <2>2
  <2>4. WireInOrder'
    <3>1. \A i \in 1 .. Len(wire) : wire[i].id \in 1 .. fires
      BY DEF HearInv, WireInOrder
    <3>2. \A i \in 1 .. Len(wire') : wire'[i].id \in 1 .. fires'
      BY <1>1, <2>2, <2>3, <3>1
    <3>3. ASSUME NEW i \in 1 .. Len(wire'), NEW j \in 1 .. Len(wire'), i < j
          PROVE  wire'[i].id < wire'[j].id
      <4>1. i \in 1 .. Len(wire) /\ wire'[i].id = wire[i].id /\ wire[i].id \in 1 .. fires
        BY <2>1, <2>3, <3>1, <3>3
      <4>2. CASE j \in 1 .. Len(wire) /\ wire'[j].id = wire[j].id
        BY <3>3, <4>1, <4>2 DEF HearInv, WireInOrder
      <4>3. CASE j = Len(wire) + 1 /\ wire'[j].id = fires + 1
        BY <2>2, <4>1, <4>3
      <4>4. QED
        BY <2>3, <4>2, <4>3
    <3>4. QED
      BY <3>2, <3>3 DEF WireInOrder
  <2>5. HeardBeforeWire'
    BY <1>1, <2>2, <2>3 DEF HearInv, HeardBeforeWire
  <2>6. HeardInOrder'
    BY <1>1 DEF HearInv, HeardInOrder
  <2>7. QED
    BY <1>1, <2>1, <2>4, <2>5, <2>6, ListenerAssumption DEF HearInv
<1>8. QED
  BY <1>5, <1>6, <1>7

\* A callback hears the first of the wire, which is after all it has heard.
LEMMA EmitInvStep ==
  ASSUME HearInv, Emit
  PROVE  HearInv'
<1>1. /\ wire # <<>> /\ wire' = Tail(wire)
      /\ UNCHANGED <<listening, fires>>
      /\ \A l \in Listener : heard'[l] \in {heard[l], Append(heard[l], Head(wire).id)}
      /\ heard' \in [Listener -> {heard'[l] : l \in Listener}]
  BY DEF Emit, HearInv
<1>2. /\ wire \in Seq(Told) /\ Tail(wire) \in Seq(Told)
      /\ Len(wire) \in Nat /\ 1 \in 1 .. Len(wire) /\ Len(Tail(wire)) = Len(wire) - 1
      /\ \A i \in 1 .. Len(wire) - 1 : Tail(wire)[i] = wire[i + 1]
      /\ Head(wire) = wire[1]
  BY <1>1, HeadTailProperties, LenProperties, EmptySeq DEF HearInv
<1>3. /\ \A i, j \in 1 .. Len(wire) : i < j => wire[i].id < wire[j].id
      /\ \A i \in 1 .. Len(wire) : wire[i].id \in 1 .. fires
  BY DEF HearInv, WireInOrder
<1>4. ASSUME NEW i \in 1 .. Len(wire')
      PROVE  i \in 1 .. Len(wire) - 1 /\ i + 1 \in 1 .. Len(wire) /\ wire'[i] = wire[i + 1]
  <2>1. i \in 1 .. Len(wire) - 1
    BY <1>1, <1>2
  <2>2. i + 1 \in 1 .. Len(wire)
    BY <1>2, <2>1
  <2>3. QED
    BY <1>1, <1>2, <2>1, <2>2
<1>5. WireInOrder'
  <2>1. ASSUME NEW i \in 1 .. Len(wire'), NEW j \in 1 .. Len(wire'), i < j
        PROVE  wire'[i].id < wire'[j].id
    <3>1. i + 1 < j + 1
      BY <2>1
    <3>2. QED
      BY <1>3, <1>4, <3>1
  <2>2. \A i \in 1 .. Len(wire') : wire'[i].id \in 1 .. fires'
    BY <1>1, <1>3, <1>4
  <2>3. QED
    BY <2>1, <2>2 DEF WireInOrder
<1>6. ASSUME NEW l \in Listener
      PROVE  /\ heard'[l] \in Seq(1 .. MaxFires)
             /\ \A i \in 1 .. Len(heard'[l]) - 1 : heard'[l][i] < heard'[l][i + 1]
             /\ \A i \in 1 .. Len(heard'[l]) :
                  /\ heard'[l][i] \in 1 .. fires'
                  /\ \A j \in 1 .. Len(wire') : heard'[l][i] < wire'[j].id
  <2> DEFINE told == wire[1].id
  <2>1. /\ heard[l] \in Seq(1 .. MaxFires) /\ Len(heard[l]) \in Nat
        /\ \A i \in 1 .. Len(heard[l]) : heard[l][i] \in 1 .. MaxFires
    BY LenProperties, ElementOfSeq DEF HearInv
  <2>2. \A i \in 1 .. Len(heard[l]) :
          heard[l][i] \in 1 .. fires /\ \A j \in 1 .. Len(wire) : heard[l][i] < wire[j].id
    BY DEF HearInv, HeardBeforeWire
  <2>3. /\ fires \in 0 .. MaxFires /\ told \in 1 .. fires
        /\ \A j \in 1 .. Len(wire') : told < wire'[j].id
        /\ \A i \in 1 .. Len(heard[l]) : heard[l][i] < told
    <3>1. fires \in 0 .. MaxFires /\ told \in 1 .. fires
      BY <1>2, <1>3 DEF HearInv
    <3>2. ASSUME NEW j \in 1 .. Len(wire') PROVE told < wire'[j].id
      <4>1. 1 < j + 1
        BY <1>4
      <4>2. QED
        BY <1>2, <1>3, <1>4, <4>1
    <3>3. \A i \in 1 .. Len(heard[l]) : heard[l][i] < told
      BY <1>2, <2>2
    <3>4. QED
      BY <3>1, <3>2, <3>3
  <2>4. \A i \in 1 .. Len(heard[l]) :
          heard[l][i] \in 1 .. fires' /\ \A j \in 1 .. Len(wire') : heard[l][i] < wire'[j].id
    BY <1>1, <1>4, <2>2
  <2>5. \A i \in 1 .. Len(heard[l]) - 1 : heard[l][i] < heard[l][i + 1]
    BY DEF HearInv, HeardInOrder
  <2>6. CASE heard'[l] = heard[l]
    BY <2>1, <2>4, <2>5, <2>6
  <2>7. CASE heard'[l] = Append(heard[l], told)
    <3> HIDE DEF told
    <3> told \in 1 .. MaxFires
      BY <2>3, ListenerAssumption
    <3>1. /\ heard'[l] \in Seq(1 .. MaxFires) /\ Len(heard'[l]) = Len(heard[l]) + 1
          /\ \A i \in 1 .. Len(heard[l]) : heard'[l][i] = heard[l][i]
          /\ heard'[l][Len(heard[l]) + 1] = told
      BY <2>1, <2>3, <2>7, AppendProperties
    <3>2. \A i \in 1 .. Len(heard'[l]) :
            \/ i \in 1 .. Len(heard[l]) /\ heard'[l][i] = heard[l][i]
            \/ i = Len(heard[l]) + 1 /\ heard'[l][i] = told
      BY <2>1, <3>1
    <3>3. ASSUME NEW i \in 1 .. Len(heard'[l]) - 1 PROVE heard'[l][i] < heard'[l][i + 1]
      <4>1. i \in 1 .. Len(heard[l]) /\ heard'[l][i] = heard[l][i]
        BY <2>1, <3>1
      <4>2. CASE i = Len(heard[l])
        BY <2>3, <3>1, <4>1, <4>2
      <4>3. CASE i # Len(heard[l])
        <5>1. i \in 1 .. Len(heard[l]) - 1 /\ i + 1 \in 1 .. Len(heard[l])
          BY <2>1, <4>1, <4>3
        <5>2. QED
          BY <2>5, <3>1, <4>1, <5>1
      <4>4. QED
        BY <4>2, <4>3
    <3>4. QED
      BY <1>1, <2>3, <2>4, <3>1, <3>2, <3>3
  <2>8. QED
    BY <1>1, <1>2, <2>6, <2>7
<1>7. heard' \in [Listener -> Seq(1 .. MaxFires)]
  BY <1>1, <1>6
<1>8. HeardBeforeWire' /\ HeardInOrder'
  BY <1>6 DEF HeardBeforeWire, HeardInOrder
<1>9. QED
  BY <1>1, <1>2, <1>7, <1>8, <1>5 DEF HearInv

LEMMA ListenerInvStep ==
  ASSUME AttachInv, HearInv, PageTypeOK, PageHasDocument, ListenerNext
  PROVE  AttachInv' /\ HearInv'
<1>1. UNCHANGED hearVars => HearInv'
  BY DEF hearVars, HearInv, WireInOrder, HeardBeforeWire, HeardInOrder
<1>2. UNCHANGED attachVars => AttachInv'
  BY DEF attachVars, AttachInv, MarkedOnce, BeingExposed
<1>3. ASSUME NEW d \in Documents, AttachStep(d) PROVE AttachInv' /\ HearInv'
  BY <1>1, <1>3, AttachInvStep
<1>4. ASSUME NEW l \in Listener, Listen(l) \/ Dispose(l) PROVE AttachInv' /\ HearInv'
  <2>1. /\ UNCHANGED <<attachVars, fires, wire, heard>>
        /\ listening' \subseteq Listener
    BY <1>4 DEF Listen, Dispose, HearInv
  <2>2. QED
    BY <1>2, <2>1 DEF HearInv, WireInOrder, HeardBeforeWire, HeardInOrder
<1>5. ASSUME NEW e \in Event, Fire(e) PROVE AttachInv' /\ HearInv'
  BY <1>2, <1>5, FireInvStep DEF Fire
<1>6. CASE Emit
  BY <1>2, <1>6, EmitInvStep DEF Emit
<1>7. CASE Hangup
  <2>1. /\ UNCHANGED <<attachVars, listening, fires, heard>> /\ wire' = <<>>
        /\ <<>> \in Seq(Told) /\ Len(<<>>) = 0
    BY <1>7, EmptySeq DEF Hangup
  <2>2. \A i \in 1 .. Len(wire') : FALSE
    BY <2>1
  <2>3. WireInOrder' /\ HeardInOrder'
    BY <2>1, <2>2 DEF HearInv, WireInOrder, HeardInOrder
  <2>4. HeardBeforeWire'
    BY <2>1, <2>2 DEF HearInv, HeardBeforeWire
  <2>5. AttachInv'
    BY <1>2, <2>1
  <2>6. QED
    BY <2>1, <2>3, <2>4, <2>5 DEF HearInv
<1>8. QED
  BY <1>3, <1>4, <1>5, <1>6, <1>7 DEF ListenerNext

-----------------------------------------------------------------------------
(* The methods of the client.  Each asks for one effect at most, and reads   *)
(* and converts its input before it does.                                    *)

KnownPrograms ==
  {<<"act">>, <<"query">>, <<"ignore">>, <<"unbound">>,
   <<"may">>, <<"act", "query">>, <<"act", "query", "verify">>,
   <<"query", "act">>, <<"query", "query">>, <<"query", "attempt">>, <<"attempt", "query">>,
   <<"mime", "act">>, <<"read", "mime", "act">>, <<"read", "act">>, <<"read", "ignore">>,
   <<"read", "mime", "ignore">>, <<"read", "mime", "convert", "act">>,
   <<"read", "convert", "act">>, <<"convert", "act">>, <<"orphan", "unbound">>,
   <<"poll", "convert">>, <<"retry", "pipe">>}

OfInput == {"read", "orphan", "mime", "convert", "poll", "retry", "pipe"}
OfEffect == {"act", "may", "ignore"}

WellFormed(p) ==
  /\ Len(p) \in 1 .. 4
  /\ \A i, j \in 1 .. Len(p) : p[i] \in OfEffect /\ p[j] \in OfEffect => i = j
  /\ \A i, j \in 1 .. Len(p) : p[i] \in OfEffect /\ p[j] \in OfInput => j < i

LEMMA SenderPrograms ==
  /\ Range(TextSenders) \subseteq KnownPrograms
  /\ Range(ImageSenders) \subseteq KnownPrograms
  /\ Range(ThumbSenders) \subseteq KnownPrograms
  /\ Range(PttSenders) \subseteq KnownPrograms
  /\ Range(FileSenders) \subseteq KnownPrograms
  /\ Range(GifSenders) \subseteq KnownPrograms
  /\ Range(CardSenders) \subseteq KnownPrograms
  /\ Range(StickerGifSenders) \subseteq KnownPrograms
  /\ Range(StickerSenders) \subseteq KnownPrograms
  /\ Range(PresenceSenders) \subseteq KnownPrograms
  /\ Range(ListSenders) \subseteq KnownPrograms
  /\ Range(OrderSenders) \subseteq KnownPrograms
<1>1. Range(TextSenders) \subseteq KnownPrograms
  BY DEF Range, KnownPrograms, TextSenders, Act, SendAndFetch
<1>2. Range(ImageSenders) \subseteq KnownPrograms
  BY DEF Range, KnownPrograms, ImageSenders, ImageFromBase64
<1>3. Range(ThumbSenders) \subseteq KnownPrograms
  BY DEF Range, KnownPrograms, ThumbSenders, SendAndFetch
<1>4. Range(PttSenders) \subseteq KnownPrograms
  BY DEF Range, KnownPrograms, PttSenders, PttFromBase64
<1>5. Range(FileSenders) \subseteq KnownPrograms
  BY DEF Range, KnownPrograms, FileSenders, SendFile
<1>6. Range(GifSenders) \subseteq KnownPrograms
  BY DEF Range, KnownPrograms, GifSenders, GifFromBase64, Act
<1>7. Range(CardSenders) \subseteq KnownPrograms
  BY DEF Range, KnownPrograms, CardSenders, Act
<1>8. Range(StickerGifSenders) \subseteq KnownPrograms
  BY DEF Range, KnownPrograms, StickerGifSenders, Sticker
<1>9. Range(StickerSenders) \subseteq KnownPrograms
  BY DEF Range, KnownPrograms, StickerSenders, Sticker
<1>10. Range(PresenceSenders) \subseteq KnownPrograms
  BY DEF Range, KnownPrograms, PresenceSenders, Act
<1>11. Range(ListSenders) \subseteq KnownPrograms
  BY DEF Range, KnownPrograms, ListSenders, Act, SendAndFetch
<1>12. Range(OrderSenders) \subseteq KnownPrograms
  BY DEF Range, KnownPrograms, OrderSenders, Act, SendAndFetch
<1>13. QED
  BY <1>1, <1>2, <1>3, <1>4, <1>5, <1>6, <1>7, <1>8, <1>9, <1>10, <1>11, <1>12

LEMMA ChatPrograms ==
  /\ Range(ChatReaders) \subseteq KnownPrograms
  /\ Range(ContactReaders) \subseteq KnownPrograms
  /\ Range(MessageReaders) \subseteq KnownPrograms
  /\ Range(DetailReaders) \subseteq KnownPrograms
  /\ Range(ChatControls) \subseteq KnownPrograms
  /\ Range(MessageControls) \subseteq KnownPrograms
  /\ Range(ChatWindows) \subseteq KnownPrograms
  /\ Range(ProfileControls) \subseteq KnownPrograms
  /\ Range(StatusSenders) \subseteq KnownPrograms
  /\ Range(HostQueries) \subseteq KnownPrograms
  /\ Range(PresenceSubscriptions) \subseteq KnownPrograms
  /\ Range(ClientCalls) \subseteq KnownPrograms
  /\ Range(MediaCalls) \subseteq KnownPrograms
<1>1. Range(ChatReaders) \subseteq KnownPrograms
  BY DEF Range, KnownPrograms, ChatReaders, Query
<1>2. Range(ContactReaders) \subseteq KnownPrograms
  BY DEF Range, KnownPrograms, ContactReaders, Query, Act, May
<1>3. Range(MessageReaders) \subseteq KnownPrograms
  BY DEF Range, KnownPrograms, MessageReaders, Query, Act, May
<1>4. Range(DetailReaders) \subseteq KnownPrograms
  BY DEF Range, KnownPrograms, DetailReaders, Query
<1>5. Range(ChatControls) \subseteq KnownPrograms
  BY DEF Range, KnownPrograms, ChatControls, Act, May
<1>6. Range(MessageControls) \subseteq KnownPrograms
  BY DEF Range, KnownPrograms, MessageControls, Act, May
<1>7. Range(ChatWindows) \subseteq KnownPrograms
  BY DEF Range, KnownPrograms, ChatWindows, Query, Act, May
<1>8. Range(ProfileControls) \subseteq KnownPrograms
  BY DEF Range, KnownPrograms, ProfileControls, Query, Act, May
<1>9. Range(StatusSenders) \subseteq KnownPrograms
  BY DEF Range, KnownPrograms, StatusSenders
<1>10. Range(HostQueries) \subseteq KnownPrograms
  BY DEF Range, KnownPrograms, HostQueries, Query, Act
<1>11. Range(PresenceSubscriptions) \subseteq KnownPrograms
  BY DEF Range, KnownPrograms, PresenceSubscriptions, Act, May
<1>12. Range(ClientCalls) \subseteq KnownPrograms
  BY DEF Range, KnownPrograms, ClientCalls, Query, Act
<1>13. Range(MediaCalls) \subseteq KnownPrograms
  BY DEF Range, KnownPrograms, MediaCalls, Query, Act, May
<1>14. QED
  BY <1>1, <1>2, <1>3, <1>4, <1>5, <1>6, <1>7, <1>8, <1>9, <1>10, <1>11, <1>12, <1>13

LEMMA GroupPrograms ==
  /\ Range(GroupInvites) \subseteq KnownPrograms
  /\ Range(GroupSettings) \subseteq KnownPrograms
  /\ Range(GroupRequests) \subseteq KnownPrograms
  /\ Range(CommunityControls) \subseteq KnownPrograms
  /\ Range(NewsletterControls) \subseteq KnownPrograms
  /\ Range(LabelControls) \subseteq KnownPrograms
  /\ Range(ProductControls) \subseteq KnownPrograms
  /\ Range(CollectionControls) \subseteq KnownPrograms
  /\ Range(BusinessReaders) \subseteq KnownPrograms
  /\ Range(BusinessControls) \subseteq KnownPrograms
<1>1. Range(GroupInvites) \subseteq KnownPrograms
  BY DEF Range, KnownPrograms, GroupInvites, Query, Act
<1>2. Range(GroupSettings) \subseteq KnownPrograms
  BY DEF Range, KnownPrograms, GroupSettings, Query, Act
<1>3. Range(GroupRequests) \subseteq KnownPrograms
  BY DEF Range, KnownPrograms, GroupRequests, Query, Act, May
<1>4. Range(CommunityControls) \subseteq KnownPrograms
  BY DEF Range, KnownPrograms, CommunityControls, Query, Act
<1>5. Range(NewsletterControls) \subseteq KnownPrograms
  BY DEF Range, KnownPrograms, NewsletterControls, Act
<1>6. Range(LabelControls) \subseteq KnownPrograms
  BY DEF Range, KnownPrograms, LabelControls, Query
<1>7. Range(ProductControls) \subseteq KnownPrograms
  BY DEF Range, KnownPrograms, ProductControls, Query, Act
<1>8. Range(CollectionControls) \subseteq KnownPrograms
  BY DEF Range, KnownPrograms, CollectionControls, Query, Act
<1>9. Range(BusinessReaders) \subseteq KnownPrograms
  BY DEF Range, KnownPrograms, BusinessReaders, Query
<1>10. Range(BusinessControls) \subseteq KnownPrograms
  BY DEF Range, KnownPrograms, BusinessControls, Act
<1>11. QED
  BY <1>1, <1>2, <1>3, <1>4, <1>5, <1>6, <1>7, <1>8, <1>9, <1>10

LEMMA KnownWellFormed == \A p \in KnownPrograms : WellFormed(p)
BY DEF KnownPrograms, WellFormed, OfEffect, OfInput

LEMMA ProgramsWellFormed == \A p \in Programs : WellFormed(p)
<1>1. Programs \subseteq KnownPrograms
  BY SenderPrograms, ChatPrograms, GroupPrograms DEF Programs
<1>2. QED
  BY <1>1, KnownWellFormed

-----------------------------------------------------------------------------
(* One call: how far it is, against what it did to the account.              *)

\* The step i of the method that c called is still to come; or it is over.
Ahead(c, i) == at[c] < i \/ (at[c] = i /\ stage[c] \in {"node", "network", "sent"})
Over(c, i)  == i < at[c] \/ (at[c] = i /\ stage[c] \in {"answered", "resolved"})

Untouched(c) == effects[c] = 0 /\ ~late[c]

LEMMA CallNumbers ==
  ASSUME CallsTypeOK
  PROVE  at \in [Call -> 1 .. 5] /\ effects \in [Call -> 0 .. 1] /\ tries \in [Call -> Nat]
BY DEF CallsTypeOK

\* How far a call is, against what it did to the account.
CallInv(c) ==
  /\ stage[c] = "idle" => program[c] = <<>> /\ at[c] = 1
  /\ stage[c] # "idle" => program[c] \in Programs /\ at[c] \in 1 .. Len(program[c])
  /\ stage[c] = "resolved" => at[c] = Len(program[c])
  /\ stage[c] \in {"sent", "answered", "refused"} => Step(c) # "ignore"
  /\ cause[c] # "none" => stage[c] = "rejected"
  /\ cause[c] = "input" => Untouched(c)
  /\ late[c] => effects[c] = 0 /\ (cause[c] = "timeout" \/ ~Awaits(c))
  /\ (\A i \in 1 .. Len(program[c]) : program[c][i] \notin OfEffect) => Untouched(c)
  /\ \A i \in 1 .. Len(program[c]) :
       /\ program[c][i] \in OfEffect /\ Ahead(c, i) => Untouched(c)
       /\ program[c][i] = "act" /\ Over(c, i) => effects[c] = 1

Unchanged(c) ==
  /\ program'[c] = program[c] /\ at'[c] = at[c] /\ stage'[c] = stage[c]
  /\ cause'[c] = cause[c] /\ late'[c] = late[c] /\ effects'[c] = effects[c]

LEMMA UnchangedCall == ASSUME NEW c \in Call, CallInv(c), Unchanged(c) PROVE CallInv(c)'
BY DEF CallInv, Unchanged, Ahead, Over, Untouched, Awaits, Takes, Step

\* What a step of the call c does, whichever kind of step it is.
Moves(c) ==
  /\ program'[c] = program[c] /\ cause'[c] = cause[c]
  /\ \/ stage'[c] = "resolved" /\ at[c] = Len(program[c]) /\ at'[c] = at[c]
     \/ stage'[c] = "node" /\ at[c] # Len(program[c]) /\ at'[c] = at[c] + 1

Rejects(c, why) ==
  /\ program'[c] = program[c] /\ cause'[c] = why
  /\ stage'[c] = "rejected" /\ at'[c] = at[c]

Keeps(c) == late'[c] = late[c] /\ effects'[c] = effects[c]

LEMMA AdvanceMoves ==
  ASSUME NEW c \in Call, CallsTypeOK, Advance(c), program' = program
  PROVE  Moves(c)
BY DEF CallsTypeOK, Advance, Moves

LEMMA RejectRejects ==
  ASSUME NEW c \in Call, NEW why, CallsTypeOK, Reject(c, why), program' = program
  PROVE  Rejects(c, why)
BY DEF CallsTypeOK, Reject, Rejects

\* A step without an effect, and a step for one that was answered, are passed.
LEMMA MovesInv ==
  ASSUME NEW c \in Call, CallsTypeOK, CallInv(c), stage[c] \notin Settled \cup {"idle"},
         Moves(c), Keeps(c), stage[c] # "refused" \/ Step(c) # "act",
         Step(c) \in OfEffect => Step(c) # "ignore" /\ stage[c] = "answered"
  PROVE  CallInv(c)'
<1> DEFINE p == program[c]
<1>0. program[c] \in Programs /\ at[c] \in 1 .. Len(p)
  BY DEF CallInv, Settled
<1>1. WellFormed(p) /\ Len(p) \in Nat
  BY <1>0, ProgramsWellFormed DEF WellFormed
<1>a. \A i \in 1 .. Len(p) : p[i] \in OfEffect /\ Ahead(c, i) => Untouched(c)
  BY DEF CallInv
<1>b. \A i \in 1 .. Len(p) : p[i] = "act" /\ Over(c, i) => effects[c] = 1
  BY DEF CallInv
<1>2. cause[c] = "none"
  BY DEF CallInv, Settled
<1>3. at'[c] \in 1 .. Len(p)
  BY <1>0, <1>1 DEF Moves
<1>4. ASSUME NEW i \in 1 .. Len(p), p[i] \in OfEffect, Ahead(c, i)' PROVE Untouched(c)'
  <2>1. at[c] < i
    BY <1>0, <1>1, <1>4 DEF Moves, Ahead, Settled
  <2>2. QED
    BY <1>4, <1>a, <2>1 DEF Ahead, Untouched, Keeps
<1>5. ASSUME NEW i \in 1 .. Len(p), p[i] = "act", Over(c, i)' PROVE effects'[c] = 1
  <2>1. i < at[c] \/ i = at[c]
    BY <1>0, <1>1, <1>5 DEF Moves, Over, Settled
  <2>2. Over(c, i)
    BY <1>5, <2>1 DEF Over, Step, OfEffect
  <2>3. QED
    BY <1>5, <1>b, <2>2 DEF Keeps
<1>6. QED
  BY <1>0, <1>1, <1>2, <1>3, <1>4, <1>5 DEF CallInv, Moves, Keeps, Untouched, Awaits, Takes, Settled

LEMMA InputFirst ==
  ASSUME NEW c \in Call, CallInv(c), stage[c] \in {"node", "network"}, Step(c) \in OfInput
  PROVE  Untouched(c)
<1> DEFINE p == program[c]
<1>1. program[c] \in Programs /\ at[c] \in 1 .. Len(p)
  BY DEF CallInv
<1>2. WellFormed(p) /\ Len(p) \in Nat
  BY <1>1, ProgramsWellFormed DEF WellFormed
<1>3. CASE \A i \in 1 .. Len(p) : p[i] \notin OfEffect
  BY <1>3 DEF CallInv
<1>4. ASSUME NEW i \in 1 .. Len(p), p[i] \in OfEffect PROVE Untouched(c)
  <2>1. at[c] < i
    BY <1>1, <1>2, <1>4 DEF WellFormed, Step
  <2>2. QED
    BY <1>4, <2>1 DEF CallInv, Ahead
<1>5. QED
  BY <1>3, <1>4

LEMMA RejectsInv ==
  ASSUME NEW c \in Call, CallsTypeOK, CallInv(c), stage[c] \notin Settled \cup {"idle"},
         NEW why, why # "none", why = "input" => Untouched(c), Rejects(c, why), Keeps(c)
  PROVE  CallInv(c)'
<1>1. program[c] \in Programs /\ at[c] \in 1 .. Len(program[c]) /\ cause[c] = "none"
  BY DEF CallInv, Settled
<1>2. ASSUME NEW i \in 1 .. Len(program[c]), program[c][i] \in OfEffect, Ahead(c, i)'
      PROVE  Untouched(c)'
  BY <1>2 DEF CallInv, Rejects, Keeps, Ahead, Untouched
<1>3. ASSUME NEW i \in 1 .. Len(program[c]), program[c][i] = "act", Over(c, i)'
      PROVE  effects'[c] = 1
  BY <1>3 DEF CallInv, Rejects, Keeps, Over
<1>4. QED
  BY <1>1, <1>2, <1>3 DEF CallInv, Rejects, Keeps, Untouched, Awaits, Takes

LEMMA BeginInv ==
  ASSUME NEW c \in Call, CallsTypeOK, CallInv(c), NEW p \in Programs, Begin(c, p)
  PROVE  CallInv(c)'
<1>1. stage[c] = "idle" /\ program[c] = <<>> /\ at[c] = 1 /\ cause[c] = "none"
  BY DEF CallInv, Begin
<1>2. Untouched(c)
  <2>1. \A i \in 1 .. Len(<<>>) : <<>>[i] \notin OfEffect
    OBVIOUS
  <2>2. QED
    BY <1>1, <2>1 DEF CallInv
<1>3. /\ program'[c] = p /\ stage'[c] = "node" /\ at'[c] = 1
      /\ cause'[c] = "none" /\ effects'[c] = 0 /\ ~late'[c]
  BY <1>1, <1>2 DEF Begin, CallsTypeOK, Untouched
<1>4. Len(p) \in 1 .. 4
  BY ProgramsWellFormed DEF WellFormed
<1>5. 1 \in 1 .. Len(p)
  BY <1>4
<1>6. ASSUME NEW i \in 1 .. Len(p) PROVE ~Over(c, i)'
  <2>1. i \in Nat /\ ~(i < 1)
    BY <1>4
  <2>2. QED
    BY <1>3, <2>1 DEF Over
<1>7. QED
  BY <1>3, <1>5, <1>6 DEF CallInv, Untouched

LEMMA LoseInv ==
  ASSUME NEW c \in Call, CallsTypeOK, CallInv(c), stage[c] \in {"node", "network"},
         Untouched(c), Lose(c), Keeps(c), program' = program
  PROVE  CallInv(c)'
<1> USE DEF Settled
<1>1. stage'[c] = "lost" /\ at'[c] = at[c] /\ cause'[c] = "none" /\ cause[c] = "none"
  BY DEF Lose, CallsTypeOK, CallInv
<1>2. \A i \in 1 .. Len(program[c]) : Over(c, i)' => Over(c, i)
  BY <1>1 DEF Over
<1>3. QED
  BY <1>1, <1>2 DEF CallInv, Untouched, Keeps

LEMMA ReadPathInv ==
  ASSUME NEW c \in Call, CallsTypeOK, CallInv(c), NEW path, ReadPath(c, path)
  PROVE  CallInv(c)'
<1> USE DEF OfInput, OfEffect, Settled
<1>1. stage[c] = "node" /\ Step(c) \in {"read", "orphan"} /\ Keeps(c) /\ program' = program
  BY DEF ReadPath, Keeps
<1>2. Untouched(c)
  BY <1>1, InputFirst
<1>3. CASE Advance(c)
  BY <1>1, <1>3, AdvanceMoves, MovesInv
<1>4. CASE Reject(c, "input")
  BY <1>1, <1>2, <1>4, RejectRejects, RejectsInv
<1>5. CASE Lose(c)
  BY <1>1, <1>2, <1>5, LoseInv
<1>6. QED
  BY <1>3, <1>4, <1>5 DEF ReadPath

\* The steps of node and of the network, but for the reading of a path.
InNode(c) ==
  Request(c) \/ Download(c) \/ Poll(c) \/ Retry(c) \/ Check(c) \/ Verify(c) \/ Pipe(c)

LEMMA InNodeInv ==
  ASSUME NEW c \in Call, CallsTypeOK, CallInv(c), InNode(c)
  PROVE  CallInv(c)'
<1> USE DEF OfInput, OfEffect, Settled
<1>1. /\ stage[c] \in {"node", "network"} /\ Step(c) \in OfInput \cup {"verify"}
      /\ Keeps(c) /\ program' = program
  BY DEF InNode, Request, Download, Check, Verify, Poll, Retry, Pipe, Keeps
<1>2. Step(c) # "verify" => Untouched(c)
  BY <1>1, InputFirst
<1>3. CASE Advance(c)
  BY <1>1, <1>3, AdvanceMoves, MovesInv
<1>4. CASE Reject(c, "input") /\ Step(c) # "verify"
  BY <1>1, <1>2, <1>4, RejectRejects, RejectsInv
<1>5. CASE Reject(c, "answer")
  BY <1>1, <1>5, RejectRejects, RejectsInv
<1>6. CASE Lose(c) /\ Step(c) # "verify"
  BY <1>1, <1>2, <1>6, LoseInv
<1>7. ASSUME NEW to \in {"node", "network"}, stage' = [stage EXCEPT ![c] = to],
             UNCHANGED <<at, cause>>
      PROVE  CallInv(c)'
  <2>1. stage'[c] = to /\ at'[c] = at[c] /\ cause'[c] = cause[c]
    BY <1>7 DEF CallsTypeOK
  <2>2. \A i \in 1 .. Len(program[c]) :
          (Ahead(c, i)' <=> Ahead(c, i)) /\ (Over(c, i)' <=> Over(c, i))
    BY <1>1, <1>7, <2>1 DEF Ahead, Over
  <2>3. QED
    BY <1>1, <1>7, <2>1, <2>2 DEF CallInv, Untouched, Keeps, Awaits, Takes
<1>8. QED
  BY <1>3, <1>4, <1>5, <1>6, <1>7
     DEF InNode, Request, Download, Check, Verify, Poll, Retry, Pipe

\* The effect that is asked for has not been had: effects follow from one step only.
LEMMA EffectAhead ==
  ASSUME NEW c \in Call, CallInv(c), stage[c] \in {"node", "sent"}, Step(c) \in OfEffect
  PROVE  /\ Untouched(c)
         /\ \A i \in 1 .. Len(program[c]) : program[c][i] \in OfEffect => i = at[c]
<1>1. program[c] \in Programs /\ at[c] \in 1 .. Len(program[c])
  BY DEF CallInv
<1>2. QED
  BY <1>1, ProgramsWellFormed DEF CallInv, WellFormed, Ahead, Step

LEMMA SendInv ==
  ASSUME NEW c \in Call, CallsTypeOK, CallInv(c), Send(c)
  PROVE  CallInv(c)'
<1> USE DEF OfEffect, Settled
<1>1. /\ stage[c] = "node" /\ effects'[c] = effects[c] /\ program' = program
      /\ program[c] \in Programs /\ at[c] \in 1 .. Len(program[c]) /\ cause[c] = "none"
  BY DEF Send, CallInv
<1>2. CASE UNCHANGED late /\ Reject(c, "page")
  BY <1>1, <1>2, RejectRejects, RejectsInv DEF Keeps
<1>3. CASE UNCHANGED late /\ Reject(c, "unbound")
  BY <1>1, <1>3, RejectRejects, RejectsInv DEF Keeps
<1>4. CASE UNCHANGED late /\ Advance(c) /\ Step(c) = "attempt"
  BY <1>1, <1>4, AdvanceMoves, MovesInv DEF Keeps
<1>5. CASE Step(c) = "ignore" /\ Advance(c) /\ late' = [late EXCEPT ![c] = TRUE]
  <2>1. /\ Untouched(c) /\ late'[c] /\ ~Awaits(c)
        /\ \A i \in 1 .. Len(program[c]) : program[c][i] \in OfEffect => i = at[c]
    BY <1>1, <1>5, EffectAhead DEF CallsTypeOK, Awaits, Takes, Step
  <2>2. Moves(c)
    BY <1>1, <1>5, AdvanceMoves
  <2>3. Len(program[c]) \in 1 .. 4
    BY <1>1, ProgramsWellFormed DEF WellFormed
  <2>4. /\ at'[c] \in 1 .. Len(program[c])
        /\ \A i \in 1 .. Len(program[c]) : i = at[c] => ~Ahead(c, i)'
    <3>0. at[c] \in 1 .. Len(program[c])
      BY <1>1
    <3>1. Len(program[c]) \in Nat /\ at[c] \in 1 .. Len(program[c])
      BY <3>0, <2>3
    <3>2. \/ at'[c] = at[c] + 1 /\ at[c] # Len(program[c])
          \/ at'[c] = at[c] /\ stage'[c] = "resolved"
      BY <2>2 DEF Moves
    <3>3. at'[c] \in 1 .. Len(program[c])
      BY <3>1, <3>2
    <3>4. ~(at'[c] < at[c]) /\ (at'[c] = at[c] => stage'[c] = "resolved")
      BY <3>1, <3>2
    <3>5. QED
      BY <3>3, <3>4 DEF Ahead
  <2>5. program[c][at[c]] # "act"
    BY <1>5 DEF Step
  <2>6. QED
    BY <1>1, <2>1, <2>2, <2>4, <2>5 DEF CallInv, Moves, Untouched, Awaits, Takes
<1>6. CASE /\ stage' = [stage EXCEPT ![c] = "sent"]
           /\ UNCHANGED <<at, cause, late>>
           /\ Step(c) # "ignore"
  <2>1. /\ stage'[c] = "sent" /\ at'[c] = at[c] /\ cause'[c] = cause[c]
        /\ late'[c] = late[c] /\ program'[c] = program[c]
    BY <1>1, <1>6 DEF CallsTypeOK
  <2>2. \A i \in 1 .. Len(program[c]) :
          (Ahead(c, i)' => Ahead(c, i)) /\ (Over(c, i)' => Over(c, i))
    BY <1>1, <2>1 DEF Ahead, Over
  <2>3. QED
    BY <1>1, <1>6, <2>1, <2>2 DEF CallInv, Untouched, Awaits, Takes, Step
<1>7. CASE Works
  BY <1>3, <1>5, <1>6, <1>7 DEF Send
<1>8. CASE ~Works
  BY <1>2, <1>4, <1>8 DEF Send
<1>9. QED
  BY <1>7, <1>8

LEMMA EvaluateInv ==
  ASSUME NEW c \in Call, CallsTypeOK, CallInv(c), Evaluate(c)
  PROVE  CallInv(c)'
<1> USE DEF OfEffect, Settled
<1>1. /\ stage[c] = "sent" /\ stage'[c] \in {"answered", "refused"}
      /\ program'[c] = program[c] /\ at'[c] = at[c] /\ cause'[c] = cause[c] /\ cause[c] = "none"
      /\ late'[c] = late[c] /\ program[c] \in Programs /\ at[c] \in 1 .. Len(program[c])
  BY DEF Evaluate, CallInv, CallsTypeOK
<1>2. \A i \in 1 .. Len(program[c]) :
        /\ Ahead(c, i)' => at[c] < i /\ Ahead(c, i)
        /\ Over(c, i)' => Over(c, i) \/ (i = at[c] /\ stage'[c] = "answered")
  <2>1. at[c] \in Nat
    BY CallNumbers
  <2>2. QED
    BY <1>1, <2>1 DEF Ahead, Over
<1>3. CASE UNCHANGED effects /\ (Step(c) # "act" \/ stage'[c] = "refused")
  <2>1. \A i \in 1 .. Len(program[c]) :
          program[c][i] = "act" /\ Over(c, i)' => effects'[c] = 1
    BY <1>1, <1>2, <1>3 DEF CallInv, Step
  <2>2. QED
    BY <1>1, <1>2, <1>3, <2>1 DEF CallInv, Untouched, Awaits, Takes, Step
<1>4. CASE Step(c) \in {"act", "may"} /\ effects' = [effects EXCEPT ![c] = @ + 1]
  <2>0. /\ Untouched(c)
        /\ \A i \in 1 .. Len(program[c]) : program[c][i] \in OfEffect => i = at[c]
    BY <1>1, <1>4, EffectAhead
  <2>1. effects'[c] = 1 /\ ~late[c]
    <3>1. effects[c] = 0 /\ ~late[c]
      BY <2>0 DEF Untouched
    <3>2. QED
      BY <1>4, <3>1, CallNumbers
  <2>2. \A i \in 1 .. Len(program[c]) : program[c][i] \in OfEffect => ~Ahead(c, i)'
    <3>1. ~(at[c] < at[c])
      BY CallNumbers
    <3>2. QED
      BY <1>2, <2>0, <3>1
  <2>3. program[c][at[c]] \in OfEffect
    BY <1>4 DEF Step
  <2>4. QED
    BY <1>1, <2>0, <2>1, <2>2, <2>3 DEF CallInv, Untouched, Awaits, Takes, Step
<1>5. QED
  BY <1>3, <1>4 DEF Evaluate

LEMMA SettleInv ==
  ASSUME NEW c \in Call, CallsTypeOK, CallInv(c), Answer(c) \/ Forsake(c)
  PROVE  CallInv(c)'
<1> USE DEF OfEffect, Settled
<1>1. /\ stage[c] \in {"sent", "answered", "refused"}
      /\ Keeps(c) /\ program' = program
  BY DEF Answer, Forsake, Keeps
<1>2. CASE Reject(c, "page")
  BY <1>1, <1>2, RejectRejects, RejectsInv
<1>3. CASE Advance(c) /\ Step(c) = "attempt"
  BY <1>1, <1>3, AdvanceMoves, MovesInv
<1>0. Step(c) # "ignore"
  BY <1>1 DEF CallInv
<1>4. CASE Advance(c) /\ stage[c] = "answered"
  BY <1>0, <1>1, <1>4, AdvanceMoves, MovesInv
<1>5. QED
  BY <1>2, <1>3, <1>4 DEF Answer, Forsake

LEMMA TimeOutInv ==
  ASSUME NEW c \in Call, CallsTypeOK, CallInv(c), TimeOut(c)
  PROVE  CallInv(c)'
<1> USE DEF OfEffect, Settled
<1>1. /\ stage[c] = "sent" /\ program' = program /\ effects'[c] = effects[c]
      /\ late'[c] = (Step(c) \in {"act", "may"}) /\ Step(c) # "ignore"
  BY DEF TimeOut, CallsTypeOK, CallInv
<1>2. CASE Step(c) = "attempt"
  <2>1. Moves(c) /\ ~late'[c]
    BY <1>1, <1>2, AdvanceMoves DEF TimeOut
  <2>2. CASE ~late[c]
    <3>1. late'[c] = late[c]
      BY <1>1, <1>2, <2>2 DEF CallsTypeOK
    <3>2. QED
      BY <1>1, <1>2, <2>1, <3>1, MovesInv DEF Keeps
  <2>3. CASE late[c]
    <3>1. effects[c] = 0 /\ cause[c] = "none"
      BY <1>1, <2>3 DEF CallInv
    <3>2. \A i \in 1 .. Len(program[c]) :
            program[c][i] = "act" => ~Over(c, i)
      <4>1. \A i \in 1 .. Len(program[c]) : program[c][i] = "act" /\ Over(c, i) => effects[c] = 1
        BY DEF CallInv
      <4>2. effects[c] # 1
        BY <3>1
      <4>3. QED
        BY <4>1, <4>2
    <3>3. program[c] \in Programs /\ at[c] \in 1 .. Len(program[c])
      BY <1>1 DEF CallInv
    <3>4. Len(program[c]) \in 1 .. 4
      BY <3>3, ProgramsWellFormed DEF WellFormed
    <3>5. at'[c] \in 1 .. Len(program[c])
      BY <2>1, <3>3, <3>4 DEF Moves
    <3>6. \A i \in 1 .. Len(program[c]) : Over(c, i)' => i < at[c] \/ i = at[c]
      BY <2>1, <3>3, <3>4 DEF Moves, Over
    <3>7. \A i \in 1 .. Len(program[c]) : program[c][i] = "act" => ~Over(c, i)'
      BY <1>2, <3>2, <3>6 DEF Over, Step
    <3>8. QED
      BY <1>1, <2>1, <3>1, <3>3, <3>5, <3>7 DEF CallInv, Moves, Untouched, Awaits, Takes, Step
  <2>4. QED
    BY <2>2, <2>3
<1>3. CASE Step(c) # "attempt"
  <2>1. Rejects(c, "timeout")
    BY <1>1, <1>3, RejectRejects DEF TimeOut
  <2>2. program[c] \in Programs /\ at[c] \in 1 .. Len(program[c])
    BY <1>1 DEF CallInv
  <2>3. \A i \in 1 .. Len(program[c]) :
          /\ Ahead(c, i)' => at[c] < i /\ Ahead(c, i)
          /\ Over(c, i)' => Over(c, i)
    BY <2>1 DEF Rejects, Ahead, Over
  <2>4. CASE Step(c) \notin {"act", "may"}
    BY <1>1, <2>1, <2>2, <2>3, <2>4 DEF CallInv, Rejects, Untouched, Awaits, Takes, Step
  <2>5. CASE Step(c) \in {"act", "may"}
    <3>1. /\ Untouched(c)
          /\ \A i \in 1 .. Len(program[c]) : program[c][i] \in OfEffect => i = at[c]
      BY <1>1, <2>5, EffectAhead
    <3>2. ~(at[c] < at[c])
      BY CallNumbers
    <3>3. \A i \in 1 .. Len(program[c]) : program[c][i] \in OfEffect => ~Ahead(c, i)'
      BY <2>3, <3>1, <3>2
    <3>4. program[c][at[c]] \in OfEffect
      BY <2>5 DEF Step
    <3>5. QED
      BY <1>1, <2>1, <2>2, <2>3, <3>1, <3>3, <3>4 DEF CallInv, Rejects, Untouched, Awaits, Takes, Step
  <2>6. QED
    BY <2>4, <2>5
<1>4. QED
  BY <1>2, <1>3

LEMMA FloatInv ==
  ASSUME NEW c \in Call, CallsTypeOK, CallInv(c), Float(c)
  PROVE  CallInv(c)'
<1>1. /\ program'[c] = program[c] /\ at'[c] = at[c] /\ stage'[c] = stage[c]
      /\ cause'[c] = cause[c] /\ late[c] /\ effects[c] = 0 /\ ~late'[c]
  BY DEF Float, CallInv, CallsTypeOK
<1>2. effects'[c] \in {0, 1}
  BY <1>1, CallNumbers DEF Float
<1>3. \A i \in 1 .. Len(program[c]) : (Ahead(c, i)' = Ahead(c, i)) /\ (Over(c, i)' = Over(c, i))
  BY <1>1 DEF Ahead, Over
<1>4. QED
  BY <1>1, <1>2, <1>3 DEF CallInv, Untouched, Awaits, Takes, Step

LEMMA CallStep ==
  ASSUME NEW c \in Call, CallsTypeOK, CallInv(c), CallNext(c)
  PROVE  CallInv(c)'
<1>1. ASSUME NEW p \in Programs, Begin(c, p) PROVE CallInv(c)'
  BY <1>1, BeginInv
<1>2. ASSUME NEW path \in {"dataURI", "file", "folder", "missing"}, ReadPath(c, path)
      PROVE  CallInv(c)'
  BY <1>2, ReadPathInv
<1>3. QED
  BY <1>1, <1>2, InNodeInv, SendInv, EvaluateInv, SettleInv, TimeOutInv, FloatInv
     DEF CallNext, InNode

LEMMA OtherCall ==
  ASSUME NEW c \in Call, NEW d \in Call, d # c, CallsTypeOK, CallNext(c)
  PROVE  Unchanged(d)
<1> USE DEF Unchanged, CallsTypeOK, Advance, Reject, Lose
<1>1. ASSUME NEW p \in Programs, Begin(c, p) PROVE Unchanged(d)
  BY <1>1 DEF Begin
<1>2. ASSUME NEW path, ReadPath(c, path) PROVE Unchanged(d)
  BY <1>2 DEF ReadPath
<1>3. CASE InNode(c)
  BY <1>3 DEF InNode, Request, Download, Check, Verify, Poll, Retry, Pipe
<1>4. CASE Send(c)
  BY <1>4 DEF Send
<1>5. CASE Evaluate(c)
  BY <1>5 DEF Evaluate
<1>6. CASE Answer(c) \/ Forsake(c) \/ TimeOut(c)
  BY <1>6 DEF Answer, Forsake, TimeOut
<1>7. CASE Float(c)
  BY <1>7 DEF Float
<1>8. QED
  BY <1>1, <1>2, <1>3, <1>4, <1>5, <1>6, <1>7 DEF CallNext, InNode

LEMMA CallsTypeStep ==
  ASSUME CallsTypeOK, PageTypeOK, NEW c \in Call, CallInv(c), CallNext(c)
  PROVE  CallsTypeOK'
<1>1. ASSUME NEW p \in Programs, Begin(c, p) PROVE CallsTypeOK'
  BY <1>1 DEF Begin, CallsTypeOK, Settled
<1>2. ASSUME stage[c] # "idle" PROVE at[c] # Len(program[c]) => at[c] + 1 \in 1 .. 5
  <2>1. program[c] \in Programs /\ at[c] \in 1 .. Len(program[c])
    BY <1>2 DEF CallInv
  <2>2. Len(program[c]) \in 1 .. 4
    BY <2>1, ProgramsWellFormed DEF WellFormed
  <2>3. \A n \in 1 .. 4 : \A i \in 1 .. n : i + 1 \in 1 .. 5
    OBVIOUS
  <2>4. QED
    BY <2>1, <2>2, <2>3
<1>3. ASSUME stage[c] # "idle", Advance(c) PROVE
        /\ at' \in [Call -> 1 .. 5] /\ cause' = cause
        /\ stage' \in [Call -> {"idle", "node", "network", "sent", "answered", "refused"} \cup Settled]
  BY <1>2, <1>3 DEF Advance, CallsTypeOK, Settled
<1>4. ASSUME NEW why \in {"input", "page", "unbound", "answer", "timeout"}, Reject(c, why) PROVE
        /\ at' = at /\ cause' \in [Call -> {"none", "input", "page", "unbound", "answer", "timeout"}]
        /\ stage' \in [Call -> {"idle", "node", "network", "sent", "answered", "refused"} \cup Settled]
  BY <1>4 DEF Reject, CallsTypeOK, Settled
<1>5. ASSUME NEW path, ReadPath(c, path) PROVE CallsTypeOK'
  BY <1>3, <1>4, <1>5 DEF ReadPath, Lose, CallsTypeOK, Settled
<1>6. CASE InNode(c)
  <2>1. tries' \in [Call -> Nat]
    BY <1>6, CallNumbers DEF InNode, Request, Download, Check, Verify, Poll, Retry, Pipe
  <2>2. /\ at' \in [Call -> 1 .. 5]
        /\ cause' \in [Call -> {"none", "input", "page", "unbound", "answer", "timeout"}]
        /\ stage' \in [Call -> {"idle", "node", "network", "sent", "answered", "refused"} \cup Settled]
    BY <1>3, <1>4, <1>6
       DEF InNode, Request, Download, Check, Verify, Poll, Retry, Pipe, Lose, CallsTypeOK, Settled
  <2>3. UNCHANGED <<program, origin, late, effects>>
    BY <1>6 DEF InNode, Request, Download, Check, Verify, Poll, Retry, Pipe
  <2>4. QED
    BY <2>1, <2>2, <2>3 DEF CallsTypeOK
<1>7. CASE Send(c)
  BY <1>3, <1>4, <1>7 DEF Send, PageTypeOK, CallsTypeOK, Settled
<1>8. CASE Evaluate(c)
  <2>1. effects' \in [Call -> 0 .. 1]
    <3>1. CASE Step(c) \in {"act", "may"}
      <4>1. Untouched(c)
        BY <1>8, <3>1, EffectAhead DEF Evaluate, OfEffect
      <4>2. QED
        BY <1>8, <4>1, CallNumbers DEF Evaluate, Untouched
    <3>2. QED
      BY <1>8, <3>1, CallNumbers DEF Evaluate
  <2>2. stage' \in [Call -> {"idle", "node", "network", "sent", "answered", "refused"} \cup Settled]
    BY <1>8 DEF Evaluate, CallsTypeOK, Settled
  <2>3. QED
    BY <1>8, <2>1, <2>2 DEF Evaluate, CallsTypeOK
<1>9. CASE Answer(c) \/ Forsake(c) \/ TimeOut(c)
  <2>1. /\ at' \in [Call -> 1 .. 5]
        /\ cause' \in [Call -> {"none", "input", "page", "unbound", "answer", "timeout"}]
        /\ stage' \in [Call -> {"idle", "node", "network", "sent", "answered", "refused"} \cup Settled]
    <3>1. stage[c] # "idle" /\ (Advance(c) \/ Reject(c, "page") \/ Reject(c, "timeout"))
      BY <1>9 DEF Answer, Forsake, TimeOut
    <3>2. at \in [Call -> 1 .. 5]
      BY CallNumbers
    <3>3. CASE Advance(c)
      <4>1. cause \in [Call -> {"none", "input", "page", "unbound", "answer", "timeout"}]
        BY DEF CallsTypeOK
      <4>2. QED
        BY <1>3, <3>1, <3>3, <4>1
    <3>4. CASE Reject(c, "page") \/ Reject(c, "timeout")
      BY <1>4, <3>2, <3>4
    <3>5. QED
      BY <3>1, <3>3, <3>4
  <2>2. late' \in [Call -> BOOLEAN]
    <3>1. \A b \in BOOLEAN : [late EXCEPT ![c] = b] \in [Call -> BOOLEAN]
      BY DEF CallsTypeOK
    <3>2. (Step(c) \in {"act", "may"}) \in BOOLEAN
      OBVIOUS
    <3>3. CASE TimeOut(c)
      BY <3>1, <3>2, <3>3 DEF TimeOut
    <3>4. CASE UNCHANGED late
      BY <3>4 DEF CallsTypeOK
    <3>5. QED
      BY <1>9, <3>3, <3>4 DEF Answer, Forsake
  <2>3. UNCHANGED <<program, tries, origin, effects>>
    BY <1>9 DEF Answer, Forsake, TimeOut
  <2>4. QED
    BY <2>1, <2>2, <2>3 DEF CallsTypeOK
<1>10. CASE Float(c)
  <2>1. effects[c] = 0
    BY <1>10 DEF Float, CallInv
  <2>2. effects' \in [Call -> 0 .. 1]
    BY <1>10, <2>1, CallNumbers DEF Float
  <2>3. QED
    BY <1>10, <2>2 DEF Float, CallsTypeOK
<1>11. QED
  BY <1>1, <1>5, <1>6, <1>7, <1>8, <1>9, <1>10 DEF CallNext, InNode

-----------------------------------------------------------------------------
(* The login of the client.  A login that failed has asked for the page to   *)
(* close, and nothing opens a page that is closing.                          *)

LoginInv ==
  /\ LoginTypeOK
  /\ FailedIsClosed
  /\ LoggedStopsTimer
  /\ NoLoginYet

LEMMA LoginInvPage ==
  ASSUME LoginInv, PageTypeOK, PageNext, UNCHANGED loginVars
  PROVE  LoginInv'
<1>1. page' = "blank" => page = "blank"
  BY DEF PageNext, Load, Configure, CheckInjected, AddScripts, ClosePage, AskClose
<1>2. page \in {"closing", "closed"} => page' \in {"closing", "closed"}
  BY DEF PageNext, Load, Configure, CheckInjected, AddScripts, ClosePage, AskClose
<1>3. QED
  BY <1>1, <1>2 DEF LoginInv, LoginTypeOK, FailedIsClosed, LoggedStopsTimer, NoLoginYet, loginVars

LEMMA CloseOpenPageStep ==
  ASSUME PageTypeOK, page # "blank", CloseOpenPage
  PROVE  PageTypeOK' /\ page' \in {"closing", "closed"} /\ autoClose' = FALSE
BY DEF PageTypeOK, CloseOpenPage

LEMMA PhoneStep ==
  ASSUME LoginInv, Phone, page' = page
  PROVE  LoginInv'
<1> USE LoginAssumption DEF LoginTypeOK, watchVars
<1>1. UNCHANGED <<login, autoClose, isLogged, isInChat, hook, connected>>
  BY DEF Phone, Scan, Synchronise, Unpair
<1>2. FailedIsClosed' /\ LoggedStopsTimer' /\ NoLoginYet'
  BY <1>1 DEF LoginInv, FailedIsClosed, LoggedStopsTimer, NoLoginYet
<1>3. CASE Scan
  BY <1>1, <1>2, <1>3 DEF LoginInv, Scan, checkVars
<1>4. CASE Synchronise
  BY <1>1, <1>2, <1>4 DEF LoginInv, Synchronise
<1>5. CASE Unpair
  <2>1. unpairs' \in 0 .. MaxUnpairs
    BY <1>5 DEF LoginInv, Unpair
  <2>2. QED
    BY <1>1, <1>2, <1>5, <2>1 DEF LoginInv, Unpair
<1>6. QED
  BY <1>3, <1>4, <1>5 DEF Phone

\* The fields that the steps of waitForLogin may write.
LEMMA LoginTypes ==
  ASSUME LoginTypeOK, login' \in Waiting \cup {"start", "logged", "failed"},
         autoClose' \in BOOLEAN, isLogged' \in BOOLEAN, isInChat' \in BOOLEAN,
         UNCHANGED <<accountVars, hook, checkVars, watchVars>>
  PROVE  LoginTypeOK'
BY DEF LoginTypeOK, accountVars, checkVars, watchVars

\* After the page was loaded, the promises are about the end of a login.
LEMMA LoginPromises ==
  ASSUME LoginTypeOK', page' # "blank",
         login' = "failed" => page' \in {"closing", "closed"},
         login' = "logged" => ~autoClose'
  PROVE  LoginInv'
BY DEF LoginInv, FailedIsClosed, LoggedStopsTimer, NoLoginYet

LEMMA ChecksStep ==
  ASSUME LoginInv, Checks, page' = page
  PROVE  LoginInv'
<1> USE DEF accountVars, watchVars
<1>1. UNCHANGED <<account, unpairs, login, autoClose, connected, noticed>>
  BY DEF Checks, HookHost, CheckInChat, CheckQrCode
<1>2. FailedIsClosed' /\ LoggedStopsTimer' /\ NoLoginYet'
  BY <1>1 DEF LoginInv, FailedIsClosed, LoggedStopsTimer, NoLoginYet
<1>3. hook' \in [Documents -> {"none", "host", "done"}]
  BY DEF Checks, HookHost, CheckInChat, CheckQrCode, LoginInv, LoginTypeOK
<1>4. isLogged' \in BOOLEAN /\ isInChat' \in BOOLEAN
  BY DEF Checks, HookHost, CheckInChat, CheckQrCode, LoginInv, LoginTypeOK
<1>5. chatCheck' \in BOOLEAN /\ qrCheck' \in BOOLEAN
  BY DEF Checks, HookHost, CheckInChat, CheckQrCode, LoginInv, LoginTypeOK
<1>6. LoginTypeOK'
  BY <1>1, <1>3, <1>4, <1>5 DEF LoginInv, LoginTypeOK
<1>7. QED
  BY <1>2, <1>6 DEF LoginInv

LEMMA LoginInvStep ==
  ASSUME LoginInv, PageTypeOK, LoginNext
  PROVE  LoginInv' /\ PageTypeOK'
<1>1. UNCHANGED pageVars => PageTypeOK' /\ page' = page
  BY DEF pageVars, PageTypeOK
<1>2. login # "start" \/ autoClose => page # "blank"
  BY DEF LoginInv, NoLoginYet
<1>3. LoginTypeOK /\ FailedIsClosed /\ LoggedStopsTimer
  BY DEF LoginInv
<1>4. login \in Waiting \cup {"start", "logged", "failed"} /\ autoClose \in BOOLEAN
  BY <1>3 DEF LoginTypeOK
<1>5. isLogged \in BOOLEAN /\ isInChat \in BOOLEAN
  BY <1>3 DEF LoginTypeOK
<1>6. CASE Phone /\ UNCHANGED pageVars
  BY <1>1, <1>6, PhoneStep
<1>7. CASE Checks /\ UNCHANGED pageVars
  BY <1>1, <1>7, ChecksStep
<1>8. CASE AutoCloseEnds
  <2>1. UNCHANGED <<accountVars, login, isLogged, isInChat, hook, checkVars, watchVars>>
    BY <1>8 DEF AutoCloseEnds
  <2>2. PageTypeOK' /\ page' \in {"closing", "closed"} /\ autoClose' = FALSE
    BY <1>2, <1>8, CloseOpenPageStep DEF AutoCloseEnds
  <2>3. LoginTypeOK'
    BY <1>3, <1>4, <1>5, <2>1, <2>2, LoginTypes
  <2>4. QED
    BY <2>2, <2>3, LoginPromises
<1>9. ASSUME UNCHANGED <<accountVars, hook, checkVars, watchVars>>, page # "blank",
             login' \in Waiting, autoClose' \in BOOLEAN, isLogged' \in BOOLEAN,
             UNCHANGED <<isInChat, pageVars>>
      PROVE  LoginInv' /\ PageTypeOK'
  <2>1. isInChat' \in BOOLEAN
    BY <1>5, <1>9
  <2>2. LoginTypeOK'
    BY <1>3, <1>9, <2>1, LoginTypes
  <2>3. login' # "failed" /\ login' # "logged"
    BY <1>9 DEF Waiting
  <2>4. page' # "blank"
    BY <1>1, <1>9
  <2>5. QED
    BY <1>1, <1>9, <2>2, <2>3, <2>4, LoginPromises
<1>10. ASSUME UNCHANGED <<accountVars, hook, checkVars, watchVars>>, page # "blank", Fail,
              UNCHANGED <<isLogged, isInChat>>
       PROVE  LoginInv' /\ PageTypeOK'
  <2>1. PageTypeOK' /\ page' \in {"closing", "closed"} /\ autoClose' = FALSE /\ login' = "failed"
    BY <1>10, CloseOpenPageStep DEF Fail
  <2>2. isLogged' \in BOOLEAN /\ isInChat' \in BOOLEAN
    BY <1>5, <1>10
  <2>3. LoginTypeOK'
    BY <1>3, <1>10, <2>1, <2>2, LoginTypes
  <2>4. QED
    BY <2>1, <2>3, LoginPromises
<1>11. ASSUME UNCHANGED <<accountVars, hook, checkVars, watchVars>>, page # "blank",
              login' = "logged", autoClose' = FALSE, isInChat' \in BOOLEAN,
              UNCHANGED <<isLogged, pageVars>>
       PROVE  LoginInv' /\ PageTypeOK'
  <2>1. isLogged' \in BOOLEAN
    BY <1>5, <1>11
  <2>2. LoginTypeOK'
    BY <1>3, <1>11, <2>1, LoginTypes
  <2>3. QED
    BY <1>1, <1>11, <2>2, LoginPromises
<1>12. CASE BeginLogin
  BY <1>2, <1>4, <1>5, <1>9, <1>12 DEF BeginLogin, Waiting
<1>13. CASE PageLoaded \/ PollScan
  BY <1>2, <1>4, <1>5, <1>9, <1>13 DEF PageLoaded, PollScan, Waiting
<1>14. CASE Authenticate
  BY <1>2, <1>5, <1>9, <1>10, <1>14 DEF Authenticate, Registered, Waiting
<1>15. CASE Scanned
  BY <1>2, <1>5, <1>9, <1>10, <1>15 DEF Scanned, Waiting
<1>16. CASE BeginSync
  BY <1>2, <1>5, <1>9, <1>10, <1>16 DEF BeginSync, Waiting
<1>17. CASE PollInChat
  <2>1. UNCHANGED <<accountVars, isLogged, hook, checkVars, watchVars>> /\ page # "blank"
    BY <1>2, <1>17 DEF PollInChat
  <2>2. CASE Fail /\ UNCHANGED isInChat
    BY <1>10, <2>1, <2>2
  <2>3. CASE login' = "logged" /\ autoClose' = FALSE /\ UNCHANGED pageVars /\ isInChat' \in {isInChat, TRUE}
    BY <1>5, <1>11, <2>1, <2>3
  <2>4. QED
    BY <1>17, <2>2, <2>3 DEF PollInChat
<1>18. QED
  BY <1>6, <1>7, <1>8, <1>12, <1>13, <1>14, <1>15, <1>16, <1>17 DEF LoginNext, LoginStep

LEMMA WatchInvStep ==
  ASSUME LoginInv, PageTypeOK, WatchNext
  PROVE  LoginInv' /\ PageTypeOK'
<1>1. PageTypeOK' /\ page' = page
  BY DEF WatchNext, pageVars, PageTypeOK
<1>2. CASE Phone
  BY <1>1, <1>2, PhoneStep
<1>3. ASSUME NEW d \in Documents, HookHost(d) PROVE LoginInv'
  BY <1>1, <1>3, ChecksStep DEF Checks
<1>4. ASSUME UNCHANGED <<accountVars, login, isLogged, isInChat, autoClose, checkVars>>,
             hook' \in [Documents -> {"none", "host", "done"}],
             connected' \in {"null", "yes", "no"}, noticed' \in {"no", "timer", "told"}
      PROVE  LoginInv'
  <2>1. LoginTypeOK'
    BY <1>4 DEF LoginInv, LoginTypeOK, accountVars, checkVars
  <2>2. FailedIsClosed' /\ LoggedStopsTimer' /\ NoLoginYet'
    BY <1>1, <1>4 DEF LoginInv, FailedIsClosed, LoggedStopsTimer, NoLoginYet
  <2>3. QED
    BY <2>1, <2>2 DEF LoginInv
<1>5. /\ hook \in [Documents -> {"none", "host", "done"}]
      /\ connected \in {"null", "yes", "no"} /\ noticed \in {"no", "timer", "told"}
  BY DEF LoginInv, LoginTypeOK
<1>6. ASSUME NEW d \in Documents, HookClient(d) PROVE LoginInv'
  <2>1. connected' \in {"null", "yes", "no"}
    BY <1>5, <1>6 DEF HookClient, Registered
  <2>2. hook' \in [Documents -> {"none", "host", "done"}]
    BY <1>5, <1>6 DEF HookClient
  <2>3. QED
    BY <1>4, <1>5, <1>6, <2>1, <2>2 DEF HookClient
<1>7. CASE Watch
  <2>1. Registered \in {"null", "no", "yes"}
    BY DEF Registered
  <2>2. connected' \in {"null", "yes", "no"} /\ noticed' \in {"no", "timer", "told"}
    BY <1>5, <1>7, <2>1 DEF Watch
  <2>3. UNCHANGED <<accountVars, login, isLogged, isInChat, autoClose, hook, checkVars>>
    BY <1>7 DEF Watch
  <2>4. hook' \in [Documents -> {"none", "host", "done"}]
    BY <1>5, <2>3
  <2>5. QED
    BY <1>1, <1>4, <2>2, <2>3, <2>4
<1>8. CASE TellUnpaired
  <2>1. noticed' \in {"no", "timer", "told"}
    BY <1>8 DEF TellUnpaired
  <2>2. UNCHANGED <<accountVars, login, isLogged, isInChat, autoClose, hook, checkVars, connected>>
    BY <1>8 DEF TellUnpaired
  <2>3. /\ hook' \in [Documents -> {"none", "host", "done"}]
        /\ connected' \in {"null", "yes", "no"}
    BY <1>5, <2>2
  <2>4. QED
    BY <1>1, <1>4, <2>1, <2>2, <2>3
<1>9. QED
  BY <1>1, <1>2, <1>3, <1>6, <1>7, <1>8 DEF WatchNext

-----------------------------------------------------------------------------
(* The page and its layers together.                                         *)

AllCalls == \A c \in Call : CallInv(c)

PageInv ==
  /\ PageTypeOK /\ PageHasDocument
  /\ CallsTypeOK /\ AllCalls
  /\ LoginInv
  /\ AttachInv /\ HearInv

LEMMA CallsInvStep ==
  ASSUME CallsTypeOK, AllCalls, PageTypeOK, CallsNext
  PROVE  CallsTypeOK' /\ AllCalls'
<1>1. PICK c \in Call : CallNext(c)
  BY DEF CallsNext
<1>2. CallsTypeOK'
  BY <1>1, CallsTypeStep DEF AllCalls
<1>3. ASSUME NEW d \in Call PROVE CallInv(d)'
  BY <1>1, CallStep, OtherCall, UnchangedCall DEF AllCalls
<1>4. QED
  BY <1>2, <1>3 DEF AllCalls

LEMMA PageInvInit == Init => PageInv
<1> SUFFICES ASSUME Init PROVE PageInv
  OBVIOUS
<1>1. PageTypeOK /\ PageHasDocument
  <2>1. page = "blank" /\ document = 0 /\ scripted = FALSE /\ isInjected = FALSE
    BY DEF Init, PageInit
  <2>2. chain \in [Documents -> {"none", "config", "check", "script", "injected", "failed"}]
    BY DEF Init, PageInit
  <2>3. document \in 0 .. MaxLoads
    BY <2>1, PageAssumption
  <2>4. QED
    BY <2>1, <2>2, <2>3 DEF PageTypeOK, PageHasDocument
<1>2. CallsTypeOK
  BY PageAssumption DEF Init, CallsInit, CallsTypeOK, Settled
<1>3. ASSUME NEW c \in Call PROVE CallInv(c)
  <2>1. /\ program[c] = <<>> /\ at[c] = 1 /\ stage[c] = "idle" /\ cause[c] = "none"
        /\ effects[c] = 0 /\ ~late[c]
    BY DEF Init, CallsInit
  <2>2. QED
    BY <2>1 DEF CallInv, Over, Untouched
<1>4. LoginInv
  <2>1. LoginInit
    BY DEF Init
  <2>2. hook \in [Documents -> {"none", "host", "done"}] /\ unpairs \in 0 .. MaxUnpairs
    BY <2>1, LoginAssumption DEF LoginInit
  <2>3. LoginTypeOK
    BY <2>1, <2>2 DEF LoginInit, LoginTypeOK, Waiting
  <2>4. FailedIsClosed /\ LoggedStopsTimer /\ NoLoginYet
    BY <2>1 DEF LoginInit, FailedIsClosed, LoggedStopsTimer, NoLoginYet
  <2>5. QED
    BY <2>3, <2>4 DEF LoginInv
<1>5. AttachInv /\ HearInv
  BY ListenerInvInit DEF Init
<1>6. QED
  BY <1>1, <1>2, <1>3, <1>4, <1>5 DEF PageInv, AllCalls

LEMMA RestingLayers ==
  /\ CallsTypeOK /\ AllCalls /\ UNCHANGED callVars => CallsTypeOK' /\ AllCalls'
  /\ LoginInv /\ UNCHANGED <<loginVars, page>> => LoginInv'
  /\ AttachInv /\ HearInv /\ UNCHANGED listenerVars => AttachInv' /\ HearInv'
  /\ PageTypeOK /\ PageHasDocument /\ UNCHANGED pageVars => PageTypeOK' /\ PageHasDocument'
<1>1. CallsTypeOK /\ AllCalls /\ UNCHANGED callVars => CallsTypeOK' /\ AllCalls'
  <2>1. UNCHANGED callVars => \A c \in Call : Unchanged(c)
    BY DEF callVars, Unchanged
  <2>2. AllCalls /\ UNCHANGED callVars => AllCalls'
    BY <2>1, UnchangedCall DEF AllCalls
  <2>3. CallsTypeOK /\ UNCHANGED callVars => CallsTypeOK'
    BY DEF CallsTypeOK, callVars
  <2>4. QED
    BY <2>2, <2>3
<1>2. LoginInv /\ UNCHANGED <<loginVars, page>> => LoginInv'
  BY DEF LoginInv, LoginTypeOK, FailedIsClosed, LoggedStopsTimer, NoLoginYet, loginVars
<1>3. AttachInv /\ UNCHANGED listenerVars => AttachInv'
  BY DEF AttachInv, MarkedOnce, BeingExposed, listenerVars, attachVars
<1>4. HearInv /\ UNCHANGED listenerVars => HearInv'
  BY DEF HearInv, WireInOrder, HeardBeforeWire, HeardInOrder, listenerVars, hearVars
<1>5. PageTypeOK /\ PageHasDocument /\ UNCHANGED pageVars => PageTypeOK' /\ PageHasDocument'
  BY DEF PageTypeOK, PageHasDocument, pageVars
<1>6. QED
  BY <1>1, <1>2, <1>3, <1>4, <1>5

\* A login asks for the page to close: the number of its document stays.
LEMMA LoginKeepsDocument ==
  ASSUME PageTypeOK, PageHasDocument, LoginInv, LoginNext
  PROVE  PageHasDocument'
<1>1. UNCHANGED pageVars \/ CloseOpenPage
  BY DEF LoginNext, LoginStep, BeginLogin, PageLoaded, PollScan, Authenticate, Scanned,
         BeginSync, PollInChat, AutoCloseEnds, Fail, Registered
<1>2. document' = document
  BY <1>1 DEF CloseOpenPage, pageVars
<1>3. CASE page # "blank"
  BY <1>2, <1>3 DEF PageHasDocument, Documents
<1>4. CASE page = "blank"
  <2>1. login = "start" /\ ~autoClose
    BY <1>4 DEF LoginInv, NoLoginYet
  <2>2. UNCHANGED pageVars
    BY <2>1 DEF LoginNext, LoginStep, BeginLogin, PageLoaded, PollScan, Authenticate, Scanned,
                BeginSync, PollInChat, AutoCloseEnds
  <2>3. QED
    BY <1>4, <2>2 DEF PageHasDocument, pageVars
<1>5. QED
  BY <1>3, <1>4

LEMMA PageInvStep == PageInv /\ [Next]_vars => PageInv'
<1> SUFFICES ASSUME PageInv, [Next]_vars PROVE PageInv'
  OBVIOUS
<1> USE DEF PageInv
<1>1. CASE PageNext /\ UNCHANGED <<callVars, loginVars, listenerVars>>
  BY <1>1, PageTypeStep, PageDocumentStep, LoginInvPage, RestingLayers
<1>2. CASE CallsNext /\ UNCHANGED <<loginVars, listenerVars>>
  <2>1. UNCHANGED pageVars /\ UNCHANGED page
    BY <1>2 DEF CallsNext, pageVars
  <2>2. QED
    BY <1>2, <2>1, CallsInvStep, RestingLayers
<1>3. CASE LoginNext /\ UNCHANGED <<callVars, listenerVars>>
  BY <1>3, LoginInvStep, LoginKeepsDocument, RestingLayers
<1>4. CASE WatchNext /\ UNCHANGED <<callVars, listenerVars>>
  <2>1. UNCHANGED pageVars
    BY <1>4 DEF WatchNext
  <2>2. QED
    BY <1>4, <2>1, WatchInvStep, RestingLayers
<1>5. CASE ListenerNext /\ UNCHANGED <<callVars, loginVars>>
  <2>1. UNCHANGED pageVars /\ UNCHANGED page
    BY <1>5 DEF ListenerNext, pageVars
  <2>2. QED
    BY <1>5, <2>1, ListenerInvStep, RestingLayers
<1>6. CASE UNCHANGED vars
  <2>1. UNCHANGED <<pageVars, callVars, loginVars, listenerVars, page>>
    BY <1>6 DEF vars, pageVars
  <2>2. QED
    BY <2>1, RestingLayers
<1>7. QED
  BY <1>1, <1>2, <1>3, <1>4, <1>5, <1>6 DEF Next

\* A set of which no two members differ has none or one.
LEMMA CountOnce ==
  ASSUME NEW K, \A i, j \in K : i = j
  PROVE  \/ K = {} /\ Cardinality(K) = 0
         \/ K # {} /\ Cardinality(K) = 1
<1>1. CASE K = {}
  BY <1>1, FS_EmptySet
<1>2. ASSUME NEW i \in K PROVE Cardinality(K) = 1
  <2>1. K = {i}
    OBVIOUS
  <2>2. QED
    BY <2>1, FS_Singleton
<1>3. QED
  BY <1>1, <1>2

LEMMA ResolvedCall ==
  ASSUME PageInv, NEW c \in Call, stage[c] = "resolved", Awaits(c)
  PROVE  Acts(c) <= effects[c] /\ effects[c] <= Acts(c) + Mays(c)
<1> DEFINE p == program[c]
           A == {i \in 1 .. Len(p) : p[i] = "act"}
           M == {i \in 1 .. Len(p) : p[i] = "may"}
<1>1. /\ p \in Programs /\ at[c] \in 1 .. Len(p) /\ at[c] = Len(p)
      /\ CallInv(c) /\ CallsTypeOK
  BY DEF PageInv, AllCalls, CallInv
<1>2. WellFormed(p) /\ Len(p) \in Nat
  BY <1>1, ProgramsWellFormed DEF WellFormed
<1>3. effects[c] \in 0 .. 1
  BY <1>1, CallNumbers
<1>4. /\ (A = {} /\ Acts(c) = 0) \/ (A # {} /\ Acts(c) = 1)
      /\ (M = {} /\ Mays(c) = 0) \/ (M # {} /\ Mays(c) = 1)
  <2>1. \A i, j \in 1 .. Len(p) : p[i] \in OfEffect /\ p[j] \in OfEffect => i = j
    BY <1>2 DEF WellFormed
  <2>2. \A i, j \in A : i = j
    BY <2>1 DEF OfEffect
  <2>3. \A i, j \in M : i = j
    BY <2>1 DEF OfEffect
  <2>4. Acts(c) = Cardinality(A) /\ Mays(c) = Cardinality(M)
    BY DEF Acts, Mays
  <2> HIDE DEF A, M
  <2>5. (A = {} /\ Cardinality(A) = 0) \/ (A # {} /\ Cardinality(A) = 1)
    BY <2>2, CountOnce
  <2>6. (M = {} /\ Cardinality(M) = 0) \/ (M # {} /\ Cardinality(M) = 1)
    BY <2>3, CountOnce
  <2>7. QED
    BY <2>4, <2>5, <2>6
<1>5. CASE A = {} /\ M = {}
  <2>1. \A i \in 1 .. Len(p) : p[i] \notin OfEffect
    BY <1>5 DEF Awaits, Takes, OfEffect
  <2>2. effects[c] = 0
    BY <1>1, <2>1 DEF CallInv, Untouched
  <2>3. QED
    BY <1>4, <1>5, <2>2
<1>6. CASE A # {}
  <2>1. PICK i \in 1 .. Len(p) : p[i] = "act"
    BY <1>6
  <2>2. Over(c, i)
    BY <1>1, <1>2 DEF Over
  <2>3. effects[c] = 1
    BY <1>1, <2>1, <2>2 DEF CallInv
  <2>4. QED
    BY <1>4, <1>6, <2>3
<1>7. CASE A = {} /\ M # {}
  BY <1>3, <1>4, <1>7
<1>8. QED
  BY <1>5, <1>6, <1>7

LEMMA PageInvPromises ==
  ASSUME PageInv
  PROVE  PageIsSound /\ ResolvedHadEffect /\ HeardInOrder
<1>1. RefusedHadNone
  BY DEF PageInv, AllCalls, CallInv, RefusedHadNone, Untouched
<1>2. PageIsSound
  BY <1>1, ListenerInvTypes DEF PageInv, LoginInv, PageIsSound
<1>3. ResolvedHadEffect
  BY ResolvedCall DEF ResolvedHadEffect
<1>4. QED
  BY <1>2, <1>3 DEF PageInv, HearInv

\* The page, the calls, the login and the listeners stay as they agree (PageInv).
THEOREM PageInvariant == Spec => []PageInv
BY PageInvInit, PageInvStep, PTL DEF Spec

\* What a refused call has not done, what a failed login has closed, which timer a login
\* has stopped: for any number of documents, calls, unpairings and events
\* (host.layer.ts:257-432, helpers/evaluate-and-return.ts:28).
THEOREM PageSound == Spec => []PageIsSound
BY PageInvariant, PageInvPromises, PTL

\* A method that awaits its effect and resolves has had it, once: no way through the steps
\* of any method skips the effect or has it twice, but for the methods whose page function
\* may answer without it (sender.layer.ts, helpers/evaluate-and-return.ts:28).
THEOREM ResolvedEffect == Spec => []ResolvedHadEffect
BY PageInvariant, PageInvPromises, PTL

\* A callback is called with the events in the order the page told them, and with none
\* twice, however many documents come and go (listener.layer.ts:97-120).
THEOREM HeardOrder == Spec => []HeardInOrder
BY PageInvariant, PageInvPromises, PTL

LEMMA QuietStep ==
  ASSUME PageInv, [Next]_vars, NEW c \in Call, stage[c] \in Settled, effects'[c] # effects[c]
  PROVE  cause[c] = "timeout" \/ ~Awaits(c)
<1>1. CallInv(c) /\ CallsTypeOK
  BY DEF PageInv, AllCalls
<1>2. CallsNext
  BY DEF Next, vars, callVars
<1>3. PICK d \in Call : CallNext(d)
  BY <1>2 DEF CallsNext
<1>4. c = d
  BY <1>1, <1>3, OtherCall DEF Unchanged
<1>5. late[c]
  <2>1. CASE Float(c)
    BY <2>1 DEF Float
  <2>2. CASE Evaluate(c)
    BY <2>2 DEF Evaluate, Settled
  <2>3. CASE effects' = effects
    BY <2>3
  <2>4. QED
    BY <1>3, <1>4, <2>1, <2>2, <2>3
       DEF CallNext, Begin, ReadPath, Request, Download, Check, Verify, Poll, Retry, Pipe, Send,
           Answer, Forsake, TimeOut
<1>6. QED
  BY <1>1, <1>5 DEF CallInv

\* The account changes after a call settled only when the call timed out or did not wait for
\* its effect (helpers/evaluate-and-return.ts:28).
THEOREM SettledQuiet == Spec => SettledIsQuiet
<1>1. PageInv /\ [Next]_vars =>
        [\A c \in Call : stage[c] \in Settled /\ effects'[c] # effects[c] =>
           cause[c] = "timeout" \/ ~Awaits(c)]_callVars
  BY QuietStep
<1>2. QED
  BY PageInvariant, <1>1, PTL DEF Spec, SettledIsQuiet
==============================================================================
