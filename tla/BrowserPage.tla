------------------------------ MODULE BrowserPage ------------------------------
(***************************************************************************)
(* The puppeteer page of a client (src/api/layers/host.layer.ts and        *)
(* src/controllers/browser.ts) as every layer of the client sees it: the   *)
(* document of the page is replaced at each load, each load starts a chain *)
(* afterPageLoad that injects the scripts WPP and WAPI, and nothing stops  *)
(* the chain of the previous document.  The layers HostLogin,              *)
(* ListenerLayer and PageCalls build on it.                                *)
(***************************************************************************)
EXTENDS Naturals

CONSTANT MaxLoads  \* bound: the number of documents the page loads

ASSUME PageAssumption == MaxLoads \in Nat

VARIABLES
  page,        \* "blank" before goto, "open", "closing", "closed"
  document,    \* the number of the current document
  scripted,    \* WPP and WAPI are defined in the current document
  chain,       \* chain[d]: how far afterPageLoad of document d is
  isInjected   \* the field of HostLayer

pageVars == <<page, document, scripted, chain, isInjected>>

Documents == 1 .. MaxLoads

PageTypeOK ==
  /\ page \in {"blank", "open", "closing", "closed"}
  /\ document \in 0 .. MaxLoads
  /\ scripted \in BOOLEAN
  /\ chain \in [Documents -> {"none", "config", "check", "script", "injected", "failed"}]
  /\ isInjected \in BOOLEAN

PageInit ==
  /\ page = "blank"
  /\ document = 0
  /\ scripted = FALSE
  /\ chain = [d \in Documents |-> "none"]
  /\ isInjected = FALSE

Alive == page \in {"open", "closing"}

\* Code that uses WPP or WAPI runs in the page: it fails in a document without them.
Works == Alive /\ scripted

\* start() navigates (goto, MaxLoads > 0); later loads are the web client's own.
Load ==
  /\ page \in {"blank", "open"}
  /\ document < MaxLoads
  /\ page' = "open"
  /\ document' = document + 1
  /\ scripted' = FALSE
  /\ chain' = [chain EXCEPT ![document + 1] = "config"]
  /\ UNCHANGED isInjected

\* The first evaluate of afterPageLoad runs in whatever document is current; it is
\* rejected when the document goes away, and then nothing catches it.
Configure(d) ==
  /\ chain[d] = "config"
  /\ \/ /\ Alive
        /\ isInjected' = FALSE
        /\ chain' = [chain EXCEPT ![d] = "check"]
     \/ /\ page = "closed" \/ d # document
        /\ chain' = [chain EXCEPT ![d] = "failed"]
        /\ UNCHANGED isInjected
  /\ UNCHANGED <<page, document, scripted>>

\* injectApi returns at once when the current document has the scripts.
CheckInjected(d) ==
  /\ chain[d] = "check"
  /\ IF Works
     THEN /\ chain' = [chain EXCEPT ![d] = "injected"]
          /\ isInjected' = TRUE
     ELSE /\ chain' = [chain EXCEPT ![d] = "script"]
          /\ UNCHANGED isInjected
  /\ UNCHANGED <<page, document, scripted>>

\* The scripts are added to the current document and waited for.  addScriptTag may be
\* rejected, which is logged; a document that goes away during the last wait is
\* ignored, and the chain goes on as if the new document had the scripts.
AddScripts(d) ==
  /\ chain[d] = "script"
  /\ \/ /\ Alive
        /\ scripted' = TRUE
        /\ isInjected' = TRUE
        /\ chain' = [chain EXCEPT ![d] = "injected"]
     \/ /\ page = "closed" \/ d # document
        /\ isInjected' = TRUE
        /\ chain' = [chain EXCEPT ![d] = "injected"]
        /\ UNCHANGED scripted
     \/ /\ chain' = [chain EXCEPT ![d] = "failed"]
        /\ UNCHANGED <<isInjected, scripted>>
  /\ UNCHANGED <<page, document>>

\* page.close() takes effect after the call that asked for it returned.
ClosePage ==
  /\ page = "closing"
  /\ page' = "closed"
  /\ scripted' = FALSE
  /\ UNCHANGED <<document, chain, isInjected>>

\* close of the client, or the browser going away.
AskClose ==
  /\ page = "open"
  /\ page' = "closing"
  /\ UNCHANGED <<document, scripted, chain, isInjected>>

PageNext ==
  \/ Load
  \/ \E d \in Documents : Configure(d) \/ CheckInjected(d) \/ AddScripts(d)
  \/ ClosePage
  \/ AskClose

PageFairness ==
  /\ \A d \in Documents : WF_pageVars(Configure(d) \/ CheckInjected(d) \/ AddScripts(d))
  /\ WF_pageVars(ClosePage)
==============================================================================
