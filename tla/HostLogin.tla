------------------------------- MODULE HostLogin -------------------------------
(***************************************************************************)
(* HostLayer (src/api/layers/host.layer.ts), the constructor of Whatsapp   *)
(* (src/api/whatsapp.ts) and create (src/controllers/initializer.ts): the  *)
(* login of a client.  waitForLogin polls the page beside a timer that     *)
(* closes it, checkQrCode and checkInChat run when a document was injected *)
(* and when the page says so, and a poll each second looks for an unpaired *)
(* account.  The account (scanned, synchronised, unpaired) is the phone's. *)
(* autoClose and deviceSyncTimeout are positive, as by default.            *)
(***************************************************************************)
EXTENDS BrowserPage

CONSTANT MaxUnpairs  \* bound: how often the phone unpairs the account

ASSUME LoginAssumption == MaxUnpairs \in Nat

VARIABLES
  account,    \* "unpaired", "paired" (isRegistered), "chat" (isMainReady too)
  unpairs,    \* how often the account was unpaired
  login,      \* where waitForLogin is, or how it ended
  isLogged,   \* the field of HostLayer
  isInChat,   \* the field of HostLayer
  autoClose,  \* the interval of startAutoClose is set
  hook,       \* hook[d]: afterPageScriptInjected of d: "none", "host", "done"
  chatCheck,  \* an execution of checkInChat is under way
  qrCheck,    \* an execution of checkQrCode is under way
  connected,  \* the field of Whatsapp: "null", "yes", "no"
  noticed     \* 'desconnectedMobile' for this unpairing: "no", "timer", "told"

loginVars == <<account, unpairs, login, isLogged, isInChat, autoClose, hook,
               chatCheck, qrCheck, connected, noticed>>

accountVars == <<account, unpairs>>
watchVars == <<connected, noticed>>
checkVars == <<chatCheck, qrCheck>>

Waiting == {"load", "auth", "scan", "scanned", "sync", "chat"}

LoginTypeOK ==
  /\ account \in {"unpaired", "paired", "chat"}
  /\ unpairs \in 0 .. MaxUnpairs
  /\ login \in Waiting \cup {"start", "logged", "failed"}
  /\ isLogged \in BOOLEAN /\ isInChat \in BOOLEAN
  /\ autoClose \in BOOLEAN
  /\ hook \in [Documents -> {"none", "host", "done"}]
  /\ chatCheck \in BOOLEAN /\ qrCheck \in BOOLEAN
  /\ connected \in {"null", "yes", "no"} /\ noticed \in {"no", "timer", "told"}

LoginInit ==
  /\ account \in {"unpaired", "paired", "chat"}
  /\ unpairs = 0
  /\ login = "start"
  /\ isLogged = FALSE /\ isInChat = FALSE /\ autoClose = FALSE
  /\ hook = [d \in Documents |-> "none"]
  /\ chatCheck = FALSE /\ qrCheck = FALSE
  /\ connected = "null" /\ noticed = "no"

\* isRegistered, asked in the page; an error is answered with null.
Registered == IF ~Works THEN "null" ELSE IF account = "unpaired" THEN "no" ELSE "yes"

-----------------------------------------------------------------------------
(* The phone.  The page tells of a new code and of the end of the            *)
(* synchronisation through functions that start() exposes only after goto:   *)
(* a document injected before that does not tell.                            *)

Scan ==
  /\ account = "unpaired" /\ Works
  /\ account' = "paired"
  /\ noticed' = IF noticed = "told" THEN "no" ELSE noticed
  /\ UNCHANGED <<unpairs, login, isLogged, isInChat, autoClose, hook, checkVars, connected>>

Synchronise ==
  /\ account = "paired" /\ Works
  /\ account' = "chat"
  /\ chatCheck' \in {chatCheck, TRUE}
  /\ UNCHANGED <<unpairs, login, isLogged, isInChat, autoClose, hook, qrCheck, watchVars>>

Unpair ==
  /\ account # "unpaired" /\ Works /\ unpairs < MaxUnpairs
  /\ account' = "unpaired"
  /\ unpairs' = unpairs + 1
  /\ qrCheck' \in {qrCheck, TRUE}
  /\ UNCHANGED <<login, isLogged, isInChat, autoClose, hook, chatCheck, watchVars>>

-----------------------------------------------------------------------------
(* afterPageScriptInjected and what it starts.                               *)

\* HostLayer: both checks start.
HookHost(d) ==
  /\ chain[d] = "injected" /\ hook[d] = "none"
  /\ hook' = [hook EXCEPT ![d] = "host"]
  /\ chatCheck' = TRUE
  /\ qrCheck' = TRUE
  /\ UNCHANGED <<accountVars, login, isLogged, isInChat, autoClose, watchVars>>

\* Whatsapp, after the listeners are attached: `connected` is set, and nothing told.
HookClient(d) ==
  /\ hook[d] = "host"
  /\ hook' = [hook EXCEPT ![d] = "done"]
  /\ connected' = IF Registered = "null" THEN connected ELSE Registered
  /\ UNCHANGED <<accountVars, login, isLogged, isInChat, autoClose, checkVars, noticed>>

CheckInChat ==
  /\ chatCheck
  /\ chatCheck' = FALSE
  /\ isInChat' = (Works /\ account = "chat")
  /\ UNCHANGED <<accountVars, login, isLogged, autoClose, hook, qrCheck, watchVars>>

\* isLogged = !needScan: an error of the page counts as logged in.
CheckQrCode ==
  /\ qrCheck
  /\ qrCheck' = FALSE
  /\ isLogged' = (Registered # "no")
  /\ UNCHANGED <<accountVars, login, isInChat, autoClose, hook, chatCheck, watchVars>>

-----------------------------------------------------------------------------
(* waitForLogin                                                              *)

\* create and the handler of onStateChange call it; the second waits for the first
\* login to end, and keeps the promise of the one it started.
BeginLogin ==
  /\ \/ login = "start" /\ page # "blank"
     \/ login = "logged" /\ Registered = "no"
  /\ login' = "load"
  /\ UNCHANGED <<accountVars, isLogged, isInChat, autoClose, hook, checkVars, watchVars, pageVars>>

\* waitForPageLoad
PageLoaded ==
  /\ login = "load" /\ isInjected
  /\ login' = "auth"
  /\ UNCHANGED <<accountVars, isLogged, isInChat, autoClose, hook, checkVars, watchVars, pageVars>>

\* tryAutoClose
CloseOpenPage ==
  /\ autoClose' = FALSE
  /\ page' = IF page = "closed" THEN page ELSE "closing"
  /\ UNCHANGED <<document, scripted, chain, isInjected>>

Fail == login' = "failed" /\ CloseOpenPage

\* startAutoClose; cancelAutoClose follows when the account is registered.
Authenticate ==
  /\ login = "auth"
  /\ CASE Registered = "no"   -> login' = "scan" /\ autoClose' = TRUE /\ UNCHANGED pageVars
       [] Registered = "yes"  -> login' = "sync" /\ autoClose' = FALSE /\ UNCHANGED pageVars
       [] Registered = "null" -> Fail
  /\ UNCHANGED <<accountVars, isLogged, isInChat, hook, checkVars, watchVars>>

\* waitForQrCodeScan
PollScan ==
  /\ login = "scan"
  /\ IF page = "closed" \/ isLogged
     THEN login' = "scanned" /\ UNCHANGED isLogged
     ELSE isLogged' = (Registered # "no") /\ UNCHANGED login
  /\ UNCHANGED <<accountVars, isInChat, autoClose, hook, checkVars, watchVars, pageVars>>

\* Mutant: a scan that was not read throws without tryAutoClose.
ScannedKeepsPage ==
  /\ login = "scanned"
  /\ login' = IF Registered = "yes" THEN "sync" ELSE "failed"
  /\ autoClose' = FALSE
  /\ UNCHANGED <<accountVars, isLogged, isInChat, hook, checkVars, watchVars, pageVars>>

\* What the page says after the scan, against what the loop took it to say.
Scanned ==
  /\ login = "scanned"
  /\ IF Registered = "yes"
     THEN login' = "sync" /\ autoClose' = FALSE /\ UNCHANGED pageVars
     ELSE Fail
  /\ UNCHANGED <<accountVars, isLogged, isInChat, hook, checkVars, watchVars>>

\* startAutoClose(deviceSyncTimeout), and waitForInChat's first test.
BeginSync ==
  /\ login = "sync"
  /\ IF isLogged
     THEN login' = "chat" /\ autoClose' = TRUE /\ UNCHANGED pageVars
     ELSE Fail
  /\ UNCHANGED <<accountVars, isLogged, isInChat, hook, checkVars, watchVars>>

\* waitForInChat polls until isInChat; the promise of isInsideChat is not awaited, so
\* the first poll ends the loop, and deviceSyncTimeout is never reached.
PollInChat ==
  /\ login = "chat"
  /\ \/ /\ page # "closed" /\ isLogged /\ ~isInChat
        /\ isInChat' = TRUE
        /\ login' = "logged" /\ autoClose' = FALSE /\ UNCHANGED pageVars
     \/ /\ page = "closed" \/ ~isLogged \/ isInChat
        /\ IF isInChat THEN login' = "logged" /\ autoClose' = FALSE /\ UNCHANGED pageVars
                       ELSE Fail
        /\ UNCHANGED isInChat
  /\ UNCHANGED <<accountVars, isLogged, hook, checkVars, watchVars>>

\* The interval of startAutoClose comes to its end, or the page's close event clears it.
AutoCloseEnds ==
  /\ autoClose
  /\ CloseOpenPage
  /\ UNCHANGED <<accountVars, login, isLogged, isInChat, hook, checkVars, watchVars>>

-----------------------------------------------------------------------------
(* The poll of Whatsapp's constructor, and the second it waits to tell.      *)

\* Mutant: the new state is kept and not told.
WatchSilently ==
  /\ page # "closed" /\ page # "blank"
  /\ Registered \notin {"null", connected}
  /\ connected' = Registered
  /\ UNCHANGED <<accountVars, login, isLogged, isInChat, autoClose, hook, checkVars, noticed>>

Watch ==
  /\ page # "closed" /\ page # "blank"
  /\ Registered \notin {"null", connected}
  /\ connected' = Registered
  /\ noticed' = IF Registered = "no" THEN "timer" ELSE noticed
  /\ UNCHANGED <<accountVars, login, isLogged, isInChat, autoClose, hook, checkVars>>

TellUnpaired ==
  /\ noticed = "timer"
  /\ noticed' = "told"
  /\ UNCHANGED <<accountVars, login, isLogged, isInChat, autoClose, hook, checkVars, connected>>

-----------------------------------------------------------------------------

LoginStep ==
  \/ PageLoaded \/ Authenticate \/ PollScan \/ Scanned \/ BeginSync \/ PollInChat

Phone == Scan \/ Synchronise \/ Unpair

Checks ==
  \/ \E d \in Documents : HookHost(d)
  \/ CheckInChat
  \/ CheckQrCode

LoginNext ==
  \/ (Phone \/ Checks) /\ UNCHANGED pageVars
  \/ BeginLogin
  \/ LoginStep
  \/ AutoCloseEnds

WatchNext ==
  /\ \/ Phone
     \/ \E d \in Documents : HookHost(d) \/ HookClient(d)
     \/ Watch
     \/ TellUnpaired
  /\ UNCHANGED pageVars

\* Timers fire and awaits return; the phone does as it likes.
LoginFairness ==
  /\ WF_<<pageVars, loginVars>>(LoginStep)
  /\ WF_<<pageVars, loginVars>>(AutoCloseEnds)

-----------------------------------------------------------------------------

\* A login that fails leaves no page behind: create rejects, its caller has no client
\* to close the browser with.
FailedIsClosed == login = "failed" => page \in {"closing", "closed"}

\* A login that succeeded leaves no timer that would close the page of the client.
LoggedStopsTimer == login = "logged" => ~autoClose

\* Once a document stays injected, waitForLogin comes to an end whatever the phone
\* does: the timer closes the page, and every loop looks at that.
LoginSettles == <>[]isInjected => []<>(login \in {"start", "logged", "failed"})

\* An account that is unpaired is told of, unless the document changes: the hook of a
\* new document takes the new state for known.
HooksDone == \A d \in Documents : chain[d] \in {"none", "failed"} \/ hook[d] = "done"

UnpairIsTold ==
  \A d \in Documents :
    (connected = "yes" /\ account = "unpaired" /\ Works /\ document = d /\ HooksDone)
      ~> (noticed = "told" \/ account # "unpaired" \/ document # d \/ page # "open")
==============================================================================
