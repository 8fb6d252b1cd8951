--------------------------------- MODULE Page ---------------------------------
(***************************************************************************)
(* The layers of a client over one page.  Each part composes the page, its *)
(* loads and injection chains with one layer: its login, the watch for an  *)
(* unpaired account, its listeners, or calls of its methods.  The layers   *)
(* meet in the page alone, so the other layers rest.                       *)
(***************************************************************************)
EXTENDS PageCalls, HostLogin, ListenerLayer

VARIABLE part  \* the layer that runs beside the page

vars == <<pageVars, callVars, loginVars, listenerVars, part>>

Init ==
  /\ PageInit /\ CallsInit /\ LoginInit /\ ListenerInit
  /\ part \in {"calls", "login", "watch", "listeners"}
  /\ part \in {"calls", "listeners"} => account = "chat"

Next ==
  /\ UNCHANGED part
  /\ \/ PageNext /\ UNCHANGED <<callVars, loginVars, listenerVars>>
     \/ part = "calls" /\ CallsNext /\ UNCHANGED <<loginVars, listenerVars>>
     \/ part = "login" /\ LoginNext /\ UNCHANGED <<callVars, listenerVars>>
     \/ part = "watch" /\ WatchNext /\ UNCHANGED <<callVars, listenerVars>>
     \/ part = "listeners" /\ ListenerNext /\ UNCHANGED <<callVars, loginVars>>

\* The steps of calls and of the login are enabled in their own part alone.
Fairness ==
  /\ PageFairness
  /\ CallsFairness
  /\ LoginFairness
  /\ WF_loginVars(part = "watch" /\ Watch)
  /\ WF_loginVars(part = "watch" /\ TellUnpaired)
  /\ \A d \in Documents : WF_listenerVars(part = "listeners" /\ AttachStep(d))

Spec == Init /\ [][Next]_vars /\ Fairness

-----------------------------------------------------------------------------
\* The page, the calls under way, the login and the listeners agree: what a refused call
\* has not done, what a failed login has closed, which timer a login has stopped.
PageIsSound ==
  /\ PageTypeOK /\ CallsTypeOK /\ LoginTypeOK /\ ListenerTypeOK
  /\ RefusedHadNone
  /\ FailedIsClosed
  /\ LoggedStopsTimer

\* ListenerLayer's promise, in the part in which its chains run (listener.layer.ts:97-337).
ListenersAttach == part = "listeners" => AllForwarded

\* Calls, logins and the attachment of listeners come to their end, whatever becomes of
\* the page meanwhile, as far as the code sees to it.
PageSettles == CallsSettle /\ LoginSettles /\ ListenersAttach
==============================================================================
