------------------------------- MODULE Records -------------------------------
(***************************************************************************)
(* Everything that keeps rows in one of the two databases and is driven by *)
(* single requests or events, for TLC: what the listeners of src/ write    *)
(* (MessageStore) and the message handler of api-server/server.js writes   *)
(* (ApiInbox), the accounts, the session requests and the tenants.  Each is*)
(* modelled over the rows it reads and writes; `part` says which one runs, *)
(* the rest stays as it is.                                                *)
(***************************************************************************)
EXTENDS MessageStore, ApiInbox, Accounts, RestRequests, Tenants, TLC

CONSTANTS m1, m2, m3, c1, c2

VARIABLE part  \* what is explored

Parts == {"listeners", "handler", "accounts", "rest", "tenants"}

recordsVars == <<part, storeVars, inboxVars, accountVars, restVars, tenantVars>>

\* Two messages of one chat and one of another.
ThreeMessages == (m1 :> c1 @@ m2 :> c1 @@ m3 :> c2)

\* One message of each contact.
OneMessageEach == (m1 :> c1 @@ m2 :> c2)

\* The message of one contact comes twice.
TwiceAndOnce == (c1 :> 2 @@ c2 :> 1)

Symmetry == Permutations(Listener) \cup Permutations(Agent)

\* Of the initial states of what stands still, one is enough.
OneForTheRest ==
  /\ part # "accounts" =>
       password = [e \in Email |-> CHOOSE p \in Password : TRUE]
  /\ part # "rest" => role = [u \in User |-> "admin"]

Init ==
  /\ part \in Parts
  /\ StoreInit /\ InboxInit /\ AccountsInit /\ RestInit /\ TenantsInit
  /\ OneForTheRest

Rest(name, vars) == part # name => UNCHANGED vars

Next ==
  /\ UNCHANGED part
  /\ Rest("listeners", storeVars) /\ Rest("handler", inboxVars)
  /\ Rest("accounts", accountVars) /\ Rest("rest", restVars)
  /\ Rest("tenants", tenantVars)
  /\ \/ part = "listeners" /\ StoreNext
     \/ part = "handler" /\ InboxNext
     \/ part = "accounts" /\ AccountsNext
     \/ part = "rest" /\ RestNext
     \/ part = "tenants" /\ TenantsNext

Spec == Init /\ [][Next]_recordsVars

-----------------------------------------------------------------------------
\* A request changes rows only if it is let through, by who may, and for a tenant that is
\* active: what the middleware has found is still so when the handler runs.
RequestsAreEntitled == RefusedChangesNothing /\ ChangedByStaff /\ EventsOfActiveTenants
==============================================================================
