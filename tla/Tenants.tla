------------------------------ MODULE Tenants ------------------------------
(***************************************************************************)
(* The tenants (models/tenant.model.ts), the requests of their routes      *)
(* (routes/tenant.routes.ts), the tenant a request is taken to be of       *)
(* (middleware/tenant.middleware.ts) and the rows that refer to a tenant   *)
(* (services/analytics.service.ts).  Foreign keys are on.                  *)
(*                                                                         *)
(* The database calls are synchronous, so a request is one step.           *)
(* src/routes/index.ts mounts neither of the two routers; the integration  *)
(* tests send them requests all the same, and ADVANCED_FEATURES.md puts    *)
(* tenantContext and the gates of tenant.middleware.ts before routes, as   *)
(* they are here.                                                          *)
(***************************************************************************)
EXTENDS Integers, FiniteSets

CONSTANTS
  Tenant,   \* ids; each is made for one row
  Slug,
  Plan,     \* the plans that requests name
  Key,      \* keys of the settings
  MaxDays,  \* bound: a row is no older
  MaxRows   \* bound: rows that refer to tenants

ASSUME TenantsAssumption ==
  /\ Plan \subseteq {"free", "basic", "pro", "enterprise"}
  /\ {MaxDays, MaxRows} \subseteq Nat

VARIABLES
  tenants,    \* the row of each id; NoTenant before and after
  freshIds,   \* ids that uuid has not made yet
  references, \* rows that refer to a tenant, by their table and their age in days
  turnedAway  \* whether the last request was refused, by a middleware or its handler

tenantVars == <<tenants, freshIds, references, turnedAway>>

NoTenant ==
  [slug |-> "none", plan |-> "none", sessions |-> 0, settings |-> {}, status |-> "none"]
Unlimited == -1
PlanLimit(plan) == CASE plan = "free" -> 1 [] plan = "basic" -> 5 [] plan = "pro" -> 20
                     [] plan = "enterprise" -> Unlimited
TenantStatus == {"active", "suspended", "cancelled"}

Existing == {t \in Tenant : tenants[t] # NoTenant}
WithSlug(s) == {t \in Existing : tenants[t].slug = s}

TenantsInit ==
  /\ tenants = [t \in Tenant |-> NoTenant]
  /\ freshIds = Tenant
  /\ references = {}
  /\ turnedAway = FALSE

\* A request: the tenant id and the slug of its headers, the first of the three or more
\* parts of its host, and the tenant of its user; {} for what it does not name, and an
\* id or slug that no row has for what it names wrongly.
Named(ids) == {{}} \cup {{x} : x \in ids}

\* tenantContext: the id, and only without one the slug, then the host, then the user.
Context(byId, bySlug, byHost, byUser) ==
  LET header == IF byId # {} THEN byId \cap Existing
                ELSE UNION {WithSlug(s) : s \in bySlug}
      host   == UNION {WithSlug(s) : s \in byHost}
  IN  IF header # {} THEN header ELSE IF host # {} THEN host ELSE byUser \cap Existing

\* requireTenant, and tenantContext of a tenant that is not active.
Refuses(context) == context = {} \/ \E t \in context : tenants[t].status # "active"

\* hasReachedSessionLimit, with `count` sessions, and requirePlan.
AtLimit(t, count) ==
  t \notin Existing \/ (tenants[t].sessions # Unlimited /\ count >= tenants[t].sessions)

AllowedBy(t, gate) ==
  CASE gate = "sessions" -> ~AtLimit(t, 0)  \* nothing in src/ sets a session's tenant
    [] gate = "plan"     -> tenants[t].plan \in Plan \ {"free"}
    [] OTHER             -> TRUE

\* POST /tenants: a limit that is 0 or not there is that of the plan.
PostTenant(t, s, plan, limit) ==
  /\ t \in freshIds
  /\ IF WithSlug(s) # {}
     THEN turnedAway' = TRUE /\ UNCHANGED <<tenants, freshIds>>
     ELSE /\ turnedAway' = FALSE
          /\ freshIds' = freshIds \ {t}
          /\ tenants' = [tenants EXCEPT ![t] =
               [slug |-> s, plan |-> plan, settings |-> {}, status |-> "active",
                sessions |-> IF limit = 0 THEN PlanLimit(plan) ELSE limit]]
  /\ UNCHANGED references

\* PATCH /tenants/:id: any of the columns; the plan does not bring its limits along.
PatchTenant(t, plan, status, limit, keys) ==
  /\ turnedAway' = (t \notin Existing)
  /\ tenants' = IF t \notin Existing THEN tenants ELSE
       [tenants EXCEPT ![t] = [slug |-> @.slug, plan |-> plan, status |-> status,
                               sessions |-> limit, settings |-> keys]]
  /\ UNCHANGED <<freshIds, references>>

\* PATCH /tenants/:id/settings: the new keys are laid over the old.
PatchSettings(t, keys) ==
  /\ turnedAway' = (t \notin Existing)
  /\ tenants' = IF t \notin Existing THEN tenants ELSE
       [tenants EXCEPT ![t].settings = @ \cup keys]
  /\ UNCHANGED <<freshIds, references>>

\* Mutant: the database is not asked to enforce its foreign keys.
DeleteTenantUnchecked(t) ==
  /\ turnedAway' = (t \notin Existing)
  /\ tenants' = [tenants EXCEPT ![t] = NoTenant]
  /\ UNCHANGED <<freshIds, references>>

\* DELETE /tenants/:id: the statement throws while a row refers to the tenant.
DeleteTenant(t) ==
  /\ turnedAway' = (t \notin Existing \/ \E r \in references : r.tenant = t)
  /\ tenants' = IF turnedAway' THEN tenants ELSE [tenants EXCEPT ![t] = NoTenant]
  /\ UNCHANGED <<freshIds, references>>

\* GET /tenants/:id and below: only the settings of a tenant that no row has are
\* answered, as none.
GetTenant(t, what) ==
  /\ turnedAway' = (t \notin Existing /\ what # "settings")
  /\ UNCHANGED <<tenants, freshIds, references>>

\* A route of a tenant behind one of the gates that tenant.middleware.ts offers.
GatedRequest(context, gate) ==
  /\ turnedAway' = (Refuses(context) \/ \E t \in context : ~AllowedBy(t, gate))
  /\ UNCHANGED <<tenants, freshIds, references>>

\* POST /analytics/events: trackEvent keeps its error to itself, so a session that no
\* row has is answered as any other.
PostEvent(context, known) ==
  /\ turnedAway' = Refuses(context)
  /\ references' = references \cup
       (IF known /\ ~Refuses(context)
        THEN {[table |-> "events", tenant |-> t, age |-> 0] : t \in context} ELSE {})
  /\ UNCHANGED <<tenants, freshIds>>

\* trackSessionActivity and the INSERT of a backup of a tenant, for whatever tenant they
\* are called with: the row is stored if the tenant exists.
Track(table, t) ==
  /\ references' = references \cup
       (IF t \in Existing THEN {[table |-> table, tenant |-> t, age |-> 0]} ELSE {})
  /\ UNCHANGED <<tenants, freshIds, turnedAway>>

\* DELETE /analytics/cleanup: the old rows of all tenants.
DeleteOld(context, days) ==
  /\ turnedAway' = Refuses(context)
  /\ references' = IF Refuses(context) THEN references
       ELSE {r \in references : r.table = "backups" \/ r.age <= days}
  /\ UNCHANGED <<tenants, freshIds>>

TenantsDay ==
  /\ references' = {[r EXCEPT !.age = IF @ < MaxDays THEN @ + 1 ELSE @] : r \in references}
  /\ UNCHANGED <<tenants, freshIds, turnedAway>>

AdminRequest(t) ==
  \/ \E s \in Slug, plan \in Plan, limit \in {0, Unlimited} : PostTenant(t, s, plan, limit)
  \/ \E plan \in Plan, status \in {"active", "suspended"}, keys \in SUBSET Key :
       PatchTenant(t, plan, status, Unlimited, keys)
  \/ \E keys \in SUBSET Key : PatchSettings(t, keys)
  \/ DeleteTenant(t)
  \/ \E what \in {"tenant", "stats", "settings"} : GetTenant(t, what)

TenantRequest(context) ==
  \/ \E gate \in {"sessions", "plan"} : GatedRequest(context, gate)
  \/ \E known \in BOOLEAN :
       (known => Cardinality(references) < MaxRows) /\ PostEvent(context, known)
  \/ \E days \in 1 .. MaxDays : DeleteOld(context, days)

TenantsNext ==
  \/ \E t \in Tenant : AdminRequest(t)
  \/ \E context \in {Context(byId, bySlug, byHost, byUser) : byId, byUser \in Named(Tenant),
                                                           bySlug, byHost \in Named(Slug)} :
       TenantRequest(context)
  \/ \E table \in {"activity", "backups"}, t \in Tenant :
       Cardinality(references) < MaxRows /\ Track(table, t)
  \/ TenantsDay

TenantsSpec == TenantsInit /\ [][TenantsNext]_tenantVars

-----------------------------------------------------------------------------
\* Ids and slugs are of one tenant each, the slugs also when tenants were suspended,
\* deleted and created meanwhile.
TenantsTypeOK ==
  /\ \A t \in Existing :
       /\ tenants[t].slug \in Slug /\ tenants[t].plan \in Plan
       /\ tenants[t].status \in TenantStatus /\ tenants[t].settings \subseteq Key
       /\ tenants[t].sessions \in {Unlimited} \cup Nat
  /\ \A s \in Slug : Cardinality(WithSlug(s)) <= 1
  /\ freshIds \subseteq Tenant \ Existing
  /\ references \subseteq
       [table : {"events", "activity", "backups"}, tenant : Tenant, age : 0 .. MaxDays]
  /\ turnedAway \in BOOLEAN

\* The tenant of every stored row exists: requests for the tenant, its deletion and the
\* cleanup may come in any order, and a tenant whose rows are gone may go.
ReferencesHaveTenant == \A r \in references : r.tenant \in Existing

\* The events that requests store are of tenants that are active then, whichever of the
\* four places of the request named them.
EventsOfActiveTenants ==
  [][\A r \in references' \ references :
       r.table = "events" /\ r.age = 0 => tenants[r.tenant].status = "active"]_tenantVars

\* The rows of the tenants and those that refer to them agree.
TenantsAreSound == TenantsTypeOK /\ ReferencesHaveTenant
=============================================================================
