---------------------------- MODULE TenantsProofs ----------------------------
(***************************************************************************)
(* The tenants and the rows that refer to them, for any ids, slugs and     *)
(* number of requests.  A tenant goes only while no row refers to it, and  *)
(* a row comes only for a tenant that exists then; slugs stay unique       *)
(* because PATCH cannot change them.                                       *)
(***************************************************************************)
EXTENDS Tenants, FiniteSetTheorems, TLAPS

TenantRow ==
  [slug : Slug \cup {"none"}, plan : Plan \cup {"none"}, sessions : {Unlimited} \cup Nat,
   settings : SUBSET Key, status : TenantStatus \cup {"none"}]

\* What the row of a tenant that exists is like.
Sound(row) ==
  /\ row \in TenantRow
  /\ row.slug \in Slug /\ row.plan \in Plan /\ row.status \in TenantStatus

SlugsAreUnique == \A t, u \in Existing : tenants[t].slug = tenants[u].slug => t = u

RowsAreSound ==
  /\ tenants \in [Tenant -> TenantRow]
  /\ \A t \in Existing : Sound(tenants[t])
  /\ SlugsAreUnique
  /\ freshIds \subseteq Tenant \ Existing

ReferenceRow ==
  [table : {"events", "activity", "backups"}, tenant : Tenant, age : 0 .. MaxDays]

TenantsInv ==
  /\ RowsAreSound
  /\ references \subseteq ReferenceRow /\ ReferencesHaveTenant
  /\ turnedAway \in BOOLEAN

USE TenantsAssumption DEF TenantsAssumption

LEMMA SoundRowExists ==
  ASSUME NEW row, Sound(row)
  PROVE  row # NoTenant
BY DEF Sound, NoTenant, TenantStatus

LEMMA TenantsInvInit == TenantsInit => TenantsInv
<1> SUFFICES ASSUME TenantsInit PROVE TenantsInv
  OBVIOUS
<1>1. NoTenant \in TenantRow
  BY DEF NoTenant, TenantRow
<1>2. tenants \in [Tenant -> TenantRow] /\ Existing = {}
  BY <1>1 DEF TenantsInit, Existing
<1>3. QED
  BY <1>2 DEF TenantsInit, TenantsInv, RowsAreSound, SlugsAreUnique, ReferencesHaveTenant

-----------------------------------------------------------------------------
\* A row that is written, for its own slug or for one nobody has.
LEMMA WriteKeepsRows ==
  ASSUME RowsAreSound, NEW t \in Tenant, NEW row, Sound(row),
         tenants' = [tenants EXCEPT ![t] = row],
         freshIds' \subseteq freshIds \ {t},
         WithSlug(row.slug) \subseteq {t}
  PROVE  RowsAreSound' /\ Existing' = Existing \cup {t}
<1>1. row # NoTenant
  BY SoundRowExists
<1>2. tenants' \in [Tenant -> TenantRow] /\ tenants'[t] = row
      /\ \A u \in Tenant : u # t => tenants'[u] = tenants[u]
  BY DEF RowsAreSound, Sound
<1>3. Existing' = Existing \cup {t}
  BY <1>1, <1>2 DEF Existing
<1>4. \A u \in Existing' : Sound(tenants'[u])
  BY <1>2, <1>3 DEF RowsAreSound, Existing
<1>5. SlugsAreUnique'
  <2> SUFFICES ASSUME NEW u \in Existing', NEW v \in Existing',
                      tenants'[u].slug = tenants'[v].slug
               PROVE  u = v
    BY DEF SlugsAreUnique
  <2>1. CASE u # t /\ v # t
    BY <1>2, <1>3, <2>1 DEF RowsAreSound, SlugsAreUnique, Existing
  <2>2. CASE u = t /\ v # t
    BY <1>2, <1>3, <2>2 DEF WithSlug, Existing
  <2>3. CASE v = t /\ u # t
    BY <1>2, <1>3, <2>3 DEF WithSlug, Existing
  <2>4. QED
    BY <2>1, <2>2, <2>3
<1>6. freshIds' \subseteq Tenant \ Existing'
  BY <1>3 DEF RowsAreSound
<1>7. QED
  BY <1>2, <1>3, <1>4, <1>5, <1>6 DEF RowsAreSound, Sound

\* The row of a tenant that goes.
LEMMA RemovalKeepsRows ==
  ASSUME RowsAreSound, NEW t \in Tenant, freshIds' = freshIds,
         tenants' = [tenants EXCEPT ![t] = NoTenant]
  PROVE  RowsAreSound' /\ Existing' = Existing \ {t}
<1>1. NoTenant \in TenantRow
  BY DEF NoTenant, TenantRow
<1>2. tenants' \in [Tenant -> TenantRow] /\ tenants'[t] = NoTenant
      /\ \A u \in Tenant : u # t => tenants'[u] = tenants[u]
  BY <1>1 DEF RowsAreSound
<1>3. Existing' = Existing \ {t}
  BY <1>2 DEF Existing
<1>4. QED
  BY <1>2, <1>3 DEF RowsAreSound, SlugsAreUnique, Sound, Existing

\* Rows of tenants do not change.
LEMMA SameRowsAreSound ==
  ASSUME RowsAreSound, UNCHANGED <<tenants, freshIds>>
  PROVE  RowsAreSound' /\ Existing' = Existing
BY DEF RowsAreSound, SlugsAreUnique, Existing, Sound

-----------------------------------------------------------------------------
LEMMA PostKeeps ==
  ASSUME TenantsInv, NEW t \in Tenant, NEW s \in Slug, NEW plan \in Plan,
         NEW limit \in {0, Unlimited}, PostTenant(t, s, plan, limit)
  PROVE  TenantsInv'
<1>1. references' = references /\ turnedAway' \in BOOLEAN
  BY DEF PostTenant
<1>2. CASE WithSlug(s) # {}
  <2>1. UNCHANGED <<tenants, freshIds>>
    BY <1>2 DEF PostTenant
  <2>2. QED
    BY <1>1, <2>1, SameRowsAreSound DEF TenantsInv, ReferencesHaveTenant
<1>3. CASE WithSlug(s) = {}
  <2> DEFINE row == [slug |-> s, plan |-> plan, settings |-> {}, status |-> "active",
                     sessions |-> IF limit = 0 THEN PlanLimit(plan) ELSE limit]
  <2>1. PlanLimit(plan) \in {Unlimited} \cup Nat
    BY DEF PlanLimit, Unlimited
  <2>2. Sound(row)
    BY <2>1 DEF Sound, TenantRow, TenantStatus
  <2>3. tenants' = [tenants EXCEPT ![t] = row] /\ freshIds' = freshIds \ {t}
    BY <1>3 DEF PostTenant
  <2>4. WithSlug(row.slug) \subseteq {t}
    BY <1>3
  <2> HIDE DEF row
  <2>5. RowsAreSound' /\ Existing' = Existing \cup {t}
    BY <2>2, <2>3, <2>4, WriteKeepsRows DEF TenantsInv
  <2>6. QED
    BY <1>1, <2>5 DEF TenantsInv, ReferencesHaveTenant
<1>4. QED
  BY <1>2, <1>3

\* A new row for a tenant that exists, under the slug it had.
LEMMA RewriteKeeps ==
  ASSUME TenantsInv, NEW t \in Existing, NEW row, Sound(row), row.slug = tenants[t].slug,
         tenants' = [tenants EXCEPT ![t] = row], UNCHANGED <<freshIds, references>>,
         turnedAway' \in BOOLEAN
  PROVE  TenantsInv'
<1>1. t \in Tenant /\ WithSlug(row.slug) \subseteq {t}
  BY DEF TenantsInv, RowsAreSound, SlugsAreUnique, WithSlug, Existing
<1>2. freshIds' \subseteq freshIds \ {t}
  BY DEF TenantsInv, RowsAreSound
<1>3. RowsAreSound' /\ Existing' = Existing \cup {t}
  BY <1>1, <1>2, WriteKeepsRows DEF TenantsInv
<1>4. QED
  BY <1>3 DEF TenantsInv, ReferencesHaveTenant

LEMMA PatchKeeps ==
  ASSUME TenantsInv, NEW t \in Tenant, NEW plan \in Plan, NEW status \in {"active", "suspended"},
         NEW keys \in SUBSET Key, PatchTenant(t, plan, status, Unlimited, keys)
  PROVE  TenantsInv'
<1>1. turnedAway' \in BOOLEAN /\ UNCHANGED <<freshIds, references>>
  BY DEF PatchTenant
<1>2. CASE t \notin Existing
  BY <1>1, <1>2, SameRowsAreSound DEF PatchTenant, TenantsInv, ReferencesHaveTenant
<1>3. CASE t \in Existing
  <2> DEFINE row == [slug |-> tenants[t].slug, plan |-> plan, status |-> status,
                     sessions |-> Unlimited, settings |-> keys]
  <2>1. Sound(row) /\ row.slug = tenants[t].slug
    BY <1>3 DEF Sound, TenantRow, TenantStatus, TenantsInv, RowsAreSound
  <2>2. tenants' = [tenants EXCEPT ![t] = row]
    BY <1>3 DEF PatchTenant
  <2> HIDE DEF row
  <2>3. QED
    BY <1>1, <1>3, <2>1, <2>2, RewriteKeeps
<1>4. QED
  BY <1>2, <1>3

LEMMA SettingsKeep ==
  ASSUME TenantsInv, NEW t \in Tenant, NEW keys \in SUBSET Key, PatchSettings(t, keys)
  PROVE  TenantsInv'
<1>1. turnedAway' \in BOOLEAN /\ UNCHANGED <<freshIds, references>>
  BY DEF PatchSettings
<1>2. CASE t \notin Existing
  BY <1>1, <1>2, SameRowsAreSound DEF PatchSettings, TenantsInv, ReferencesHaveTenant
<1>3. CASE t \in Existing
  <2> DEFINE row == [tenants[t] EXCEPT !.settings = @ \cup keys]
  <2>1. Sound(row) /\ row.slug = tenants[t].slug
    BY <1>3 DEF Sound, TenantRow, TenantsInv, RowsAreSound
  <2>2. tenants' = [tenants EXCEPT ![t] = row]
    BY <1>3 DEF PatchSettings
  <2> HIDE DEF row
  <2>3. QED
    BY <1>1, <1>3, <2>1, <2>2, RewriteKeeps
<1>4. QED
  BY <1>2, <1>3

\* The database refuses to delete a tenant that rows refer to.
LEMMA DeleteKeeps ==
  ASSUME TenantsInv, NEW t \in Tenant, DeleteTenant(t)
  PROVE  TenantsInv'
<1>1. turnedAway' \in BOOLEAN /\ UNCHANGED <<freshIds, references>>
  BY DEF DeleteTenant
<1>2. CASE tenants' = tenants
  BY <1>1, <1>2, SameRowsAreSound DEF TenantsInv, ReferencesHaveTenant
<1>3. CASE tenants' # tenants
  <2>1. tenants' = [tenants EXCEPT ![t] = NoTenant] /\ \A r \in references : r.tenant # t
    BY <1>3 DEF DeleteTenant
  <2>2. RowsAreSound' /\ Existing' = Existing \ {t}
    BY <1>1, <2>1, RemovalKeepsRows DEF TenantsInv
  <2>3. QED
    BY <1>1, <2>1, <2>2 DEF TenantsInv, ReferencesHaveTenant
<1>4. QED
  BY <1>2, <1>3

-----------------------------------------------------------------------------
\* Whatever a request names, it is answered for a tenant that exists or for none.
LEMMA ContextExists ==
  ASSUME NEW byId, NEW bySlug, NEW byHost, NEW byUser
  PROVE  Context(byId, bySlug, byHost, byUser) \subseteq Existing
BY DEF Context, WithSlug, Existing

LEMMA RequestKeeps ==
  ASSUME TenantsInv, NEW context \in SUBSET Existing, TenantRequest(context)
  PROVE  TenantsInv'
<1>1. UNCHANGED <<tenants, freshIds>> /\ turnedAway' \in BOOLEAN
  BY DEF TenantRequest, GatedRequest, PostEvent, DeleteOld, Refuses
<1>2. RowsAreSound' /\ Existing' = Existing
  BY <1>1, SameRowsAreSound DEF TenantsInv
<1>3. references' \subseteq ReferenceRow /\ \A r \in references' : r.tenant \in Existing
  <2>1. ASSUME NEW gate \in {"sessions", "plan"}, GatedRequest(context, gate)
        PROVE  references' = references
    BY <2>1 DEF GatedRequest
  <2>2. ASSUME NEW known \in BOOLEAN, PostEvent(context, known)
        PROVE  references' \subseteq
                 references \cup {[table |-> "events", tenant |-> t, age |-> 0] : t \in context}
    BY <2>2 DEF PostEvent
  <2>3. ASSUME NEW days \in 1 .. MaxDays, DeleteOld(context, days)
        PROVE  references' \subseteq references
    BY <2>3 DEF DeleteOld
  <2>4. references \subseteq ReferenceRow /\ \A r \in references : r.tenant \in Existing
    BY DEF TenantsInv, ReferencesHaveTenant
  <2>5. \A t \in context : /\ [table |-> "events", tenant |-> t, age |-> 0] \in ReferenceRow
                           /\ t \in Existing
    BY DEF ReferenceRow, Existing
  <2>6. references' \subseteq
          references \cup {[table |-> "events", tenant |-> t, age |-> 0] : t \in context}
    BY <2>1, <2>2, <2>3 DEF TenantRequest
  <2>7. QED
    BY <2>4, <2>5, <2>6
<1>4. QED
  BY <1>1, <1>2, <1>3 DEF TenantsInv, ReferencesHaveTenant

LEMMA TrackKeeps ==
  ASSUME TenantsInv, NEW table \in {"activity", "backups"}, NEW t \in Tenant, Track(table, t)
  PROVE  TenantsInv'
<1>1. RowsAreSound' /\ Existing' = Existing /\ turnedAway' = turnedAway
  BY SameRowsAreSound DEF TenantsInv, Track
<1>2. [table |-> table, tenant |-> t, age |-> 0] \in ReferenceRow
  BY DEF ReferenceRow
<1>3. QED
  BY <1>1, <1>2 DEF TenantsInv, Track, ReferencesHaveTenant

\* Rows that grow older stay rows of the same tenants.
LEMMA DayKeeps ==
  ASSUME TenantsInv, TenantsDay
  PROVE  TenantsInv'
<1>1. RowsAreSound' /\ Existing' = Existing /\ turnedAway' = turnedAway
  BY SameRowsAreSound DEF TenantsInv, TenantsDay
<1>2. ASSUME NEW r \in references
      PROVE  LET older == [r EXCEPT !.age = IF @ < MaxDays THEN @ + 1 ELSE @]
             IN  older \in ReferenceRow /\ older.tenant \in Existing
  BY DEF TenantsInv, ReferenceRow, ReferencesHaveTenant
<1>3. QED
  BY <1>1, <1>2 DEF TenantsInv, TenantsDay, ReferencesHaveTenant

LEMMA TenantsInvStep == TenantsInv /\ [TenantsNext]_tenantVars => TenantsInv'
<1> SUFFICES ASSUME TenantsInv, [TenantsNext]_tenantVars PROVE TenantsInv'
  OBVIOUS
<1>1. ASSUME NEW t \in Tenant, AdminRequest(t) PROVE TenantsInv'
  <2>1. CASE \E what \in {"tenant", "stats", "settings"} : GetTenant(t, what)
    BY <2>1, SameRowsAreSound DEF GetTenant, TenantsInv, ReferencesHaveTenant
  <2>2. QED
    BY <1>1, <2>1, PostKeeps, PatchKeeps, SettingsKeep, DeleteKeeps DEF AdminRequest
<1>2. ASSUME NEW byId, NEW bySlug, NEW byHost, NEW byUser,
             TenantRequest(Context(byId, bySlug, byHost, byUser))
      PROVE  TenantsInv'
  BY <1>2, ContextExists, RequestKeeps
<1>3. ASSUME NEW table \in {"activity", "backups"}, NEW t \in Tenant, Track(table, t)
      PROVE  TenantsInv'
  BY <1>3, TrackKeeps
<1>4. CASE TenantsDay
  BY <1>4, DayKeeps
<1>5. CASE UNCHANGED tenantVars
  BY <1>5, SameRowsAreSound DEF tenantVars, TenantsInv, ReferencesHaveTenant
<1>6. QED
  BY <1>1, <1>2, <1>3, <1>4, <1>5 DEF TenantsNext

LEMMA TenantsInvariant == TenantsSpec => []TenantsInv
BY TenantsInvInit, TenantsInvStep, PTL DEF TenantsSpec

-----------------------------------------------------------------------------
LEMMA OneTenantEach ==
  ASSUME TenantsInv, NEW s \in Slug
  PROVE  Cardinality(WithSlug(s)) <= 1
<1>1. CASE WithSlug(s) = {}
  BY <1>1, FS_EmptySet
<1>2. CASE WithSlug(s) # {}
  <2>1. PICK t \in WithSlug(s) : TRUE
    BY <1>2
  <2>2. WithSlug(s) = {t}
    BY <2>1 DEF TenantsInv, RowsAreSound, SlugsAreUnique, WithSlug
  <2>3. Cardinality({t}) = 1
    BY FS_Singleton
  <2>4. Cardinality(WithSlug(s)) = 1
    BY <2>2, <2>3
  <2>5. QED
    BY <2>4
<1>3. QED
  BY <1>1, <1>2

LEMMA TenantsInvImplies == TenantsInv => TenantsAreSound
<1> SUFFICES ASSUME TenantsInv PROVE TenantsAreSound
  OBVIOUS
<1>1. \A t \in Existing :
        /\ tenants[t].slug \in Slug /\ tenants[t].plan \in Plan
        /\ tenants[t].status \in TenantStatus /\ tenants[t].settings \subseteq Key
        /\ tenants[t].sessions \in {Unlimited} \cup Nat
  BY DEF TenantsInv, RowsAreSound, Sound, TenantRow
<1>2. \A s \in Slug : Cardinality(WithSlug(s)) <= 1
  BY OneTenantEach
<1>3. QED
  BY <1>1, <1>2 DEF TenantsInv, RowsAreSound, ReferenceRow, TenantsAreSound, TenantsTypeOK

\* Whatever requests, deletions and cleanups come in whatever order: slugs and ids are
\* of one tenant each, and the tenant of every stored row exists.
THEOREM TenantsSound == TenantsSpec => []TenantsAreSound
BY TenantsInvImplies, TenantsInvariant, PTL

LEMMA EventsStep ==
  TenantsInv /\ [TenantsNext]_tenantVars =>
    [\A r \in references' \ references :
       r.table = "events" /\ r.age = 0 => tenants[r.tenant].status = "active"]_tenantVars
<1> SUFFICES ASSUME TenantsInv, TenantsNext, NEW r \in references' \ references,
                    r.table = "events", r.age = 0
             PROVE  tenants[r.tenant].status = "active"
  BY DEF tenantVars
<1>1. ASSUME NEW t \in Tenant, AdminRequest(t) PROVE FALSE
  BY <1>1 DEF AdminRequest, PostTenant, PatchTenant, PatchSettings, DeleteTenant, GetTenant
<1>2. ASSUME NEW context, TenantRequest(context)
      PROVE  tenants[r.tenant].status = "active"
  <2>1. PICK known \in BOOLEAN : PostEvent(context, known)
    BY <1>2 DEF TenantRequest, GatedRequest, DeleteOld
  <2>2. ~Refuses(context) /\ r \in {[table |-> "events", tenant |-> t, age |-> 0] : t \in context}
    BY <2>1 DEF PostEvent
  <2>3. QED
    BY <2>2 DEF Refuses
<1>3. ASSUME NEW table \in {"activity", "backups"}, NEW t \in Tenant, Track(table, t)
      PROVE  FALSE
  BY <1>3 DEF Track
<1>4. CASE TenantsDay
  <2>1. PICK q \in references : r = [q EXCEPT !.age = IF @ < MaxDays THEN @ + 1 ELSE @]
    BY <1>4 DEF TenantsDay
  <2>2. q \in ReferenceRow
    BY DEF TenantsInv
  <2>3. q.age < MaxDays => r.age = q.age + 1
    BY <2>1, <2>2 DEF ReferenceRow
  <2>4. ~(q.age < MaxDays) => r = q
    BY <2>1, <2>2 DEF ReferenceRow
  <2>5. q.age \in Nat
    BY <2>2 DEF ReferenceRow
  <2>6. QED
    BY <2>3, <2>4, <2>5
<1>5. QED
  BY <1>1, <1>2, <1>3, <1>4 DEF TenantsNext

\* The events that requests store are of tenants that are active when the request is
\* answered, wherever the request named them.
THEOREM EventsAreOfActiveTenants == TenantsSpec => EventsOfActiveTenants
BY EventsStep, TenantsInvariant, PTL DEF TenantsSpec, EventsOfActiveTenants
==============================================================================
