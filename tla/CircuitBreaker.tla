--------------------------- MODULE CircuitBreaker ---------------------------
(***************************************************************************)
(* The circuit breaker of utils/retry.utils.ts with the calls that run     *)
(* through it at the same time.  `execute` looks at the state before it    *)
(* calls fn and again after fn has settled, when other calls may have      *)
(* changed it.  A rejected call ("Circuit breaker is OPEN") changes        *)
(* nothing and is not an action.                                           *)
(***************************************************************************)
EXTENDS Naturals

CONSTANTS
  Call,          \* identities of the calls under way
  Threshold,     \* failures that open the breaker
  ResetTimeout,  \* how long an open breaker rejects, in ticks of the clock
  MaxTime,       \* bound: the clock
  MaxFailures    \* bound: failures that are counted

ASSUME BreakerAssumption ==
  /\ Threshold \in Nat \ {0}
  /\ ResetTimeout \in Nat
  /\ MaxTime \in Nat
  /\ MaxFailures \in Nat

VARIABLES
  state,
  failureCount,
  lastFailureTime,
  running,         \* calls whose fn has been called and has not settled
  now              \* Date.now()

breakerVars == <<state, failureCount, lastFailureTime, running, now>>

Cooled == now - lastFailureTime > ResetTimeout

BreakerInit ==
  /\ state = "CLOSED"
  /\ failureCount = 0
  /\ lastFailureTime = 0
  /\ running = {}
  /\ now = 0

\* Mutant: the cool-down is compared with >=.
ExecuteAtTimeout(k) ==
  /\ k \notin running
  /\ state = "OPEN" => now - lastFailureTime >= ResetTimeout
  /\ state' = IF state = "OPEN" THEN "HALF_OPEN" ELSE state
  /\ running' = running \cup {k}
  /\ UNCHANGED <<failureCount, lastFailureTime, now>>

\* execute, up to `await fn()`
Execute(k) ==
  /\ k \notin running
  /\ state = "OPEN" => Cooled
  /\ state' = IF state = "OPEN" THEN "HALF_OPEN" ELSE state
  /\ running' = running \cup {k}
  /\ UNCHANGED <<failureCount, lastFailureTime, now>>

\* Mutant: only the state is reset.
SucceedsKeepsCount(k) ==
  /\ k \in running
  /\ running' = running \ {k}
  /\ state' = IF state = "HALF_OPEN" THEN "CLOSED" ELSE state
  /\ UNCHANGED <<failureCount, lastFailureTime, now>>

\* fn resolves: the state looked at is the one of now.
Succeeds(k) ==
  /\ k \in running
  /\ running' = running \ {k}
  /\ IF state = "HALF_OPEN"
       THEN state' = "CLOSED" /\ failureCount' = 0
       ELSE UNCHANGED <<state, failureCount>>
  /\ UNCHANGED <<lastFailureTime, now>>

\* fn rejects: recordFailure
Fails(k) ==
  /\ k \in running
  /\ failureCount < MaxFailures
  /\ running' = running \ {k}
  /\ failureCount' = failureCount + 1
  /\ lastFailureTime' = now
  /\ state' = IF failureCount' >= Threshold THEN "OPEN" ELSE state
  /\ UNCHANGED now

Tick ==
  /\ now < MaxTime
  /\ now' = now + 1
  /\ UNCHANGED <<state, failureCount, lastFailureTime, running>>

BreakerNext == Tick \/ \E k \in Call : Execute(k) \/ Succeeds(k) \/ Fails(k)

BreakerSpec == BreakerInit /\ [][BreakerNext]_breakerVars

-----------------------------------------------------------------------------
\* Every variable has values of its kind; failures are not in the future.
BreakerTypeOK ==
  /\ state \in {"CLOSED", "OPEN", "HALF_OPEN"}
  /\ failureCount \in Nat
  /\ now \in Nat
  /\ lastFailureTime \in 0..now
  /\ running \subseteq Call

\* The state and the count never disagree, whichever calls settle late: the
\* breaker is closed exactly while fewer than Threshold failures are counted.
\* Without it a failed probe would not open the breaker again.
ClosedBelowThreshold == state = "CLOSED" <=> failureCount < Threshold

\* While the breaker probes, no failure is younger than the cool-down, though
\* calls that began before it opened still fail.
HalfOpenIsCooled == state = "HALF_OPEN" => Cooled

\* A failing service is left alone: with Threshold failures counted, no call
\* reaches it before the cool-down after the latest of them is over.
NoCallBeforeCooldown ==
  [][\A k \in Call : k \notin running /\ k \in running' =>
       failureCount < Threshold \/ Cooled]_breakerVars

\* An open breaker is never closed by the late success of a call that was
\* already running: it has to be half open first.
OpenIsProbedFirst == [][state = "OPEN" => state' # "CLOSED"]_breakerVars

\* The state of the breaker and its count of failures agree, whichever calls of earlier
\* states settle in it (retry.utils.ts, CircuitBreaker).
BreakerIsSound == BreakerTypeOK /\ ClosedBelowThreshold /\ HalfOpenIsCooled

\* What no step of the breaker does: call a service that is cooling down, or close an
\* open breaker that has not probed it.
BreakerProbesFirst == NoCallBeforeCooldown /\ OpenIsProbedFirst
=============================================================================
