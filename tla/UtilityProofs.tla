---------------------------- MODULE UtilityProofs ----------------------------
(***************************************************************************)
(* What is proved of the utilities of src/utils and of the two monitors:   *)
(* the circuit breaker, parallelLimit, the RateLimiter, withRetry, the     *)
(* connection pool, MemoryMonitor and HealthService, for every value of    *)
(* their constants.  Each section strengthens a property that a run checks *)
(* to an inductive invariant; the last one puts them together with what    *)
(* ServerProofs says of the other services.                                *)
(***************************************************************************)
EXTENDS Services, ServerProofs, FiniteSetTheorems, SequenceTheorems, TLAPS

-----------------------------------------------------------------------------
(* Facts about natural numbers.  The least element of a set and the doubling  *)
(* of powers come from theorems of the library whose proofs use induction; no *)
(* proof below does.                                                          *)

\* A set of natural numbers that is not empty has a least element.
LEMMA LeastOf ==
  ASSUME NEW T, T \subseteq Nat, T # {}
  PROVE  \E x \in T : \A y \in T : x <= y
<1> DEFINE R == OpToRel(<, Nat)
<1>1. IsWellFoundedOn(R, Nat)
  BY NatLessThanWellFounded
<1>2. \A x, y \in Nat : <<y, x>> \in R <=> y < x
  BY DEF OpToRel
<1> HIDE DEF R
<1>3. PICK x \in T : \A y \in T : ~ (<<y, x>> \in R)
  BY <1>1, WFMin
<1>4. \A y \in T : y \in Nat /\ x \in Nat /\ ~ (y < x)
  BY <1>2, <1>3
<1>5. \A y \in T : x <= y
  BY <1>4
<1>6. QED
  BY <1>5

\* One more element doubles the number of subsets.
LEMMA PowerDoubles ==
  ASSUME NEW n \in Nat
  PROVE  2 ^ n \in Nat /\ 2 ^ (n + 1) = 2 * 2 ^ n
<1> DEFINE S == 1 .. n
           T == 1 .. n + 1
           A == SUBSET S
           B == {x \in SUBSET T : n + 1 \in x}
           f == [x \in A |-> x \cup {n + 1}]
<1>1. IsFiniteSet(S) /\ Cardinality(S) = n /\ IsFiniteSet(T) /\ Cardinality(T) = n + 1
  BY FS_Interval
<1>2. /\ IsFiniteSet(A) /\ Cardinality(A) = 2 ^ n
      /\ Cardinality(SUBSET T) = 2 ^ (n + 1)
  <2> HIDE DEF S, T
  <2>1. Cardinality(A) = 2 ^ Cardinality(S) /\ IsFiniteSet(A)
    BY <1>1, FS_SUBSET
  <2>2. Cardinality(SUBSET T) = 2 ^ Cardinality(T)
    BY <1>1, FS_SUBSET
  <2>3. QED
    BY <1>1, <2>1, <2>2
<1>3. f \in Bijection(A, B)
  <2>1. f \in [A -> B]
    OBVIOUS
  <2>2. ASSUME NEW x \in A, NEW y \in A, f[x] = f[y] PROVE x = y
    <3>1. n + 1 \notin x /\ n + 1 \notin y
      OBVIOUS
    <3>2. x \cup {n + 1} = y \cup {n + 1}
      BY <2>2
    <3>3. QED
      BY <3>1, <3>2
  <2>3. ASSUME NEW z \in B PROVE \E x \in A : f[x] = z
    <3>1. z \ {n + 1} \in A
      OBVIOUS
    <3>2. f[z \ {n + 1}] = z
      BY <3>1
    <3>3. QED
      BY <3>1, <3>2
  <2> HIDE DEF f, A, B
  <2>4. QED
    BY <2>1, <2>2, <2>3 DEF Bijection, Injection, Surjection, IsInjective
<1>4. IsFiniteSet(B) /\ Cardinality(B) = 2 ^ n
  <2> HIDE DEF f, A, B
  <2>1. ExistsBijection(A, B)
    BY <1>3 DEF ExistsBijection
  <2>2. QED
    BY <1>2, <2>1, FS_Bijection
<1>5. SUBSET T = A \cup B /\ A \cap B = {}
  OBVIOUS
<1>6. Cardinality(A) \in Nat
  <2> HIDE DEF A
  <2>1. QED
    BY <1>2, FS_CardinalityType
<1>7. Cardinality(A \cup B) = Cardinality(A) + Cardinality(B) - Cardinality({})
  <2> HIDE DEF A, B
  <2>1. QED
    BY <1>2, <1>4, <1>5, FS_Union
<1>8. 2 ^ n \in Nat /\ 2 ^ (n + 1) = 2 ^ n + 2 ^ n - 0
  <2>1. Cardinality(A \cup B) = 2 ^ (n + 1) /\ Cardinality({}) = 0
    BY <1>2, <1>5, FS_EmptySet
  <2> HIDE DEF A, B
  <2>2. QED
    BY <1>2, <1>4, <1>6, <1>7, <2>1
<1>9. QED
  BY <1>8

LEMMA PowerStarts == 2 ^ 0 = 1 /\ 2 ^ 1 = 2
<1>1. 2 ^ 0 = 1
  OBVIOUS
<1>2. 2 ^ (0 + 1) = 2 * 2 ^ 0
  BY PowerDoubles
<1>3. 0 + 1 = 1
  OBVIOUS
<1>4. QED
  BY <1>1, <1>2, <1>3

-----------------------------------------------------------------------------
(* The circuit breaker, for every threshold, cool-down and set of concurrent  *)
(* calls.  The conjunction of the invariants is inductive: a failure while half*)
(* open opens the breaker because the count has stayed at the threshold, and that*)
(* is what keeps a half-open breaker cooled.                                  *)

BreakerInv == BreakerTypeOK /\ ClosedBelowThreshold /\ HalfOpenIsCooled

LEMMA BreakerInvInit == BreakerInit => BreakerInv
BY BreakerAssumption
   DEF BreakerAssumption, BreakerInit, BreakerInv, BreakerTypeOK, ClosedBelowThreshold,
       HalfOpenIsCooled

LEMMA BreakerInvStep == BreakerInv /\ [BreakerNext]_breakerVars => BreakerInv'
<1> SUFFICES ASSUME BreakerInv, [BreakerNext]_breakerVars PROVE BreakerInv'
  OBVIOUS
<1> USE BreakerAssumption
    DEF BreakerAssumption, BreakerInv, BreakerTypeOK, ClosedBelowThreshold, HalfOpenIsCooled,
        Cooled
<1>1. CASE Tick
  BY <1>1 DEF Tick
<1>2. ASSUME NEW k \in Call, Execute(k) PROVE BreakerInv'
  BY <1>2 DEF Execute
<1>3. ASSUME NEW k \in Call, Succeeds(k) PROVE BreakerInv'
  <2>1. CASE state = "HALF_OPEN"
    BY <1>3, <2>1 DEF Succeeds
  <2>2. CASE state # "HALF_OPEN"
    BY <1>3, <2>2 DEF Succeeds
  <2>3. QED
    BY <2>1, <2>2
<1>4. ASSUME NEW k \in Call, Fails(k) PROVE BreakerInv'
  <2>1. failureCount' \in Nat /\ lastFailureTime' = now /\ now' = now /\ running' \subseteq Call
    BY <1>4 DEF Fails
  <2>2. CASE failureCount' >= Threshold
    BY <1>4, <2>1, <2>2 DEF Fails
  <2>3. CASE failureCount' < Threshold
    BY <1>4, <2>1, <2>3 DEF Fails
  <2>4. QED
    BY <2>1, <2>2, <2>3
<1>5. CASE UNCHANGED breakerVars
  BY <1>5 DEF breakerVars
<1>6. QED
  BY <1>1, <1>2, <1>3, <1>4, <1>5 DEF BreakerNext

LEMMA BreakerInvariant == BreakerSpec => []BreakerInv
BY BreakerInvInit, BreakerInvStep, PTL DEF BreakerSpec

\* The state of the breaker is well typed.
THEOREM BreakerTypeCorrect == BreakerSpec => []BreakerTypeOK
BY BreakerInvariant, PTL DEF BreakerInv

\* The breaker is closed exactly while it counts fewer failures than allowed.
THEOREM StateMatchesCount == BreakerSpec => []ClosedBelowThreshold
BY BreakerInvariant, PTL DEF BreakerInv

\* A half-open breaker has seen no failure for the whole cool-down.
THEOREM HalfOpenAfterCooldown == BreakerSpec => []HalfOpenIsCooled
BY BreakerInvariant, PTL DEF BreakerInv

\* No call reaches the service between the failure that opened the breaker, or
\* a later one, and the end of the cool-down.
THEOREM CooldownRespected == BreakerSpec => NoCallBeforeCooldown
<1>1. BreakerInv /\ [BreakerNext]_breakerVars =>
        [\A k \in Call : k \notin running /\ k \in running' =>
           failureCount < Threshold \/ Cooled]_breakerVars
  <2> SUFFICES ASSUME BreakerInv, BreakerNext, NEW j \in Call, j \notin running, j \in running'
               PROVE  failureCount < Threshold \/ Cooled
    BY DEF breakerVars
  <2>1. PICK k \in Call : Execute(k)
    BY DEF BreakerNext, Tick, Succeeds, Fails
  <2>2. CASE state = "OPEN"
    BY <2>1, <2>2 DEF Execute
  <2>3. CASE state # "OPEN"
    BY <2>3 DEF BreakerInv, BreakerTypeOK, ClosedBelowThreshold, HalfOpenIsCooled
  <2>4. QED
    BY <2>2, <2>3
<1>2. QED
  BY <1>1, BreakerInvariant, PTL DEF BreakerSpec, NoCallBeforeCooldown

\* An open breaker becomes half open before it closes.
THEOREM ProbedBeforeClosed == BreakerSpec => OpenIsProbedFirst
<1>1. [BreakerNext]_breakerVars => [state = "OPEN" => state' # "CLOSED"]_breakerVars
  BY DEF BreakerNext, Tick, Execute, Succeeds, Fails, breakerVars
<1>2. QED
  BY <1>1, PTL DEF BreakerSpec, OpenIsProbedFirst

\* The state of the breaker and its count of failures agree, for any number of
\* calls that settle late.
THEOREM BreakerSound == BreakerSpec => []BreakerIsSound
BY BreakerInvariant, PTL DEF BreakerInv, BreakerIsSound

\* Neither a call nor a late success gets past an open breaker.
THEOREM BreakerProbes == BreakerSpec => BreakerProbesFirst
BY CooldownRespected, ProbedBeforeClosed DEF BreakerProbesFirst

-----------------------------------------------------------------------------
(* parallelLimit.  `executing` only ever holds the items below the limit and, *)
(* during a race, the item just started: that is the inductive invariant.  What*)
(* the code guarantees follows from it.                                       *)

\* The items that stay in `executing` once they are in it.
Staying == {i \in Item : i < Limit}

\* What has been started, and what is in the array, at each place of the loop.
Array ==
  /\ \A i \in Item : i > next => item[i] = "new"
  /\ pc = "loop" => /\ executing = {i \in Staying : i < next}
                    /\ \A i \in Item : i >= next => item[i] = "new"
  /\ pc = "race" => /\ next \in Item /\ Limit <= next
                    /\ executing = Staying \cup {next}
  /\ pc \in {"all", "resolved"} => next = Count + 1 /\ executing = Staying

\* What has settled when the loop has come past an item.
Passed ==
  /\ (\A i \in Item : i < Limit => ~Settled(i)) =>
        \A i \in Item : Limit <= i /\ i < next => Settled(i)
  /\ Limit = 1 => \A i \in Item : i < next => item[i] = "done"
  /\ pc = "resolved" => \A i \in Staying : item[i] = "done"

PInv == ParallelTypeOK /\ Array /\ Passed

\* Initially nothing has been started.
LEMMA InitPInv == ParallelInit => PInv
BY ParallelAssumption DEF ParallelInit, PInv, ParallelTypeOK, Array, Passed, Staying, Item, Settled

\* One more element adds at most one to the size of a finite set.
LEMMA OneMore ==
  ASSUME NEW S, IsFiniteSet(S), NEW x, NEW n \in Nat, Cardinality(S) = n - 1
  PROVE  IsFiniteSet(S \cup {x}) /\ Cardinality(S \cup {x}) <= n
<1>1. CASE x \in S
  <2>1. S \cup {x} = S
    BY <1>1
  <2> QED BY <2>1
<1>2. CASE x \notin S
  BY <1>2, FS_AddElement
<1> QED BY <1>1, <1>2

\* With the item just started, the array is full exactly from Limit on.
LEMMA FullFromLimit ==
  ASSUME PInv, pc = "loop", next <= Count
  PROVE  Cardinality(executing \cup {next}) >= Limit <=> next >= Limit
<1> USE ParallelAssumption
<1>1. /\ next \in Item /\ next \in Nat /\ Limit \in Nat
      /\ executing = {i \in 1..Count : i < Limit /\ i < next}
  BY DEF PInv, ParallelTypeOK, Array, Item, Staying
<1>2. CASE next < Limit
  <2>1. executing \cup {next} = 1..next
    BY <1>1, <1>2 DEF Item
  <2>2. Cardinality(1..next) = next
    BY <1>1, FS_Interval DEF Item
  <2> QED BY <1>1, <1>2, <2>1, <2>2
<1>3. CASE next >= Limit
  <2>1. executing = 1..(Limit - 1) /\ next \notin executing
    <3>1. \A i \in 1..(Limit - 1) : i \in executing
      BY <1>1, <1>3 DEF Item
    <3>2. \A i \in executing : i \in 1..(Limit - 1) /\ i # next
      BY <1>1, <1>3
    <3> QED BY <3>1, <3>2
  <2>2. IsFiniteSet(1..(Limit - 1)) /\ Cardinality(1..(Limit - 1)) = Limit - 1
    BY <1>1, FS_Interval
  <2>3. Cardinality(executing \cup {next}) = Cardinality(executing) + 1
    BY <2>1, <2>2, FS_AddElement
  <2> QED BY <1>1, <1>3, <2>1, <2>2, <2>3
<1> QED BY <1>1, <1>2, <1>3

\* Every step of the loop, and every item that settles, keeps the invariant.
LEMMA StepPInv == PInv /\ [ParallelNext]_parallelVars => PInv'
<1> SUFFICES ASSUME PInv, [ParallelNext]_parallelVars PROVE PInv'
  OBVIOUS
<1> USE ParallelAssumption DEF PInv, ParallelTypeOK, Staying, Item
<1>1. CASE StartItem
  <2>1. next \in Item /\ item[next] = "new"
    BY <1>1 DEF StartItem, Array
  <2>2. \A i \in Item : Settled(i)' <=> Settled(i)
    BY <1>1, <2>1 DEF StartItem, Settled
  <2>3. CASE next < Limit
    <3>1. pc' = "loop" /\ next' = next + 1
      BY <1>1, <2>3, FullFromLimit DEF StartItem
    <3>2. executing' = {i \in Staying : i < next'}
      BY <1>1, <2>1, <2>3, <3>1 DEF StartItem, Array
    <3>3. Array'
      BY <1>1, <3>1, <3>2 DEF StartItem, Array
    <3>4. Passed'
      BY <1>1, <2>1, <2>2, <2>3, <3>1 DEF StartItem, Passed
    <3> QED BY <1>1, <3>1, <3>3, <3>4 DEF StartItem
  <2>4. CASE next >= Limit
    <3>1. pc' = "race" /\ next' = next
      BY <1>1, <2>4, FullFromLimit DEF StartItem
    <3>2. executing' = Staying \cup {next}
      BY <1>1, <2>4 DEF StartItem, Array
    <3>3. Array'
      BY <1>1, <2>1, <2>4, <3>1, <3>2 DEF StartItem, Array
    <3>4. Passed'
      BY <1>1, <2>1, <2>2, <3>1 DEF StartItem, Passed
    <3> QED BY <1>1, <2>1, <3>1, <3>3, <3>4 DEF StartItem
  <2> QED BY <2>1, <2>3, <2>4
<1>2. CASE RaceResolves
  <2>1. PICK k \in executing : item[k] = "done"
    BY <1>2 DEF RaceResolves
  <2>2. next \in Item /\ Limit <= next /\ executing = Staying \cup {next}
    BY <1>2 DEF RaceResolves, Array
  <2>3. Array'
    BY <1>2, <2>2 DEF RaceResolves, Array
  <2>4. k # next => k < Limit /\ Settled(k)
    BY <2>1, <2>2 DEF Settled
  <2>5. Passed'
    BY <1>2, <2>1, <2>2, <2>4 DEF RaceResolves, Passed, Settled
  <2> QED BY <1>2, <2>2, <2>3, <2>5 DEF RaceResolves
<1>3. CASE Rejects
  BY <1>3 DEF Rejects, Array, Passed, Settled
<1>4. CASE LoopEnds
  BY <1>4 DEF LoopEnds, Array, Passed, Settled
<1>5. CASE Resolves
  BY <1>5 DEF Resolves, Array, Passed, Settled
<1>6. ASSUME NEW k \in Item, ItemSettles(k) PROVE PInv'
  <2>1. item[k] = "running" /\ UNCHANGED <<executing, next, pc>>
    BY <1>6 DEF ItemSettles
  <2>2. /\ Settled(k)'
        /\ \A i \in Item : i # k => item'[i] = item[i]
        /\ item' \in [Item -> {"new", "running", "done", "failed"}]
    BY <1>6 DEF ItemSettles, Settled
  <2>3. \A i \in Item : Settled(i) => Settled(i)'
    BY <2>1, <2>2 DEF Settled
  <2>4. Array'
    BY <2>1, <2>2 DEF Array
  <2>5. Passed'
    BY <2>1, <2>2, <2>3 DEF Passed, Settled
  <2> QED BY <2>1, <2>2, <2>4, <2>5
<1>7. CASE UNCHANGED parallelVars
  BY <1>7 DEF parallelVars, Array, Passed, Settled
<1> QED BY <1>1, <1>2, <1>3, <1>4, <1>5, <1>6, <1>7 DEF ParallelNext, CallSteps

LEMMA AlwaysPInv == ParallelSpec => []PInv
BY InitPInv, StepPInv, PTL DEF ParallelSpec

\* parallelLimit's variables keep to their kinds for every number of items and
\* every limit.
THEOREM ParallelTypeCorrect == ParallelSpec => []ParallelTypeOK
<1>1. PInv => ParallelTypeOK
  BY DEF PInv
<1> QED BY <1>1, AlwaysPInv, PTL

\* As long as no item below the limit has settled, the items that run are
\* among these and the one just started.
THEOREM LimitHolds == ParallelSpec => []LimitUntilFirstSettles
<1>1. ASSUME PInv PROVE LimitUntilFirstSettles
  <2> SUFFICES ASSUME \A i \in Item : i < Limit => ~Settled(i)
               PROVE  Cardinality(Running) <= Limit
    BY DEF LimitUntilFirstSettles
  <2> USE ParallelAssumption
  <2>1. Running \subseteq (1..(Limit - 1)) \cup {next}
    <3> SUFFICES ASSUME NEW i \in Item, item[i] = "running", i >= Limit
                 PROVE  i = next
      BY DEF Running, Item
    <3>1. ~(i < next)
      BY <1>1 DEF PInv, Passed, Settled
    <3>2. ~(i > next)
      BY <1>1 DEF PInv, Array
    <3> QED BY <1>1, <3>1, <3>2 DEF PInv, ParallelTypeOK, Item
  <2>2. IsFiniteSet(1..(Limit - 1)) /\ Cardinality(1..(Limit - 1)) = Limit - 1
    BY FS_Interval
  <2>3. /\ IsFiniteSet((1..(Limit - 1)) \cup {next})
        /\ Cardinality((1..(Limit - 1)) \cup {next}) <= Limit
    BY <2>2, OneMore
  <2>4. /\ Cardinality(Running) \in Nat
        /\ Cardinality(Running) <= Cardinality((1..(Limit - 1)) \cup {next})
        /\ Cardinality((1..(Limit - 1)) \cup {next}) \in Nat
    BY <2>1, <2>3, FS_Subset, FS_CardinalityType
  <2> QED BY <2>3, <2>4
<1> QED BY <1>1, AlwaysPInv, PTL

\* A call that resolves has awaited the items below the limit, and all of them
\* when the limit is 1.
THEOREM AwaitedAreDone == ParallelSpec => []AwaitedItemsDone
<1>1. ASSUME PInv PROVE AwaitedItemsDone
  BY <1>1, ParallelAssumption
  DEF PInv, ParallelTypeOK, Array, Passed, Staying, Item, AwaitedItemsDone
<1> QED BY <1>1, AlwaysPInv, PTL

\* What parallelLimit keeps, for any number of items and any limit.
THEOREM ParallelSound == ParallelSpec => []ParallelIsSound
BY ParallelTypeCorrect, LimitHolds, AwaitedAreDone, PTL DEF ParallelIsSound

-----------------------------------------------------------------------------
(* The rate of RateLimiter, for every capacity, rate and number of callers.  The*)
(* invariant is the property itself: what a refill would give is what a bucket *)
(* refilled at every moment holds.                                            *)

BucketInv == BucketIsSound

\* Capping sums on the way or at the end makes no difference.
LEMMA CappedSums ==
  ASSUME NEW x \in Nat, NEW y \in Nat
  PROVE  /\ AtMost(Capacity, x) \in 0 .. Capacity
         /\ AtMost(Capacity, AtMost(Capacity, x) + y) = AtMost(Capacity, x + y)
BY BucketAssumption DEF BucketAssumption, AtMost

\* Products, for the arithmetic of refills.
LEMMA Products ==
  ASSUME NEW a \in Nat, NEW r \in Nat
  PROVE  a * r \in Nat /\ (a + 1) * r = a * r + r /\ 0 * r = 0
OBVIOUS

\* A refill stays within the capacity; right after one, another changes nothing.
LEMMA RefillStays ==
  ASSUME BucketInv
  PROVE  /\ Refilled \in 0 .. Capacity /\ Refilled = ideal
         /\ \A t \in 0 .. Capacity : AtMost(Capacity, t + 0 * Rate) = t
<1> USE BucketAssumption DEF BucketAssumption
<1>1. tokens \in Nat /\ elapsed \in Nat /\ Rate \in Nat
  BY DEF BucketInv, BucketIsSound, BucketTypeOK
<1>2. elapsed * Rate \in Nat /\ 0 * Rate = 0
  BY <1>1, Products
<1>3. Refilled = ideal
  BY DEF BucketInv, BucketIsSound, KeepsTheRate
<1>4. Refilled \in 0 .. Capacity
  BY <1>3 DEF BucketInv, BucketIsSound, BucketTypeOK
<1>5. \A t \in 0 .. Capacity : AtMost(Capacity, t + 0 * Rate) = t
  BY <1>2 DEF AtMost
<1>6. QED
  BY <1>3, <1>4, <1>5

LEMMA BucketInvInit == BucketInit => BucketInv
<1> SUFFICES ASSUME BucketInit PROVE BucketInv
  OBVIOUS
<1> USE BucketAssumption DEF BucketAssumption, BucketInit
<1>1. 0 * Rate = 0
  BY Products
<1>2. Refilled = Capacity
  BY <1>1 DEF Refilled, AtMost
<1>3. BucketTypeOK
  BY DEF BucketTypeOK
<1>4. QED
  BY <1>2, <1>3 DEF BucketInv, BucketIsSound, KeepsTheRate

\* Whoever takes tokens, or finds too few, takes them from both buckets.
LEMMA TakeKeeps ==
  ASSUME BucketInv, NEW c \in Caller, NEW n \in 0 .. MaxTokens, Take(c, n),
         asked' \in [Caller -> 0 .. MaxTokens]
  PROVE  BucketInv'
<1> USE BucketAssumption DEF BucketAssumption
<1>1. /\ Refilled \in 0 .. Capacity /\ Refilled = ideal
      /\ \A t \in 0 .. Capacity : AtMost(Capacity, t + 0 * Rate) = t
  BY RefillStays
<1>2. elapsed' = 0 /\ tokens' = ideal' /\ tokens' \in 0 .. Capacity
  BY <1>1 DEF Take, Granted
<1>3. bucketPc' \in [Caller -> {"idle", "asleep"}]
  BY DEF Take, Granted, BucketInv, BucketIsSound, BucketTypeOK
<1>4. Refilled' = ideal'
  BY <1>1, <1>2 DEF Refilled
<1>5. BucketTypeOK'
  BY <1>2, <1>3 DEF BucketTypeOK
<1>6. QED
  BY <1>4, <1>5 DEF BucketInv, BucketIsSound, KeepsTheRate

\* Time adds the same to both, until time is not counted any more: then both are full.
LEMMA TickKeeps ==
  ASSUME BucketInv, BucketTick
  PROVE  BucketInv'
<1> USE BucketAssumption DEF BucketAssumption
<1>1. /\ tokens \in Nat /\ elapsed \in Nat /\ elapsed <= Full /\ Rate \in Nat /\ Full \in Nat
      /\ tokens' = tokens /\ ideal = Refilled
      /\ elapsed' = AtMost(Full, elapsed + 1) /\ ideal' = AtMost(Capacity, ideal + Rate)
  BY DEF BucketInv, BucketIsSound, BucketTypeOK, KeepsTheRate, BucketTick
<1>2. BucketTypeOK'
  <2>1. elapsed' \in 0 .. Full
    BY <1>1 DEF AtMost
  <2>2. ideal' \in 0 .. Capacity
    BY <1>1 DEF AtMost, BucketInv, BucketIsSound, BucketTypeOK
  <2>3. QED
    BY <2>1, <2>2 DEF BucketTick, BucketInv, BucketIsSound, BucketTypeOK
<1>3. Refilled' = ideal'
  <2>1. elapsed * Rate \in Nat /\ (elapsed + 1) * Rate = elapsed * Rate + Rate
    BY <1>1, Products
  <2>2. ideal' = AtMost(Capacity, tokens + (elapsed + 1) * Rate)
    <3> DEFINE came == elapsed * Rate
    <3>1. came \in Nat /\ tokens + came \in Nat
      BY <1>1, <2>1
    <3>2. ideal' = AtMost(Capacity, AtMost(Capacity, tokens + came) + Rate)
      BY <1>1 DEF Refilled
    <3> HIDE DEF came
    <3>3. ideal' = AtMost(Capacity, tokens + came + Rate)
      BY <1>1, <3>1, <3>2, CappedSums
    <3>4. (elapsed + 1) * Rate = came + Rate
      BY <2>1 DEF came
    <3>5. tokens + came + Rate = tokens + (came + Rate)
      BY <1>1, <3>1
    <3>6. QED
      BY <3>3, <3>4, <3>5
  <2>3. CASE elapsed < Full
    <3>1. elapsed' = elapsed + 1
      BY <1>1, <2>3 DEF AtMost
    <3>2. QED
      BY <1>1, <2>2, <3>1 DEF Refilled
  <2>4. CASE elapsed = Full /\ Rate > 0
    <3>1. elapsed' = elapsed /\ elapsed * Rate >= Capacity
      BY <1>1, <2>4 DEF AtMost
    <3>2. Refilled' = Refilled
      BY <1>1, <3>1 DEF Refilled
    <3>3. Refilled = Capacity
      <4> DEFINE came == elapsed * Rate
      <4>1. Refilled = AtMost(Capacity, tokens + came) /\ came \in Nat /\ came >= Capacity
        BY <2>1, <3>1 DEF Refilled
      <4> HIDE DEF came
      <4>2. QED
        BY <1>1, <4>1 DEF AtMost
    <3>4. QED
      BY <1>1, <2>4, <3>2, <3>3 DEF AtMost
  <2>5. CASE elapsed = Full /\ ~(Rate > 0)
    <3>1. Rate = 0 /\ elapsed' = elapsed
      BY <1>1, <2>5 DEF AtMost
    <3>2. Refilled' = Refilled
      BY <1>1, <3>1 DEF Refilled
    <3>3. ideal \in 0 .. Capacity
      BY DEF BucketInv, BucketIsSound, BucketTypeOK
    <3>4. QED
      BY <1>1, <3>1, <3>2, <3>3 DEF AtMost
  <2>6. QED
    BY <1>1, <2>3, <2>4, <2>5
<1>4. QED
  BY <1>2, <1>3 DEF BucketInv, BucketIsSound, KeepsTheRate

LEMMA BucketInvStep == BucketInv /\ [BucketNext]_bucketVars => BucketInv'
<1> SUFFICES ASSUME BucketInv, [BucketNext]_bucketVars PROVE BucketInv'
  OBVIOUS
<1> USE BucketAssumption DEF BucketAssumption
<1>1. ASSUME NEW c \in Caller, WakeUp(c) PROVE BucketInv'
  <2>1. asked[c] \in 0 .. MaxTokens /\ asked' \in [Caller -> 0 .. MaxTokens]
    BY <1>1 DEF WakeUp, BucketInv, BucketIsSound, BucketTypeOK
  <2>2. QED
    BY <1>1, <2>1, TakeKeeps DEF WakeUp
<1>2. ASSUME NEW c \in Caller, NEW n \in 1 .. MaxTokens, Acquire(c, n) PROVE BucketInv'
  <2>1. n \in 0 .. MaxTokens /\ asked' \in [Caller -> 0 .. MaxTokens]
    BY <1>2 DEF Acquire, BucketInv, BucketIsSound, BucketTypeOK
  <2>2. QED
    BY <1>2, <2>1, TakeKeeps DEF Acquire
<1>3. CASE GetAvailableTokens
  <2>1. /\ tokens' = Refilled /\ elapsed' = 0 /\ UNCHANGED <<asked, bucketPc, ideal>>
        /\ Refilled \in 0 .. Capacity /\ Refilled = ideal
        /\ \A t \in 0 .. Capacity : AtMost(Capacity, t + 0 * Rate) = t
    BY <1>3, RefillStays DEF GetAvailableTokens
  <2>2. Refilled' = ideal'
    BY <2>1 DEF Refilled
  <2>3. BucketTypeOK'
    BY <2>1 DEF BucketInv, BucketIsSound, BucketTypeOK
  <2>4. QED
    BY <2>2, <2>3 DEF BucketInv, BucketIsSound, KeepsTheRate
<1>4. CASE BucketTick
  BY <1>4, TickKeeps
<1>5. CASE UNCHANGED bucketVars
  BY <1>5 DEF bucketVars, BucketInv, BucketIsSound, BucketTypeOK, KeepsTheRate, Refilled
<1>6. QED
  BY <1>1, <1>2, <1>3, <1>4, <1>5 DEF BucketNext

\* Whoever calls acquire when: the bucket holds what one refilled at every moment would,
\* so no more is handed out than there was at first and has come since.
THEOREM RateIsKept == BucketSpec => []BucketIsSound
BY BucketInvInit, BucketInvStep, PTL DEF BucketSpec, BucketInv

-----------------------------------------------------------------------------
(* retry and withTimeout.  Of the operations that run, only that of the latest *)
(* attempt may not have been given up, and then the loop awaits it; so an      *)
(* operation that ends late finds its race decided.                           *)

\* The operation a race is still open for is the one the loop awaits.
OneIsAwaited ==
  /\ \A a \in Attempts : operation[a] = "running" /\ a \notin givenUp =>
       retryPc = "run" /\ a = attempt
  /\ retryPc = "run" => attempt \notin givenUp
  /\ \A a \in givenUp : a <= attempt
  /\ retryPc = "sleep" => attempt < MaxRetries

\* Until the loop has resolved there is no answer.
AnsweredWhenResolved ==
  /\ retryPc # "resolved" => answered = {}
  /\ \A a \in answered : a = attempt /\ a \notin givenUp /\ operation[a] = "over"

\* initialDelay, doubled n times and bounded by maxDelay.
Capped(n) ==
  IF InitialDelay * 2 ^ n < MaxDelay THEN InitialDelay * 2 ^ n ELSE MaxDelay

DelayIsCapped ==
  Backoff =>
    /\ retryPc = "run" => delay = IF attempt = 0 THEN InitialDelay ELSE Capped(attempt)
    /\ retryPc = "sleep" => delay = Capped(attempt + 1)

RetryInv == RetryTypeOK /\ OneIsAwaited /\ AnsweredWhenResolved /\ DelayIsCapped

LEMMA RetryConstants ==
  /\ MaxRetries \in Nat /\ InitialDelay \in Nat /\ MaxDelay \in Nat /\ Backoff \in BOOLEAN
  /\ 0 \in Attempts /\ Attempts \subseteq Nat
BY RetryAssumption DEF RetryAssumption, Attempts

\* Doubling a capped delay caps one doubling more.
LEMMA DoubledIsCapped ==
  ASSUME NEW n \in Nat
  PROVE  Doubled(Capped(n)) = Capped(n + 1)
<1>1. PICK p \in Nat : p = 2 ^ n /\ 2 ^ (n + 1) = 2 * p
  BY PowerDoubles
<1>2. PICK d \in Nat : d = InitialDelay * p /\ InitialDelay * (2 * p) = 2 * d
  BY RetryConstants
<1>3. InitialDelay * 2 ^ n = d /\ InitialDelay * 2 ^ (n + 1) = 2 * d
  BY <1>1, <1>2
<1>4. /\ Capped(n) = IF d < MaxDelay THEN d ELSE MaxDelay
      /\ Capped(n + 1) = IF 2 * d < MaxDelay THEN 2 * d ELSE MaxDelay
  BY <1>3 DEF Capped
<1>5. QED
  BY <1>4, RetryConstants DEF Doubled

LEMMA DoubledOnce == Doubled(InitialDelay) = Capped(0 + 1)
<1>1. 2 ^ (0 + 1) = 2
  BY PowerStarts
<1>2. InitialDelay * 2 ^ (0 + 1) = 2 * InitialDelay
  BY <1>1, RetryConstants
<1>3. QED
  BY <1>2 DEF Capped, Doubled

LEMMA RetryInvInit == RetryInit => RetryInv
<1> SUFFICES ASSUME RetryInit PROVE RetryInv
  OBVIOUS
<1>1. RetryTypeOK
  BY RetryConstants DEF RetryInit, RetryTypeOK
<1>2. OneIsAwaited /\ AnsweredWhenResolved
  BY RetryConstants DEF RetryInit, OneIsAwaited, AnsweredWhenResolved
<1>3. DelayIsCapped
  BY DEF RetryInit, DelayIsCapped
<1>4. QED
  BY <1>1, <1>2, <1>3 DEF RetryInv

\* The catch block of an attempt that nobody has given up.
LEMMA CaughtKeeps ==
  ASSUME RetryInv, NEW again \in BOOLEAN, retryPc = "run", Caught(again), attempt' = attempt
  PROVE  /\ retryPc' \in {"sleep", "rejected"} /\ delay' \in Nat
         /\ retryPc' = "sleep" => attempt < MaxRetries
         /\ DelayIsCapped'
<1> USE RetryConstants
<1>1. attempt \in Nat /\ attempt <= MaxRetries /\ delay \in Nat
  BY DEF RetryInv, RetryTypeOK, Attempts
<1>2. CASE attempt = MaxRetries \/ ~again
  BY <1>1, <1>2 DEF Caught, DelayIsCapped
<1>3. CASE ~(attempt = MaxRetries \/ ~again)
  <2>1. /\ retryPc' = "sleep" /\ attempt < MaxRetries
        /\ delay' = IF Backoff THEN Doubled(delay) ELSE delay
    BY <1>1, <1>3 DEF Caught
  <2>2. delay' \in Nat
    BY <1>1, <2>1 DEF Doubled
  <2>3. ASSUME Backoff PROVE delay' = Capped(attempt + 1)
    <3>1. CASE attempt = 0
      <4>1. delay = InitialDelay
        BY <2>3, <3>1 DEF RetryInv, DelayIsCapped
      <4>2. QED
        BY <2>1, <2>3, <3>1, <4>1, DoubledOnce
    <3>2. CASE attempt # 0
      <4>1. delay = Capped(attempt)
        BY <2>3, <3>2 DEF RetryInv, DelayIsCapped
      <4>2. QED
        BY <1>1, <2>1, <2>3, <4>1, DoubledIsCapped
    <3>3. QED
      BY <3>1, <3>2
  <2>4. QED
    BY <2>1, <2>2, <2>3 DEF DelayIsCapped
<1>4. QED
  BY <1>2, <1>3

LEMMA RetryInvStep == RetryInv /\ [RetryNext]_retryVars => RetryInv'
<1> SUFFICES ASSUME RetryInv, [RetryNext]_retryVars PROVE RetryInv'
  OBVIOUS
<1> USE RetryConstants
<1>1. RetryTypeOK /\ OneIsAwaited /\ AnsweredWhenResolved /\ DelayIsCapped
  BY DEF RetryInv
<1>2. ASSUME NEW a \in Attempts, Ends(a) PROVE RetryInv'
  <2>1. /\ operation[a] = "running" /\ operation' = [operation EXCEPT ![a] = "over"]
        /\ attempt' = attempt /\ delay' = delay /\ givenUp' = givenUp
    BY <1>2 DEF Ends
  <2>2. CASE a \notin givenUp
    <3>1. retryPc' = "resolved" /\ answered' = answered \cup {a}
      BY <1>2, <2>2 DEF Ends
    <3>2. a = attempt /\ answered = {}
      BY <1>1, <2>1, <2>2 DEF OneIsAwaited, AnsweredWhenResolved
    <3>3. RetryTypeOK' /\ OneIsAwaited'
      BY <1>1, <2>1, <3>1, <3>2 DEF RetryTypeOK, OneIsAwaited
    <3>4. AnsweredWhenResolved'
      BY <1>1, <2>1, <2>2, <3>1, <3>2 DEF RetryTypeOK, AnsweredWhenResolved
    <3>5. DelayIsCapped'
      BY <3>1 DEF DelayIsCapped
    <3>6. QED
      BY <3>3, <3>4, <3>5 DEF RetryInv
  <2>3. CASE a \in givenUp
    <3>1. retryPc' = retryPc /\ answered' = answered
      BY <1>2, <2>3 DEF Ends
    <3>2. RetryTypeOK' /\ OneIsAwaited'
      BY <1>1, <2>1, <2>3, <3>1 DEF RetryTypeOK, OneIsAwaited
    <3>3. AnsweredWhenResolved' /\ DelayIsCapped'
      BY <1>1, <2>1, <2>3, <3>1 DEF RetryTypeOK, AnsweredWhenResolved, DelayIsCapped
    <3>4. QED
      BY <3>2, <3>3 DEF RetryInv
  <2>4. QED
    BY <2>2, <2>3
<1>3. ASSUME NEW a \in Attempts, NEW again \in BOOLEAN, OperationFails(a, again) PROVE RetryInv'
  <2>1. /\ operation[a] = "running" /\ operation' = [operation EXCEPT ![a] = "failed"]
        /\ attempt' = attempt /\ answered' = answered /\ givenUp' = givenUp
    BY <1>3 DEF OperationFails
  <2>2. CASE a \notin givenUp
    <3>1. a = attempt /\ retryPc = "run" /\ Caught(again)
      BY <1>1, <1>3, <2>1, <2>2 DEF OneIsAwaited, OperationFails
    <3>2. /\ retryPc' \in {"sleep", "rejected"} /\ delay' \in Nat
          /\ retryPc' = "sleep" => attempt < MaxRetries
          /\ DelayIsCapped'
      BY <2>1, <3>1, CaughtKeeps
    <3>3. RetryTypeOK' /\ OneIsAwaited'
      BY <1>1, <2>1, <3>1, <3>2 DEF RetryTypeOK, OneIsAwaited
    <3>4. AnsweredWhenResolved'
      BY <1>1, <2>1, <3>1 DEF AnsweredWhenResolved
    <3>5. QED
      BY <3>2, <3>3, <3>4 DEF RetryInv
  <2>3. CASE a \in givenUp
    <3>1. retryPc' = retryPc /\ delay' = delay
      BY <1>3, <2>3 DEF OperationFails
    <3>2. RetryTypeOK' /\ OneIsAwaited'
      BY <1>1, <2>1, <2>3, <3>1 DEF RetryTypeOK, OneIsAwaited
    <3>3. AnsweredWhenResolved' /\ DelayIsCapped'
      BY <1>1, <2>1, <2>3, <3>1 DEF RetryTypeOK, AnsweredWhenResolved, DelayIsCapped
    <3>4. QED
      BY <3>2, <3>3 DEF RetryInv
  <2>4. QED
    BY <2>2, <2>3
<1>4. ASSUME NEW again \in BOOLEAN, TimerWins(again) PROVE RetryInv'
  <2>1. /\ retryPc = "run" /\ givenUp' = givenUp \cup {attempt} /\ Caught(again)
        /\ attempt' = attempt /\ operation' = operation /\ answered' = answered
    BY <1>4 DEF TimerWins
  <2>2. /\ retryPc' \in {"sleep", "rejected"} /\ delay' \in Nat
        /\ retryPc' = "sleep" => attempt < MaxRetries
        /\ DelayIsCapped'
    BY <2>1, CaughtKeeps
  <2>3. attempt \in Nat
    BY <1>1 DEF RetryTypeOK
  <2>4. RetryTypeOK' /\ OneIsAwaited'
    BY <1>1, <2>1, <2>2, <2>3 DEF RetryTypeOK, OneIsAwaited
  <2>5. AnsweredWhenResolved'
    BY <1>1, <2>1, <2>2 DEF AnsweredWhenResolved
  <2>6. QED
    BY <2>2, <2>4, <2>5 DEF RetryInv
<1>5. CASE Wake
  <2>1. /\ retryPc = "sleep" /\ attempt' = attempt + 1 /\ retryPc' = "run"
        /\ operation' = [operation EXCEPT ![attempt + 1] = "running"]
        /\ delay' = delay /\ answered' = answered /\ givenUp' = givenUp
    BY <1>5 DEF Wake
  <2>2. attempt \in Nat /\ attempt < MaxRetries /\ attempt + 1 \in Attempts
    BY <1>1, <2>1 DEF RetryTypeOK, OneIsAwaited, Attempts
  <2>3. RetryTypeOK'
    BY <1>1, <2>1, <2>2 DEF RetryTypeOK
  <2>4. OneIsAwaited'
    <3>1. \A a \in givenUp : a <= attempt /\ a # attempt + 1 /\ a <= attempt + 1
      BY <1>1, <2>2 DEF OneIsAwaited, RetryTypeOK
    <3>2. QED
      BY <1>1, <2>1, <2>2, <3>1 DEF RetryTypeOK, OneIsAwaited
  <2>5. AnsweredWhenResolved'
    BY <1>1, <2>1 DEF AnsweredWhenResolved
  <2>6. DelayIsCapped'
    BY <1>1, <2>1, <2>2 DEF DelayIsCapped
  <2>7. QED
    BY <2>3, <2>4, <2>5, <2>6 DEF RetryInv
<1>6. CASE UNCHANGED retryVars
  BY <1>1, <1>6 DEF retryVars, RetryInv, RetryTypeOK, OneIsAwaited, AnsweredWhenResolved,
                    DelayIsCapped
<1>7. QED
  BY <1>2, <1>3, <1>4, <1>5, <1>6 DEF RetryNext

LEMMA RetryInvImplies == RetryInv => RetryTypeOK /\ AnswerIsLatest /\ DelayGrows
<1> SUFFICES ASSUME RetryInv PROVE RetryTypeOK /\ AnswerIsLatest /\ DelayGrows
  OBVIOUS
<1>1. answered \subseteq {attempt}
  BY DEF RetryInv, AnsweredWhenResolved
<1>2. Cardinality(answered) <= 1
  <2>1. IsFiniteSet({attempt}) /\ Cardinality({attempt}) = 1
    BY FS_Singleton, Zenon
  <2>2. Cardinality(answered) <= Cardinality({attempt})
    BY <1>1, <2>1, FS_Subset, Zenon
  <2>3. QED
    BY <2>1, <2>2
<1>3. DelayGrows
  BY Zenon DEF RetryInv, DelayIsCapped, Capped, DelayGrows
<1>4. QED
  BY <1>2, <1>3 DEF RetryInv, AnsweredWhenResolved, AnswerIsLatest

-----------------------------------------------------------------------------
(* The pool of connections.  No connection is twice in the stack, none is in   *)
(* the stack and in a hand, none in two hands; and until close the connections *)
(* in use are those in a hand.                                                *)

Distinct(s) == \A i, j \in 1 .. Len(s) : s[i] = s[j] => i = j

PoolTypes ==
  /\ available \in Seq(Connection) /\ inUse \subseteq Connection
  /\ holds \in [Holder -> SUBSET Connection] /\ lingers \in [Holder -> SUBSET Connection]
  /\ refused \subseteq Holder
  /\ poolClosed \in BOOLEAN

\* A connection is in one hand at most, and then it is not in the stack.
OneHand ==
  /\ Distinct(available)
  /\ \A g, h \in Holder : \A c \in Connection : c \in holds[g] /\ c \in holds[h] => g = h
  /\ \A h \in Holder : \A i \in 1 .. Len(available) : available[i] \notin holds[h]

\* Until close the pool knows where each connection is.
PoolKnows ==
  ~poolClosed =>
    /\ \A c \in Connection : c \in inUse <=> \E h \in Holder : c \in holds[h]
    /\ \A c \in Connection : c \in inUse \/ \E i \in 1 .. Len(available) : available[i] = c

PoolInv == PoolTypes /\ OneHand /\ PoolKnows

\* A sequence without repetitions is as long as the set of its elements, and no longer
\* than a finite set they are taken from.
LEMMA DistinctCounts ==
  ASSUME NEW S, IsFiniteSet(S), NEW s \in Seq(S), Distinct(s)
  PROVE  /\ Len(s) = Cardinality({s[i] : i \in 1 .. Len(s)})
         /\ Len(s) <= Cardinality(S)
<1> DEFINE D == 1 .. Len(s)
           E == {s[i] : i \in D}
<1>1. Len(s) \in Nat /\ s \in [D -> S]
  BY LenProperties
<1>2. IsFiniteSet(D) /\ Cardinality(D) = Len(s)
  <2>1. 0 \in Int /\ 1 \in Int /\ Len(s) \in Int
    BY <1>1
  <2>2. IsFiniteSet(D) /\ Cardinality(D) = IF 1 > Len(s) THEN 0 ELSE Len(s) - 1 + 1
    BY <2>1, FS_Interval
  <2>3. QED
    BY <1>1, <2>2
<1>3. E \subseteq S /\ s \in [D -> E] /\ \A x, y \in D : s[x] = s[y] => x = y
  BY <1>1 DEF Distinct
<1>4. \A e \in E : \E i \in D : s[i] = e
  OBVIOUS
<1> HIDE DEF D, E
<1>5. s \in Injection(D, E) /\ s \in Surjection(D, E)
  BY <1>3, <1>4 DEF Injection, Surjection, IsInjective
<1>6. IsFiniteSet(E) /\ Cardinality(E) <= Cardinality(S)
  BY <1>3, FS_Subset
<1>7. Cardinality(D) = Cardinality(E)
  BY <1>5, <1>6, FS_Injection
<1>8. Len(s) = Cardinality(E) /\ Len(s) <= Cardinality(S)
  BY <1>2, <1>6, <1>7
<1>9. QED
  BY <1>8 DEF D, E

\* What the stack starts with is all connections.
LEMMA OrdersAreAll ==
  ASSUME NEW s \in Orders
  PROVE  /\ s \in Seq(Connection) /\ Distinct(s)
         /\ \A c \in Connection : \E i \in 1 .. Len(s) : s[i] = c
<1> DEFINE n == Cardinality(Connection)
           D == 1 .. n
<1>1. n \in Nat
  BY PoolAssumption, FS_CardinalityType DEF PoolAssumption
<1>2. s \in [D -> Connection] /\ \A i, j \in D : s[i] = s[j] => i = j
  BY DEF Orders
<1>3. IsFiniteSet(D) /\ Cardinality(D) = n
  <2>1. 1 \in Int /\ n \in Int
    BY <1>1
  <2> HIDE DEF n
  <2>2. IsFiniteSet(D) /\ Cardinality(D) = IF 1 > n THEN 0 ELSE n - 1 + 1
    BY <2>1, FS_Interval
  <2>3. QED
    BY <1>1, <2>2
<1>4. s \in Seq(Connection) /\ Len(s) = n
  <2> HIDE DEF n
  <2>1. QED
    BY <1>1, <1>2, IsASeq
<1>5. Distinct(s)
  BY <1>2, <1>4 DEF Distinct
<1>6. s \in Surjection(D, Connection)
  <2> HIDE DEF D
  <2>1. s \in Injection(D, Connection)
    BY <1>2 DEF Injection, IsInjective
  <2>2. QED
    BY <1>3, <2>1, PoolAssumption, FS_Injection DEF PoolAssumption
<1>7. \A c \in Connection : \E i \in D : s[i] = c
  BY <1>6 DEF Surjection
<1>8. QED
  BY <1>4, <1>5, <1>7

LEMMA PoolInvInit == PoolInit => PoolInv
<1> SUFFICES ASSUME PoolInit PROVE PoolInv
  OBVIOUS
<1>1. /\ available \in Seq(Connection) /\ Distinct(available)
      /\ \A c \in Connection : \E i \in 1 .. Len(available) : available[i] = c
  BY OrdersAreAll DEF PoolInit
<1>2. PoolTypes
  BY <1>1 DEF PoolInit, PoolTypes
<1>3. OneHand /\ PoolKnows
  BY <1>1 DEF PoolInit, OneHand, PoolKnows
<1>4. QED
  BY <1>2, <1>3 DEF PoolInv

\* The stack without its top.
LEMMA TopFacts ==
  ASSUME NEW s \in Seq(Connection), s # <<>>, NEW t, t = SubSeq(s, 1, Len(s) - 1)
  PROVE  /\ t \in Seq(Connection) /\ Len(s) \in Nat \ {0} /\ Len(t) = Len(s) - 1
         /\ \A i \in 1 .. Len(t) : i \in 1 .. Len(s) /\ i # Len(s) /\ t[i] = s[i]
         /\ \A i \in 1 .. Len(s) : i # Len(s) => i \in 1 .. Len(t)
         /\ s[Len(s)] \in Connection
<1>1. Len(s) \in Nat /\ Len(s) # 0
  BY EmptySeq, LenProperties
<1>2. \A i \in 1 .. Len(s) : s[i] \in Connection
  BY ElementOfSeq
<1>3. t \in Seq(Connection) /\ Len(t) = Len(s) - 1
        /\ \A i \in 1 .. Len(s) - 1 : t[i] = s[i]
  <2>1. 1 \in 1 .. Len(s) + 1 /\ Len(s) - 1 \in 0 .. Len(s)
    BY <1>1
  <2>2. /\ t \in Seq(Connection)
        /\ Len(t) = IF 1 <= Len(s) - 1 THEN Len(s) - 1 - 1 + 1 ELSE 0
        /\ \A i \in 1 .. Len(s) - 1 - 1 + 1 : t[i] = s[1 + i - 1]
    BY <2>1, SubSeqProperties
  <2>3. \A i \in 1 .. Len(s) - 1 : i \in 1 .. Len(s) - 1 - 1 + 1 /\ 1 + i - 1 = i
    BY <1>1
  <2>4. Len(t) = Len(s) - 1
    <3>1. PICK n \in Nat \ {0} : n = Len(s)
      BY <1>1
    <3>2. Len(t) = IF 1 <= n - 1 THEN n - 1 - 1 + 1 ELSE 0
      BY ONLY <2>2, <3>1
    <3>3. QED
      BY ONLY <3>1, <3>2
  <2>5. \A i \in 1 .. Len(s) - 1 : t[i] = s[i]
    BY <2>2, <2>3
  <2>6. QED
    BY <2>2, <2>4, <2>5
<1>4. QED
  BY <1>1, <1>2, <1>3

LEMMA PoolInvStep == PoolInv /\ [PoolNext]_poolVars => PoolInv'
<1> SUFFICES ASSUME PoolInv, [PoolNext]_poolVars PROVE PoolInv'
  OBVIOUS
<1>1. PoolTypes /\ OneHand /\ PoolKnows
  BY DEF PoolInv
<1>2. CASE ClosePool
  <2>1. PoolTypes'
    BY <1>1, <1>2 DEF ClosePool, PoolTypes
  <2>2. OneHand' /\ PoolKnows'
    BY <1>1, <1>2 DEF ClosePool, OneHand, PoolKnows, Distinct
  <2>3. QED
    BY <2>1, <2>2 DEF PoolInv
<1>3. ASSUME NEW h \in Holder, AcquireConnection(h) PROVE PoolInv'
  <2>1. CASE available = <<>>
    <3>1. /\ refused' = refused \cup {h}
          /\ UNCHANGED <<available, inUse, holds, lingers, poolClosed>>
      BY <1>3, <2>1 DEF AcquireConnection
    <3>2. QED
      BY <1>1, <3>1 DEF PoolInv, PoolTypes, OneHand, PoolKnows, Distinct
  <2>2. CASE available # <<>>
    <3> DEFINE c == available[Len(available)]
    <3>1. /\ available' = SubSeq(available, 1, Len(available) - 1)
          /\ inUse' = inUse \cup {c}
          /\ holds' = [holds EXCEPT ![h] = @ \cup {c}]
          /\ refused' = refused \ {h} /\ poolClosed' = poolClosed /\ lingers' = lingers
      BY <1>3, <2>2 DEF AcquireConnection, TakeTop, Top
    <3>2. /\ available' \in Seq(Connection) /\ Len(available) \in Nat \ {0}
          /\ \A i \in 1 .. Len(available') :
               i \in 1 .. Len(available) /\ i # Len(available) /\ available'[i] = available[i]
          /\ \A i \in 1 .. Len(available) : i # Len(available) => i \in 1 .. Len(available')
          /\ c \in Connection
      BY <1>1, <2>2, <3>1, TopFacts DEF PoolTypes
    <3>3. Len(available) \in 1 .. Len(available)
      BY <3>2
    <3>4. /\ \A i \in 1 .. Len(available') : available'[i] # c
          /\ \A g \in Holder : c \notin holds[g]
          /\ \A g \in Holder : holds'[g] = IF g = h THEN holds[g] \cup {c} ELSE holds[g]
      <4>1. \A i \in 1 .. Len(available') : available'[i] # c
        BY <1>1, <3>2, <3>3 DEF OneHand, Distinct
      <4>2. \A g \in Holder : c \notin holds[g]
        BY <1>1, <3>3 DEF OneHand
      <4>3. \A g \in Holder : holds'[g] = IF g = h THEN holds[g] \cup {c} ELSE holds[g]
        BY <1>1, <3>1 DEF PoolTypes
      <4>4. QED
        BY <4>1, <4>2, <4>3
    <3> HIDE DEF c
    <3>5. PoolTypes'
      BY <1>1, <3>1, <3>2 DEF PoolTypes
    <3>6. Distinct(available')
      BY <1>1, <3>2 DEF OneHand, Distinct
    <3>7. OneHand'
      <4>1. \A f, g \in Holder : \A e \in Connection : e \in holds'[f] /\ e \in holds'[g] => f = g
        BY <1>1, <3>4 DEF OneHand
      <4>2. \A g \in Holder : \A i \in 1 .. Len(available') : available'[i] \notin holds'[g]
        BY <1>1, <3>2, <3>4 DEF OneHand
      <4>3. QED
        BY <3>6, <4>1, <4>2 DEF OneHand
    <3>8. PoolKnows'
      <4> SUFFICES ASSUME ~poolClosed PROVE
            /\ \A e \in Connection : e \in inUse' <=> \E g \in Holder : e \in holds'[g]
            /\ \A e \in Connection :
                 e \in inUse' \/ \E i \in 1 .. Len(available') : available'[i] = e
        BY <3>1 DEF PoolKnows
      <4>1. \A e \in Connection : e \in inUse' <=> \E g \in Holder : e \in holds'[g]
        <5>1. \A e \in Connection : e \in inUse <=> \E g \in Holder : e \in holds[g]
          BY <1>1 DEF PoolKnows
        <5>2. \A e \in Connection :
                (\E g \in Holder : e \in holds'[g]) <=> e = c \/ \E g \in Holder : e \in holds[g]
          BY <3>4
        <5>3. QED
          BY <3>1, <5>1, <5>2
      <4>2. ASSUME NEW e \in Connection, e \notin inUse'
            PROVE  \E i \in 1 .. Len(available') : available'[i] = e
        <5>1. e # c /\ e \notin inUse
          BY <3>1, <4>2
        <5>2. PICK i \in 1 .. Len(available) : available[i] = e
          BY <1>1, <5>1 DEF PoolKnows
        <5>3. i # Len(available)
          BY <5>1, <5>2 DEF c
        <5>4. QED
          BY <3>2, <5>2, <5>3
      <4>3. QED
        BY <4>1, <4>2
    <3>9. QED
      BY <3>5, <3>7, <3>8 DEF PoolInv
  <2>3. QED
    BY <2>1, <2>2
<1>4. ASSUME NEW h \in Holder, ExecuteOnce(h) PROVE PoolInv'
  <2>1. refused' \subseteq Holder /\ UNCHANGED <<available, inUse, holds, lingers, poolClosed>>
    BY <1>1, <1>4 DEF ExecuteOnce, PoolTypes
  <2>2. QED
    BY <1>1, <2>1 DEF PoolInv, PoolTypes, OneHand, PoolKnows, Distinct
<1>5. ASSUME NEW h \in Holder, NEW c \in Connection, Release(h, c) PROVE PoolInv'
  <2>1. /\ c \in holds[h] /\ inUse' = inUse \ {c}
        /\ available' = Append(available, c)
        /\ refused' = refused /\ poolClosed' = poolClosed /\ lingers' = lingers
        /\ \A g \in Holder : holds'[g] = IF g = h THEN holds[g] \ {c} ELSE holds[g]
    BY <1>1, <1>5 DEF Release, PoolTypes
  <2>2. /\ available' \in Seq(Connection) /\ Len(available) \in Nat
        /\ Len(available') = Len(available) + 1
        /\ available'[Len(available')] = c
        /\ \A i \in 1 .. Len(available) : i \in 1 .. Len(available') /\ available'[i] = available[i]
        /\ \A i \in 1 .. Len(available') : i = Len(available') \/ i \in 1 .. Len(available)
        /\ Len(available') \in 1 .. Len(available')
    <3>1. available \in Seq(Connection) /\ Len(available) \in Nat
      BY <1>1, LenProperties DEF PoolTypes
    <3>2. QED
      BY <2>1, <3>1, AppendProperties
  <2>3. /\ \A g \in Holder : c \notin holds'[g]
        /\ \A i \in 1 .. Len(available) : available[i] # c
    BY <1>1, <2>1 DEF OneHand
  <2>4. PoolTypes'
    BY <1>1, <1>5, <2>1, <2>2 DEF Release, PoolTypes
  <2>5. Distinct(available')
    BY <1>1, <2>2, <2>3 DEF OneHand, Distinct
  <2>6. OneHand'
    <3>1. \A f, g \in Holder : \A e \in Connection : e \in holds'[f] /\ e \in holds'[g] => f = g
      BY <1>1, <2>1 DEF OneHand
    <3>2. ASSUME NEW g \in Holder, NEW i \in 1 .. Len(available')
          PROVE  available'[i] \notin holds'[g]
      <4>1. CASE i = Len(available')
        BY <2>2, <2>3, <4>1
      <4>2. CASE i \in 1 .. Len(available)
        BY <1>1, <2>1, <2>2, <4>2 DEF OneHand
      <4>3. QED
        BY <2>2, <4>1, <4>2
    <3>3. QED
      BY <2>5, <3>1, <3>2 DEF OneHand
  <2>7. PoolKnows'
    <3> SUFFICES ASSUME ~poolClosed PROVE
          /\ \A e \in Connection : e \in inUse' <=> \E g \in Holder : e \in holds'[g]
          /\ \A e \in Connection :
               e \in inUse' \/ \E i \in 1 .. Len(available') : available'[i] = e
      BY <2>1 DEF PoolKnows
    <3>1. \A e \in Connection : e \in inUse' <=> \E g \in Holder : e \in holds'[g]
      BY <1>1, <2>1, <2>3 DEF PoolKnows
    <3>2. \A e \in Connection :
            e \in inUse' \/ \E i \in 1 .. Len(available') : available'[i] = e
      BY <1>1, <2>1, <2>2 DEF PoolKnows
    <3>3. QED
      BY <3>1, <3>2
  <2>8. QED
    BY <2>4, <2>6, <2>7 DEF PoolInv
<1>6. ASSUME NEW h \in Holder, ExecuteAsync(h) PROVE PoolInv'
  <2>1. /\ lingers' = [lingers EXCEPT ![h] = @ \cup {available[Len(available)]}]
        /\ refused' = refused \ {h} /\ UNCHANGED <<available, inUse, holds, poolClosed>>
    BY <1>6 DEF ExecuteAsync, Top
  <2>2. available[Len(available)] \in Connection
    <3>1. available \in Seq(Connection) /\ available # <<>>
      BY <1>1, <1>6 DEF ExecuteAsync, PoolTypes
    <3>2. Len(available) \in 1 .. Len(available)
      BY <3>1, EmptySeq, LenProperties
    <3>3. QED
      BY <3>1, <3>2, ElementOfSeq
  <2>3. PoolTypes'
    BY <1>1, <2>1, <2>2 DEF PoolTypes
  <2>4. QED
    BY <1>1, <2>1, <2>3 DEF PoolInv, OneHand, PoolKnows, Distinct
<1>7. ASSUME NEW h \in Holder, NEW c \in Connection, LingerEnds(h, c) PROVE PoolInv'
  <2>1. /\ lingers' = [lingers EXCEPT ![h] = @ \ {c}]
        /\ UNCHANGED <<available, inUse, holds, refused, poolClosed>>
    BY <1>7 DEF LingerEnds
  <2>2. PoolTypes'
    BY <1>1, <2>1 DEF PoolTypes
  <2>3. QED
    BY <1>1, <2>1, <2>2 DEF PoolInv, OneHand, PoolKnows, Distinct
<1>8. CASE UNCHANGED poolVars
  BY <1>1, <1>8 DEF poolVars, PoolInv, PoolTypes, OneHand, PoolKnows, Distinct
<1>9. QED
  BY <1>2, <1>3, <1>4, <1>5, <1>6, <1>7, <1>8 DEF PoolNext

LEMMA PoolInvImplies == PoolInv => PoolIsSound
<1> SUFFICES ASSUME PoolInv PROVE PoolIsSound
  OBVIOUS
<1>1. PoolTypes /\ OneHand /\ PoolKnows
  BY DEF PoolInv
<1>2. Len(available) = Cardinality(Free) /\ Len(available) <= Cardinality(Connection)
  BY <1>1, DistinctCounts, PoolAssumption DEF PoolAssumption, PoolTypes, OneHand, Free
<1>3. PoolTypeOK
  BY <1>1, <1>2 DEF PoolTypes, PoolTypeOK
<1>4. \A e \in Free : e \in Connection /\ \A h \in Holder : e \notin holds[h]
  <2>1. \A i \in 1 .. Len(available) : available[i] \in Connection
    BY <1>1, ElementOfSeq DEF PoolTypes
  <2>2. QED
    BY <1>1, <2>1 DEF Free, OneHand
<1>5. HeldOnce
  <2> SUFFICES ASSUME ~poolClosed
               PROVE  /\ \A c \in Connection :
                           Cardinality({h \in Holder : c \in holds[h]})
                             = (IF c \in inUse THEN 1 ELSE 0)
                      /\ Free \cap inUse = {}
    BY DEF HeldOnce
  <2>1. ASSUME NEW c \in Connection
        PROVE  Cardinality({h \in Holder : c \in holds[h]}) = (IF c \in inUse THEN 1 ELSE 0)
    <3>1. CASE c \in inUse
      <4>1. PICK h \in Holder : c \in holds[h]
        BY <1>1, <3>1 DEF PoolKnows
      <4>2. {g \in Holder : c \in holds[g]} = {h}
        BY <1>1, <4>1 DEF OneHand
      <4>3. Cardinality({h}) = 1
        BY FS_Singleton
      <4>4. QED
        BY <3>1, <4>2, <4>3
    <3>2. CASE c \notin inUse
      <4>1. {g \in Holder : c \in holds[g]} = {}
        BY <1>1, <3>2 DEF PoolKnows
      <4>2. Cardinality({}) = 0
        BY FS_EmptySet
      <4>3. QED
        BY <3>2, <4>1, <4>2
    <3>3. QED
      BY <3>1, <3>2
  <2>2. Free \cap inUse = {}
    BY <1>1, <1>4 DEF PoolKnows
  <2>3. QED
    BY <2>1, <2>2
<1>6. NoneLost
  <2>1. ~poolClosed => Free \cup inUse = Connection
    BY <1>1, <1>4 DEF PoolKnows, PoolTypes, Free
  <2>2. QED
    BY <1>2, <2>1 DEF NoneLost
<1>7. QED
  BY <1>3, <1>5, <1>6 DEF PoolIsSound

-----------------------------------------------------------------------------
(* The monitors.  The readings kept are the end of all readings, so a leak     *)
(* found in them is one of the whole series.                                  *)

\* s is the end of r, as long as the monitor allows.
EndOf(s, r) ==
  /\ Len(s) = IF Len(r) > MaxSnapshots THEN MaxSnapshots ELSE Len(r)
  /\ \A i \in 1 .. Len(s) : s[i] = r[Len(r) - Len(s) + i]

\* What LeakIsReported says of the readings.
Risen(r) ==
  /\ Len(r) >= LeakWindow
  /\ \E low, high \in Usage :
       /\ r[Len(r) - LeakWindow + 1] = low /\ r[Len(r)] = high /\ high > low + LeakGrowth
       /\ \A i, j \in Len(r) - LeakWindow + 1 .. Len(r) : i <= j => r[i] <= r[j]

MonitorsInv ==
  /\ MonitorsTypeOK
  /\ EndOf(snapshots, readings)
  /\ looked => ("leak" \in alarms <=> Leak(snapshots))
  /\ health = Overall(checks)

LEMMA MonitorConstants ==
  /\ MaxSnapshots \in Nat /\ LeakGrowth \in Nat /\ Warning \in Nat /\ Critical \in Nat
  /\ MaxUsage \in Nat /\ MaxReadings \in Nat
  /\ LeakWindow \in Nat /\ 1 <= LeakWindow /\ LeakWindow <= MaxSnapshots
  /\ Usage \subseteq Nat
BY MonitorsAssumption DEF MonitorsAssumption, Usage

\* A series in which no reading is below the one before it never falls.
LEMMA NeverFalls ==
  ASSUME NEW r, NEW a \in Nat, NEW b \in Nat, \A i \in a .. b : r[i] \in Nat,
         \A i \in a + 1 .. b : r[i] >= r[i - 1]
  PROVE  \A i, j \in a .. b : i <= j => r[i] <= r[j]
<1> SUFFICES ASSUME NEW i \in a .. b, NEW k \in a .. b, i <= k, ~ (r[i] <= r[k]) PROVE FALSE
  OBVIOUS
<1> DEFINE T == {j \in i .. b : ~ (r[i] <= r[j])}
<1>1. T \subseteq Nat /\ T # {}
  OBVIOUS
<1>2. PICK j \in T : \A y \in T : j <= y
  <2> HIDE DEF T
  <2>1. QED
    BY <1>1, LeastOf
<1>3. /\ i \in Nat /\ j \in i .. b /\ j \in a .. b /\ ~ (r[i] <= r[j])
      /\ r[i] \in Nat /\ r[j] \in Nat
  OBVIOUS
<1>4. j # i
  BY <1>3
<1>5. j - 1 \in i .. b /\ j - 1 \in a .. b /\ j \in a + 1 .. b
  BY <1>3, <1>4
<1>6. ~ (j <= j - 1)
  BY <1>3
<1>7. r[i] <= r[j - 1]
  BY <1>2, <1>5, <1>6
<1>8. r[j - 1] \in Nat /\ r[j] >= r[j - 1]
  BY <1>5
<1>9. QED
  BY <1>3, <1>7, <1>8

\* The verdict on the readings kept is that on all readings.
LEMMA LeakIsRisen ==
  ASSUME NEW s \in Seq(Usage), NEW r \in Seq(Usage), EndOf(s, r)
  PROVE  Leak(s) <=> Risen(r)
<1> DEFINE n == Len(r)
           m == Len(s)
           a == n - LeakWindow + 1
           b == m - LeakWindow + 1
<1> USE MonitorConstants
<1>1. /\ n \in Nat /\ m \in Nat /\ m <= n
      /\ \A i \in 1 .. n : r[i] \in Usage
      /\ \A i \in 1 .. m : s[i] \in Usage /\ s[i] = r[n - m + i]
  <2>1. n \in Nat /\ m \in Nat
    BY LenProperties
  <2>2. (\A i \in 1 .. n : r[i] \in Usage) /\ (\A i \in 1 .. m : s[i] \in Usage)
    BY ElementOfSeq
  <2>3. m = (IF n > MaxSnapshots THEN MaxSnapshots ELSE n)
        /\ \A i \in 1 .. m : s[i] = r[n - m + i]
    BY DEF EndOf
  <2>4. m <= n
    BY <2>1, <2>3
  <2>5. QED
    BY <2>1, <2>2, <2>3, <2>4
<1>2. m >= LeakWindow <=> n >= LeakWindow
  BY <1>1 DEF EndOf
<1>3. CASE ~ (n >= LeakWindow)
  BY <1>2, <1>3 DEF Leak, Risen
<1>4. CASE n >= LeakWindow
  <2>1. /\ m >= LeakWindow /\ a \in Nat /\ b \in Nat /\ a >= 1 /\ b >= 1 /\ a <= n /\ b <= m
        /\ n - m + b = a /\ n - m + m = n
    BY <1>1, <1>2, <1>4
  <2>2. /\ b \in 1 .. m /\ m \in 1 .. m /\ a \in 1 .. n /\ n \in 1 .. n
        /\ n - m + b = a /\ n - m + m = n
    BY <1>1, <2>1
  <2> HIDE DEF a, b, n, m
  <2>3. s[b] = r[a] /\ s[m] = r[n] /\ r[a] \in Usage /\ r[n] \in Usage
    BY <1>1, <2>2
  <2>4. \A i \in a .. n : i \in 1 .. n /\ r[i] \in Nat
    <3>1. \A i \in a .. n : i \in 1 .. n
      BY ONLY <1>1, <2>1
    <3>2. \A i \in 1 .. n : r[i] \in Nat
      BY <1>1
    <3>3. QED
      BY <3>1, <3>2
  <2>5. ASSUME \A i \in b + 1 .. m : s[i] >= s[i - 1] PROVE \A i \in a + 1 .. n : r[i] >= r[i - 1]
    <3> SUFFICES ASSUME NEW i \in a + 1 .. n PROVE r[i] >= r[i - 1]
      OBVIOUS
    <3>1. PICK k \in Int : k = i - n + m
      BY <1>1
    <3>2. /\ k \in b + 1 .. m /\ k \in 1 .. m /\ k - 1 \in 1 .. m
          /\ n - m + k = i /\ n - m + (k - 1) = i - 1
      BY <1>1, <2>1, <3>1
    <3>3. s[k] = r[i] /\ s[k - 1] = r[i - 1]
      BY <1>1, <3>2
    <3>4. QED
      BY <2>5, <3>2, <3>3
  <2>6. ASSUME \A i \in a + 1 .. n : r[i] >= r[i - 1] PROVE \A i, j \in a .. n : i <= j => r[i] <= r[j]
    BY <1>1, <2>1, <2>4, <2>6, NeverFalls
  <2>7. ASSUME \A i, j \in a .. n : i <= j => r[i] <= r[j] PROVE \A i \in b + 1 .. m : s[i] >= s[i - 1]
    <3> SUFFICES ASSUME NEW i \in b + 1 .. m PROVE s[i] >= s[i - 1]
      OBVIOUS
    <3>1. PICK k \in Int : k = n - m + i
      BY <1>1
    <3>2. /\ k \in a .. n /\ k - 1 \in a .. n /\ k - 1 <= k /\ i \in 1 .. m /\ i - 1 \in 1 .. m
          /\ n - m + i = k /\ n - m + (i - 1) = k - 1
      BY <1>1, <2>1, <3>1
    <3>3. s[i] = r[k] /\ s[i - 1] = r[k - 1]
      BY <1>1, <3>2
    <3>4. r[k - 1] <= r[k] /\ r[k] \in Nat /\ r[k - 1] \in Nat
      BY <2>4, <2>7, <3>2
    <3>5. QED
      BY <3>3, <3>4
  <2>8. Leak(s) <=> (\A i \in b + 1 .. m : s[i] >= s[i - 1]) /\ s[m] - s[b] > LeakGrowth
    <3>1. m - LeakWindow + 2 = b + 1
      BY <1>1 DEF b
    <3>2. Leak(s) <=> /\ m >= LeakWindow
                      /\ \A i \in m - LeakWindow + 2 .. m : s[i] >= s[i - 1]
                      /\ s[m] - s[b] > LeakGrowth
      BY DEF Leak, m, b
    <3>3. QED
      BY <2>1, <3>1, <3>2
  <2>9. Risen(r) <=> r[n] > r[a] + LeakGrowth /\ \A i, j \in a .. n : i <= j => r[i] <= r[j]
    <3>1. Risen(r) <=>
            /\ n >= LeakWindow
            /\ \E low, high \in Usage :
                 /\ r[a] = low /\ r[n] = high /\ high > low + LeakGrowth
                 /\ \A i, j \in a .. n : i <= j => r[i] <= r[j]
      BY DEF Risen, n, a
    <3>2. QED
      BY <1>4, <2>3, <3>1
  <2>10. s[m] - s[b] > LeakGrowth <=> r[n] > r[a] + LeakGrowth
    <3>1. PICK low \in Nat, high \in Nat : low = r[a] /\ high = r[n]
      BY <2>3
    <3>2. s[m] = high /\ s[b] = low
      BY <2>3, <3>1
    <3>3. high - low > LeakGrowth <=> high > low + LeakGrowth
      OBVIOUS
    <3>4. QED
      BY <3>1, <3>2, <3>3
  <2>11. QED
    BY <2>5, <2>6, <2>7, <2>8, <2>9, <2>10
<1>5. QED
  BY <1>3, <1>4

\* What a reading does to the readings kept and to all of them.
LEMMA TakesKeeps ==
  ASSUME MonitorsInv, NEW h \in Usage, Takes(h)
  PROVE  /\ snapshots' \in Seq(Usage) /\ Len(snapshots') <= MaxSnapshots
         /\ readings' \in Seq(Usage) /\ EndOf(snapshots, readings)'
<1> DEFINE s == Append(snapshots, h)
           n == Len(readings)
           m == Len(snapshots)
<1> USE MonitorConstants
<1>1. /\ snapshots \in Seq(Usage) /\ readings \in Seq(Usage) /\ m \in Nat /\ n \in Nat
      /\ m <= n /\ m <= MaxSnapshots
      /\ m = IF n > MaxSnapshots THEN MaxSnapshots ELSE n
      /\ \A i \in 1 .. m : snapshots[i] = readings[n - m + i]
  <2>1. snapshots \in Seq(Usage) /\ readings \in Seq(Usage) /\ m <= MaxSnapshots
    BY DEF MonitorsInv, MonitorsTypeOK
  <2>2. m \in Nat /\ n \in Nat
    BY <2>1, LenProperties
  <2>3. /\ m = IF n > MaxSnapshots THEN MaxSnapshots ELSE n
        /\ \A i \in 1 .. m : snapshots[i] = readings[n - m + i]
    BY DEF MonitorsInv, EndOf
  <2>4. m <= n
    BY <2>2, <2>3
  <2>5. QED
    BY <2>1, <2>2, <2>3, <2>4
<1>2. /\ readings' = Append(readings, h)
      /\ snapshots' = IF Len(s) > MaxSnapshots THEN Tail(s) ELSE s
  BY DEF Takes, Kept
<1>3. /\ readings' \in Seq(Usage) /\ Len(readings') = n + 1 /\ readings'[n + 1] = h
      /\ \A i \in 1 .. n : readings'[i] = readings[i]
  BY <1>1, <1>2, AppendProperties
<1>4. /\ s \in Seq(Usage) /\ Len(s) = m + 1 /\ s[m + 1] = h /\ s # <<>>
      /\ \A i \in 1 .. m : s[i] = snapshots[i]
  BY <1>1, AppendProperties
<1> HIDE DEF s, n, m
<1>5. \A i \in 1 .. m + 1 : s[i] = readings'[n - m + i]
  <2> SUFFICES ASSUME NEW i \in 1 .. m + 1 PROVE s[i] = readings'[n - m + i]
    OBVIOUS
  <2>1. CASE i = m + 1
    <3>1. n - m + i = n + 1
      BY <1>1, <2>1
    <3>2. QED
      BY <1>3, <1>4, <2>1, <3>1
  <2>2. CASE i \in 1 .. m
    <3>1. n - m + i \in 1 .. n
      BY <1>1, <2>2
    <3>2. QED
      BY <1>1, <1>3, <1>4, <2>2, <3>1
  <2>3. i = m + 1 \/ i \in 1 .. m
    BY <1>1
  <2>4. QED
    BY <2>1, <2>2, <2>3
<1>6. CASE m < MaxSnapshots
  <2>1. snapshots' = s /\ m = n /\ Len(s) <= MaxSnapshots
    BY <1>1, <1>2, <1>4, <1>6
  <2>2. Len(readings') - Len(s) = n - m
    BY <1>1, <1>3, <1>4
  <2>3. QED
    BY <1>1, <1>3, <1>4, <1>5, <1>6, <2>1, <2>2 DEF EndOf
<1>7. CASE m = MaxSnapshots
  <2>1. snapshots' = Tail(s)
    BY <1>2, <1>4, <1>7
  <2>2. /\ snapshots' \in Seq(Usage) /\ Len(snapshots') = m
        /\ \A i \in 1 .. m : snapshots'[i] = s[i + 1]
    <3>1. /\ Tail(s) \in Seq(Usage) /\ Len(Tail(s)) = Len(s) - 1
          /\ \A i \in 1 .. Len(Tail(s)) : Tail(s)[i] = s[i + 1]
      BY <1>4, HeadTailProperties
    <3>2. Len(Tail(s)) = m
      BY <1>1, <1>4, <3>1
    <3>3. QED
      BY <2>1, <3>1, <3>2
  <2>3. ASSUME NEW i \in 1 .. m PROVE snapshots'[i] = readings'[Len(readings') - m + i]
    <3>1. i + 1 \in 1 .. m + 1 /\ n - m + (i + 1) = Len(readings') - m + i
      BY <1>1, <1>3
    <3>2. QED
      BY <1>5, <2>2, <3>1
  <2>4. Len(readings') > MaxSnapshots
    BY <1>1, <1>3, <1>7
  <2>5. QED
    BY <1>1, <1>3, <1>7, <2>2, <2>3, <2>4 DEF EndOf
<1>8. QED
  BY <1>1, <1>6, <1>7

LEMMA OverallIsOne == \A v : Overall(v) \in {"healthy", "degraded", "unhealthy"}
BY DEF Overall

LEMMA MonitorsInvInit == MonitorsInit => MonitorsInv
<1> SUFFICES ASSUME MonitorsInit PROVE MonitorsInv
  OBVIOUS
<1>1. MonitorsTypeOK
  <2>1. /\ snapshots = <<>> /\ readings = <<>> /\ alarms = {} /\ ticking = FALSE /\ looked = FALSE
        /\ checks = {"pass"} /\ health = "healthy"
    BY DEF MonitorsInit
  <2>2. <<>> \in Seq(Usage) /\ Len(<<>>) <= MaxSnapshots
    BY MonitorConstants
  <2>3. {"pass"} \in CheckResults
    <3>1. {"pass"} \in SUBSET Verdicts
      BY DEF Verdicts
    <3>2. {"pass"} # {} /\ {"pass"} # {"fail"}
      <4>1. "pass" \in {"pass"} /\ "pass" \notin {} /\ "pass" \notin {"fail"}
        OBVIOUS
      <4>2. QED
        BY <4>1
    <3>3. {"pass"} \notin {{}, {"fail"}}
      BY <3>2
    <3>4. {"pass"} \in (SUBSET Verdicts) \ {{}, {"fail"}}
      BY <3>1, <3>3
    <3>5. QED
      BY <3>4 DEF CheckResults
  <2>4. {FALSE, FALSE} \subseteq BOOLEAN
    OBVIOUS
  <2>5. QED
    BY <2>1, <2>2, <2>3, <2>4 DEF MonitorsTypeOK
<1>2. EndOf(snapshots, readings)
  BY MonitorConstants DEF MonitorsInit, EndOf
<1>3. health = Overall(checks) /\ ~looked
  BY DEF MonitorsInit, Overall
<1>4. QED
  BY <1>1, <1>2, <1>3 DEF MonitorsInv

LEMMA MonitorsInvStep == MonitorsInv /\ [MonitorsNext]_monitorVars => MonitorsInv'
<1> SUFFICES ASSUME MonitorsInv, [MonitorsNext]_monitorVars PROVE MonitorsInv'
  OBVIOUS
<1> USE MonitorConstants
<1>1. ASSUME NEW h \in Usage, StartMonitor(h) PROVE MonitorsInv'
  <2>1. /\ snapshots' \in Seq(Usage) /\ Len(snapshots') <= MaxSnapshots
        /\ readings' \in Seq(Usage) /\ EndOf(snapshots, readings)'
    BY <1>1, TakesKeeps DEF StartMonitor
  <2>2. /\ ticking' = TRUE /\ alarms' = {} /\ looked' = FALSE
        /\ checks' = checks /\ health' = health
    BY <1>1 DEF StartMonitor
  <2>3. QED
    BY <2>1, <2>2 DEF MonitorsInv, MonitorsTypeOK
<1>2. ASSUME NEW h \in Usage, NEW rss \in {h, MaxUsage}, MonitorTick(h, rss) PROVE MonitorsInv'
  <2>1. /\ snapshots' \in Seq(Usage) /\ Len(snapshots') <= MaxSnapshots
        /\ readings' \in Seq(Usage) /\ EndOf(snapshots, readings)'
    BY <1>2, TakesKeeps DEF MonitorTick
  <2>2. /\ alarms' = CheckThresholds(h, rss) \cup (IF Leak(snapshots') THEN {"leak"} ELSE {})
        /\ looked' = TRUE /\ ticking' = ticking /\ checks' = checks /\ health' = health
    BY <1>2 DEF MonitorTick
  <2>3. CheckThresholds(h, rss) \in SUBSET {"warning", "critical"}
    BY DEF CheckThresholds
  <2>4. /\ alarms' \subseteq {"warning", "critical", "leak"}
        /\ "leak" \in alarms' <=> Leak(snapshots')
    BY <2>2, <2>3
  <2>5. Leak(snapshots)' <=> Leak(snapshots')
    BY DEF Leak
  <2>6. MonitorsTypeOK'
    BY <2>1, <2>2, <2>4 DEF MonitorsInv, MonitorsTypeOK
  <2>7. QED
    BY <2>1, <2>2, <2>4, <2>5, <2>6 DEF MonitorsInv
<1>3. CASE StopMonitor
  BY <1>3 DEF StopMonitor, MonitorsInv, MonitorsTypeOK, EndOf, Leak
<1>4. CASE ClearSnapshots
  <2>1. EndOf(snapshots, readings)'
    BY <1>4 DEF ClearSnapshots, EndOf
  <2>2. MonitorsTypeOK'
    <3>1. /\ snapshots' = <<>> /\ readings' = <<>> /\ alarms' = {} /\ looked' = FALSE
          /\ ticking' = ticking /\ checks' = checks /\ health' = health
      BY <1>4 DEF ClearSnapshots
    <3>2. <<>> \in Seq(Usage) /\ Len(<<>>) <= MaxSnapshots
      OBVIOUS
    <3>3. {ticking, FALSE} \subseteq BOOLEAN
      BY DEF MonitorsInv, MonitorsTypeOK
    <3>4. checks \in CheckResults /\ health \in {"healthy", "degraded", "unhealthy"}
      BY DEF MonitorsInv, MonitorsTypeOK
    <3>5. QED
      BY <3>1, <3>2, <3>3, <3>4 DEF MonitorsTypeOK
  <2>3. QED
    BY <1>4, <2>1, <2>2 DEF ClearSnapshots, MonitorsInv
<1>5. ASSUME NEW v \in CheckResults, CheckHealth(v) PROVE MonitorsInv'
  <2>1. /\ checks' = v /\ health' = Overall(v) /\ Overall(checks)' = Overall(v)
        /\ UNCHANGED <<snapshots, ticking, alarms, looked, readings>>
    BY <1>5 DEF CheckHealth, Overall
  <2>2. MonitorsTypeOK'
    BY <2>1, OverallIsOne DEF MonitorsInv, MonitorsTypeOK
  <2>3. QED
    BY <2>1, <2>2 DEF MonitorsInv, EndOf, Leak
<1>6. CASE UNCHANGED monitorVars
  BY <1>6 DEF monitorVars, MonitorsInv, MonitorsTypeOK, EndOf, Leak, Overall
<1>7. QED
  BY <1>1, <1>2, <1>3, <1>4, <1>5, <1>6 DEF MonitorsNext

LEMMA MonitorsInvImplies == MonitorsInv => MonitorsAreSound
<1> SUFFICES ASSUME MonitorsInv PROVE MonitorsAreSound
  OBVIOUS
<1>1. MonitorsTypeOK /\ KeepsLatest
  BY DEF MonitorsInv, EndOf, KeepsLatest
<1>2. looked => ("leak" \in alarms <=> Risen(readings))
  <2>1. snapshots \in Seq(Usage) /\ readings \in Seq(Usage) /\ EndOf(snapshots, readings)
    BY DEF MonitorsInv, MonitorsTypeOK
  <2>2. Leak(snapshots) <=> Risen(readings)
    BY <2>1, LeakIsRisen
  <2>3. QED
    BY <2>2 DEF MonitorsInv
<1>3. LeakIsReported
  BY <1>2 DEF LeakIsReported, Risen
<1>4. QED
  BY <1>1, <1>3 DEF MonitorsAreSound

-----------------------------------------------------------------------------
(* The services side by side, as module Services runs them: a step of one of   *)
(* them is a step of its own specification and leaves the others alone.        *)

LEMMA ServicesInit ==
  Init => /\ BreakerInit /\ ParallelInit /\ DataInit /\ PresenceInit /\ RetryInit /\ BucketInit
          /\ LifecycleInit /\ PoolInit /\ MonitorsInit /\ QueueInit /\ DashboardInit
BY DEF Init

LEMMA ServicesStep ==
  [Next]_servicesVars =>
    /\ [BreakerNext]_breakerVars /\ [ParallelNext]_parallelVars /\ [DataNext]_dataVars
    /\ [PresenceNext]_presenceVars /\ [RetryNext]_retryVars /\ [BucketNext]_bucketVars
    /\ [LifecycleNext]_lifecycleVars /\ [PoolNext]_poolVars /\ [MonitorsNext]_monitorVars
    /\ [QueueNext]_queueVars /\ [DashboardNext]_dashboardVars
<1> SUFFICES ASSUME [Next]_servicesVars
             PROVE  /\ [BreakerNext]_breakerVars /\ [ParallelNext]_parallelVars
                    /\ [DataNext]_dataVars /\ [PresenceNext]_presenceVars
                    /\ [RetryNext]_retryVars /\ [BucketNext]_bucketVars
                    /\ [LifecycleNext]_lifecycleVars /\ [PoolNext]_poolVars
                    /\ [MonitorsNext]_monitorVars /\ [QueueNext]_queueVars
                    /\ [DashboardNext]_dashboardVars
  OBVIOUS
<1>1. CASE UNCHANGED servicesVars
  BY <1>1 DEF servicesVars
<1>2. CASE Next
  <2>1. /\ part # "breaker" => UNCHANGED breakerVars
        /\ part # "parallel" => UNCHANGED parallelVars
        /\ part # "data" => UNCHANGED dataVars
        /\ part # "presence" => UNCHANGED presenceVars
        /\ part # "retry" => UNCHANGED retryVars
        /\ part # "bucket" => UNCHANGED bucketVars
        /\ part # "lifecycle" => UNCHANGED lifecycleVars
        /\ part # "pool" => UNCHANGED poolVars
        /\ part # "monitors" => UNCHANGED monitorVars
        /\ part # "queue" => UNCHANGED queueVars
        /\ part # "dashboard" => UNCHANGED dashboardVars
    BY <1>2 DEF Next, Rest
  <2>2. /\ part = "breaker" => BreakerNext
        /\ part = "parallel" => ParallelNext
        /\ part = "data" => DataNext
        /\ part = "presence" => PresenceNext
        /\ part = "retry" => RetryNext
        /\ part = "bucket" => BucketNext
        /\ part = "lifecycle" => LifecycleNext
        /\ part = "pool" => PoolNext
        /\ part = "monitors" => MonitorsNext
        /\ part = "queue" => QueueNext
        /\ part = "dashboard" => DashboardNext
    BY <1>2 DEF Next
  <2>3. QED
    BY <2>1, <2>2
<1>3. QED
  BY <1>1, <1>2

UtilityInv == RetryInv /\ BucketInv /\ PoolInv /\ MonitorsInv

\* However their callers interleave: withRetry answers with the latest attempt and its
\* delays double up to maxDelay, the RateLimiter keeps its rate, the pool loses no
\* connection and hands none out before it is released, although asynchronous functions
\* may go on working with one that is free, and MemoryMonitor judges by the latest
\* readings (src/utils).
THEOREM UtilitiesSound ==
  Spec => [](RetryIsSound /\ BucketIsSound /\ PoolIsSound /\ MonitorsAreSound)
<1>1. Init => UtilityInv
  BY ServicesInit, RetryInvInit, BucketInvInit, PoolInvInit, MonitorsInvInit DEF UtilityInv
<1>2. UtilityInv /\ [Next]_servicesVars => UtilityInv'
  <2>1. RetryInv /\ [RetryNext]_retryVars => RetryInv'
    BY RetryInvStep
  <2>2. BucketInv /\ [BucketNext]_bucketVars => BucketInv'
    BY BucketInvStep
  <2>3. PoolInv /\ [PoolNext]_poolVars => PoolInv'
    BY PoolInvStep
  <2>4. MonitorsInv /\ [MonitorsNext]_monitorVars => MonitorsInv'
    BY MonitorsInvStep
  <2>5. QED
    BY <2>1, <2>2, <2>3, <2>4, ServicesStep DEF UtilityInv
<1>3. UtilityInv => RetryIsSound /\ BucketIsSound /\ PoolIsSound /\ MonitorsAreSound
  BY RetryInvImplies, PoolInvImplies, MonitorsInvImplies
     DEF UtilityInv, BucketInv, RetryIsSound
<1>4. QED
  BY <1>1, <1>2, <1>3, PTL DEF Spec

\* Every behaviour of Services is one of each service whose promises are stated of it.
LEMMA ServicesAreServices ==
  Spec => BreakerSpec /\ ParallelSpec /\ DataSpec /\ LifecycleSpec /\ DashboardSpec
BY ServicesInit, ServicesStep, PTL
   DEF Spec, BreakerSpec, ParallelSpec, DataSpec, LifecycleSpec, DashboardSpec

\* Whichever service runs, each keeps what the run of module Services checks of its
\* state: breaker and parallelLimit, migrations and backups, presence, the utilities,
\* start and shutdown, the message queue, the dashboard.
THEOREM ServicesSound ==
  Spec => [](/\ BreakerIsSound /\ ParallelIsSound /\ DataIsSound /\ PresenceIsSound
             /\ RetryIsSound /\ BucketIsSound /\ PoolIsSound /\ MonitorsAreSound
             /\ LifecycleIsSound /\ QueueIsSound /\ DashboardAddsUp)
<1>1. Spec => [](PresenceIsSound /\ QueueIsSound)
  <2>1. Init => PresenceInv /\ QueueInv
    BY ServicesInit, PresenceInvInit, QueueInvInit
  <2>2. PresenceInv /\ QueueInv /\ [Next]_servicesVars => PresenceInv' /\ QueueInv'
    BY ServicesStep, PresenceInvStep, QueueInvStep
  <2>3. QED
    BY <2>1, <2>2, PresenceInvImplies, QueueInvImplies, PTL DEF Spec
<1>2. Spec => [](BreakerIsSound /\ ParallelIsSound /\ DataIsSound /\ LifecycleIsSound /\ DashboardAddsUp)
  BY ServicesAreServices, BreakerSound, ParallelSound, DataSound, LifecycleSound, DashboardTotals, PTL
<1>3. QED
  BY <1>1, <1>2, UtilitiesSound, PTL

\* And no step of theirs calls a service that cools down, closes an open breaker
\* unprobed, or changes a number of one tenant's dashboard, its top contacts apart, for
\* the rows of another.
THEOREM ServicesKeepTheirRules == Spec => BreakerProbesFirst /\ OthersDoNotCount
BY ServicesAreServices, BreakerProbes, OthersUncounted
=============================================================================
