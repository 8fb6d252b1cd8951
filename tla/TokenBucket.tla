------------------------------ MODULE TokenBucket ------------------------------
(***************************************************************************)
(* RateLimiter of src/utils/retry.utils.ts: a bucket of tokens that fills  *)
(* with time and that callers of acquire empty.  A caller that finds too   *)
(* few tokens sleeps and looks again, in no order among the callers, and   *)
(* callers keep coming.  The unit of time is the 100 ms of the sleep;      *)
(* sleeps may take longer.                                                 *)
(***************************************************************************)
EXTENDS Integers

CONSTANTS
  Capacity,   \* capacity, also the tokens at first
  Rate,       \* tokens per unit of time
  Caller,     \* callers of acquire
  MaxTokens,  \* bound: tokens asked for
  Full        \* bound: time after which any bucket is full, as far as time is counted

ASSUME BucketAssumption ==
  /\ {Capacity, Rate, MaxTokens, Full} \subseteq Nat
  /\ Rate > 0 => Full * Rate >= Capacity

VARIABLES
  tokens,     \* the field
  elapsed,    \* Date.now() - lastRefill
  asked,      \* what each caller waits for, or has waited for
  bucketPc,   \* "idle", "asleep"
  ideal       \* history: the tokens of a bucket that is refilled whenever time passes

bucketVars == <<tokens, elapsed, asked, bucketPc, ideal>>

BucketInit ==
  /\ tokens = Capacity /\ elapsed = 0
  /\ asked = [c \in Caller |-> 0]
  /\ bucketPc = [c \in Caller |-> "idle"]
  /\ ideal = Capacity

AtMost(bound, n) == IF n < bound THEN n ELSE bound

\* refill
Refilled == AtMost(Capacity, tokens + elapsed * Rate)

Granted(c, n) ==
  /\ tokens' = Refilled - n
  /\ ideal' = ideal - n
  /\ bucketPc' = [bucketPc EXCEPT ![c] = "idle"]

\* Mutant: the time of the refill is only noted when tokens are taken.
TakeKeepsStamp(c, n) ==
  IF n <= Refilled
  THEN elapsed' = 0 /\ Granted(c, n)
  ELSE /\ tokens' = Refilled
       /\ bucketPc' = [bucketPc EXCEPT ![c] = "asleep"]
       /\ UNCHANGED <<elapsed, ideal>>

\* What follows a refill: the tokens are taken, or the caller sleeps (again).
Take(c, n) ==
  /\ elapsed' = 0
  /\ \/ n <= Refilled /\ Granted(c, n)
     \/ /\ n > Refilled
        /\ tokens' = Refilled
        /\ bucketPc' = [bucketPc EXCEPT ![c] = "asleep"]
        /\ UNCHANGED ideal

\* acquire
Acquire(c, n) ==
  /\ bucketPc[c] = "idle"
  /\ asked' = [asked EXCEPT ![c] = n]
  /\ Take(c, n)

\* Mutant: the sleeper does not refill.
WakeUpStale(c) ==
  /\ bucketPc[c] = "asleep" /\ asked[c] <= tokens
  /\ tokens' = tokens - asked[c]
  /\ ideal' = ideal - asked[c]
  /\ bucketPc' = [bucketPc EXCEPT ![c] = "idle"]
  /\ UNCHANGED <<elapsed, asked>>

\* A sleep is over; the caller looks again.
WakeUp(c) ==
  /\ bucketPc[c] = "asleep"
  /\ Take(c, asked[c])
  /\ UNCHANGED asked

\* getAvailableTokens
GetAvailableTokens ==
  /\ tokens' = Refilled /\ elapsed' = 0
  /\ UNCHANGED <<asked, bucketPc, ideal>>

\* A unit of time passes.
BucketTick ==
  /\ elapsed' = AtMost(Full, elapsed + 1)
  /\ ideal' = AtMost(Capacity, ideal + Rate)
  /\ UNCHANGED <<tokens, asked, bucketPc>>

BucketNext ==
  \/ \E c \in Caller : WakeUp(c) \/ \E n \in 1 .. MaxTokens : Acquire(c, n)
  \/ GetAvailableTokens
  \/ BucketTick

BucketSpec == BucketInit /\ [][BucketNext]_bucketVars

BucketFairness ==
  /\ WF_bucketVars(BucketTick)
  /\ \A c \in Caller : WF_bucketVars(WakeUp(c))

-----------------------------------------------------------------------------
BucketTypeOK ==
  /\ tokens \in 0 .. Capacity
  /\ elapsed \in 0 .. Full
  /\ asked \in [Caller -> 0 .. MaxTokens]
  /\ bucketPc \in [Caller -> {"idle", "asleep"}]
  /\ ideal \in 0 .. Capacity

\* Whoever calls, sleeps or looks when, the bucket holds what one that is refilled at
\* every moment would hold: no time is counted twice and none that fits is lost.
KeepsTheRate == Refilled = ideal

\* The RateLimiter (utils/retry.utils.ts) keeps its rate: ideal never falls below 0, so
\* in any stretch of time no more than the capacity and what came in it is handed out.
BucketIsSound == BucketTypeOK /\ KeepsTheRate

\* While somebody waits for no more than the capacity, somebody is served again and
\* again.  It need not be the one who waits: acquire has no queue, so callers that ask
\* for less may for ever be served first.
SomebodyIsServed ==
  \A c \in Caller :
    Rate > 0 /\ <>[](bucketPc[c] = "asleep" /\ asked[c] <= Capacity)
      => []<><<ideal' < ideal>>_bucketVars
===============================================================================
