------------------------------- MODULE Retrying -------------------------------
(***************************************************************************)
(* retry and withTimeout of src/utils/retry.utils.ts, used together: the   *)
(* function that is retried is one that withTimeout races against a timer. *)
(* A timer that wins rejects, but the operation it gave up on goes on, so  *)
(* the operations of several attempts may run at the same time.            *)
(***************************************************************************)
EXTENDS Naturals, FiniteSets

CONSTANTS
  MaxRetries,    \* options.maxRetries
  InitialDelay,  \* options.initialDelay
  MaxDelay,      \* options.maxDelay
  Backoff        \* options.exponentialBackoff

ASSUME RetryAssumption ==
  {MaxRetries, InitialDelay, MaxDelay} \subseteq Nat /\ Backoff \in BOOLEAN

VARIABLES
  attempt,   \* the loop variable of retry
  retryPc,   \* "run" (awaits the race), "sleep", "resolved", "rejected"
  delay,     \* the delay that is slept next
  operation, \* what each attempt's operation does: "none", "running", "over", "failed"
  answered,  \* the attempt whose result the caller has got
  givenUp    \* history: attempts that timed out

retryVars == <<attempt, retryPc, delay, operation, answered, givenUp>>

Attempts == 0 .. MaxRetries

RetryInit ==
  /\ attempt = 0 /\ retryPc = "run"
  /\ delay = InitialDelay
  /\ operation = [a \in Attempts |-> IF a = 0 THEN "running" ELSE "none"]
  /\ answered = {} /\ givenUp = {}

\* Math.min(delay * 2, maxDelay)
Doubled(d) == IF 2 * d < MaxDelay THEN 2 * d ELSE MaxDelay

\* The catch block: the error is thrown, or the delay grows and is slept.
Caught(again) ==
  IF attempt = MaxRetries \/ ~again
  THEN retryPc' = "rejected" /\ UNCHANGED delay
  ELSE /\ retryPc' = "sleep"
       /\ delay' = IF Backoff THEN Doubled(delay) ELSE delay

\* Mutant: an operation whose race is lost answers all the same.
EndsAnyway(a) ==
  /\ operation[a] = "running"
  /\ operation' = [operation EXCEPT ![a] = "over"]
  /\ retryPc' = "resolved" /\ answered' = answered \cup {a}
  /\ UNCHANGED <<attempt, delay, givenUp>>

\* An operation ends well.  Only that of an undecided race is listened to.
Ends(a) ==
  /\ operation[a] = "running"
  /\ operation' = [operation EXCEPT ![a] = "over"]
  /\ IF a \notin givenUp
     THEN retryPc' = "resolved" /\ answered' = answered \cup {a}
     ELSE UNCHANGED <<retryPc, answered>>
  /\ UNCHANGED <<attempt, delay, givenUp>>

\* An operation fails; `again` is what retryCondition says of its error.
OperationFails(a, again) ==
  /\ operation[a] = "running"
  /\ operation' = [operation EXCEPT ![a] = "failed"]
  /\ IF a \notin givenUp THEN Caught(again) ELSE UNCHANGED <<retryPc, delay>>
  /\ UNCHANGED <<attempt, answered, givenUp>>

\* The timer of withTimeout rejects the race.
TimerWins(again) ==
  /\ retryPc = "run"
  /\ givenUp' = givenUp \cup {attempt}
  /\ Caught(again)
  /\ UNCHANGED <<attempt, operation, answered>>

\* The sleep is over and the function is called again.
Wake ==
  /\ retryPc = "sleep"
  /\ attempt' = attempt + 1 /\ retryPc' = "run"
  /\ operation' = [operation EXCEPT ![attempt + 1] = "running"]
  /\ UNCHANGED <<delay, answered, givenUp>>

RetryNext ==
  \/ \E a \in Attempts : Ends(a) \/ \E again \in BOOLEAN : OperationFails(a, again)
  \/ \E again \in BOOLEAN : TimerWins(again)
  \/ Wake

\* Timers fire; an operation may run for ever.
RetryFairness ==
  /\ WF_retryVars(\E again \in BOOLEAN : TimerWins(again))
  /\ WF_retryVars(Wake)

-----------------------------------------------------------------------------
RetryTypeOK ==
  /\ attempt \in Attempts
  /\ retryPc \in {"run", "sleep", "resolved", "rejected"}
  /\ delay \in Nat
  /\ operation \in [Attempts -> {"none", "running", "over", "failed"}]
  /\ answered \subseteq Attempts /\ givenUp \subseteq Attempts

\* The caller gets one result, and it is that of the latest attempt: an operation
\* that ends after it was given up answers nobody, however many overlap.
AnswerIsLatest ==
  /\ Cardinality(answered) <= 1
  /\ \A a \in answered : a = attempt /\ a \notin givenUp /\ operation[a] = "over"

\* With back-off the sleep before the next attempt is initialDelay, doubled once more
\* than there were attempts before, and never more than maxDelay.
DelayGrows ==
  retryPc = "sleep" /\ Backoff =>
    delay = LET d == InitialDelay * 2 ^ (attempt + 1) IN IF d < MaxDelay THEN d ELSE MaxDelay

\* retry with withTimeout (utils/retry.utils.ts) answers with its latest attempt, and its
\* delays grow as the options say.
RetryIsSound == RetryTypeOK /\ AnswerIsLatest /\ DelayGrows

\* retry comes to an end although operations may not.
RetrySettles == <>(retryPc \in {"resolved", "rejected"})
==============================================================================
