------------------------------ MODULE Services ------------------------------
(***************************************************************************)
(* The services and utilities of src/ that no session and no page takes    *)
(* part in, for TLC: each keeps state of its own and calls none of the     *)
(* others, so an interleaving of two of them shows nothing that one alone  *)
(* does not.  `part` says which one runs; the rest stays as it is.         *)
(***************************************************************************)
EXTENDS CircuitBreaker, ParallelLimit, ServerData, Presence, Retrying, TokenBucket,
        ServerLifecycle, ConnectionPool, Monitors, MessageQueue, Dashboard

VARIABLE part  \* the service that is explored

Parts == {"breaker", "parallel", "data", "presence", "retry", "bucket",
          "lifecycle", "pool", "monitors", "queue", "dashboard"}

servicesVars == <<part, breakerVars, parallelVars, dataVars, presenceVars, retryVars, bucketVars,
                  lifecycleVars, poolVars, monitorVars, queueVars, dashboardVars>>

Init ==
  /\ part \in Parts
  /\ BreakerInit /\ ParallelInit /\ DataInit /\ PresenceInit /\ RetryInit /\ BucketInit
  /\ LifecycleInit /\ PoolInit /\ MonitorsInit /\ QueueInit /\ DashboardInit
  /\ part # "pool" => available = CHOOSE s \in Orders : TRUE  \* one is enough to stand still

Rest(name, vars) == part # name => UNCHANGED vars

Next ==
  /\ UNCHANGED part
  /\ Rest("breaker", breakerVars) /\ Rest("parallel", parallelVars)
  /\ Rest("data", dataVars) /\ Rest("presence", presenceVars)
  /\ Rest("retry", retryVars) /\ Rest("bucket", bucketVars)
  /\ Rest("lifecycle", lifecycleVars) /\ Rest("pool", poolVars)
  /\ Rest("monitors", monitorVars) /\ Rest("queue", queueVars)
  /\ Rest("dashboard", dashboardVars)
  /\ \/ part = "breaker" /\ BreakerNext
     \/ part = "parallel" /\ ParallelNext
     \/ part = "data" /\ DataNext
     \/ part = "presence" /\ PresenceNext
     \/ part = "retry" /\ RetryNext
     \/ part = "bucket" /\ BucketNext
     \/ part = "lifecycle" /\ LifecycleNext
     \/ part = "pool" /\ PoolNext
     \/ part = "monitors" /\ MonitorsNext
     \/ part = "queue" /\ QueueNext
     \/ part = "dashboard" /\ DashboardNext

\* What is fair in each service (its Fairness says why), while it is the one that
\* runs.
Fairness ==
  /\ WF_parallelVars(part = "parallel" /\ CallSteps)
  /\ \A i \in Item : WF_parallelVars(part = "parallel" /\ ItemSettles(i))
  /\ WF_dataVars(part = "data" /\ StartSteps)
  /\ WF_dataVars(part = "data" /\ BackupSteps)
  /\ WF_presenceVars(part = "presence" /\ CleanupStaleRecords)
  /\ WF_presenceVars(part = "presence" /\ FiveMinutes)
  /\ WF_presenceVars(part = "presence" /\ PresenceStart)
  /\ WF_retryVars(part = "retry" /\ \E again \in BOOLEAN : TimerWins(again))
  /\ WF_retryVars(part = "retry" /\ Wake)
  /\ WF_bucketVars(part = "bucket" /\ BucketTick)
  /\ \A c \in Caller : WF_bucketVars(part = "bucket" /\ WakeUp(c))
  /\ WF_lifecycleVars(part = "lifecycle" /\ SoftTimer)
  /\ WF_lifecycleVars(part = "lifecycle" /\ AppTimer)
  /\ WF_lifecycleVars(part = "lifecycle" /\ HardTimer)
  /\ WF_queueVars(part = "queue" /\ Flush)

Spec == Init /\ [][Next]_servicesVars /\ Fairness

-----------------------------------------------------------------------------
\* CallEnds of ParallelLimit, RetrySettles of Retrying and ServerComesUp of
\* ServerData, each while its service is the one that runs.
ParallelCallEnds == part = "parallel" => CallEnds

RetriedSettles == part = "retry" => RetrySettles

ServerIsUpAgain == part = "data" => ServerComesUp

\* A server is up again, and a process that serves can always make its next backup,
\* whatever crashed, failed or was restored before (config/migrations.ts,
\* services/backup.service.ts).
DataSettles == ServerIsUpAgain /\ FlagClears

\* Nobody waits in vain at the utilities: parallelLimit and withRetry end, the
\* RateLimiter serves somebody as long as somebody waits, and the first callback of
\* waitNewMessages is handed what is queued (utils/retry.utils.ts, init-listeners.js).
WaitersAreServed ==
  ParallelCallEnds /\ RetriedSettles /\ SomebodyIsServed /\ QueueDrains /\ FirstIsHanded
=============================================================================
