CONSTANTS
  Call = {k1, k2, k3}
  Threshold = 2
  ResetTimeout = 2
  MaxTime = 5
  MaxFailures = 4
  Count = 5
  Limit = 3
  Backup = {b1, b2}
  MaxCrashes = 2
  Socket = {s1, s2}
  Member = {u1, u2}
  Tenanted = {u1}
  MaxEnds = 2
  MaxRetries = 3
  InitialDelay = 1
  MaxDelay = 5
  Backoff = TRUE
  Capacity = 3
  Rate = 1
  Caller = {c1, c2}
  MaxTokens = 4
  Full = 3
  MaxStops = 1
  MaxErrors = 2
  Connection = {k1, k2}
  Holder = {h1, h2}
  MaxSnapshots = 3
  LeakWindow = 2
  LeakGrowth = 1
  Warning = 0
  Critical = 1
  MaxUsage = 2
  MaxReadings = 4
  Incoming = 3
  OwnOnes = {}
  Notices = {1}
  BodyLess = {1}
  Waiter = {v1, v2}
  Owner = {w1, w2}
  Holding = {m1, m2}
  Person = {a1}
  MaxMessages = 2
SPECIFICATION Spec
INVARIANTS
  BreakerIsSound
  ParallelIsSound
  DataIsSound
  PresenceIsSound
  RetryIsSound
  BucketIsSound
  PoolIsSound
  MonitorsAreSound
  LifecycleIsSound
  QueueIsSound
  DashboardAddsUp
PROPERTIES
  BreakerProbesFirst
  DataSettles
  GhostsGo
  WaitersAreServed
  ProcessEndsAfterError
CHECK_DEADLOCK FALSE
