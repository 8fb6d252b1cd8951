-------------------------------- MODULE Monitors --------------------------------
(***************************************************************************)
(* The two monitors server.ts starts: MemoryMonitor (src/utils/memory.utils*)
(* .ts), which keeps the latest readings of the heap and looks for growth, *)
(* and HealthService (src/services/health.service.ts), whose answer the    *)
(* health routes give (src/routes/index.ts).                               *)
(***************************************************************************)
EXTENDS Naturals, Sequences

CONSTANTS
  MaxSnapshots,  \* readings kept (100)
  LeakWindow,    \* readings detectLeaks looks at (10)
  LeakGrowth,    \* growth above which it reports a leak
  Warning,       \* thresholds of usage
  Critical,
  MaxUsage,      \* bound: usage
  MaxReadings    \* bound: readings since the last clear

ASSUME MonitorsAssumption ==
  /\ {MaxSnapshots, LeakGrowth, Warning, Critical, MaxUsage, MaxReadings} \subseteq Nat
  /\ LeakWindow \in 1 .. MaxSnapshots

VARIABLES
  snapshots,   \* the readings kept
  ticking,     \* the interval is set
  alarms,      \* events the last reading led to
  looked,      \* the last reading came from the interval, so alarms were looked for
  readings,    \* history: all readings since the last clear
  checks,      \* the verdicts of the health checks as they were last run
  health       \* what was made of them

monitorVars == <<snapshots, ticking, alarms, looked, readings, checks, health>>

Usage == 0 .. MaxUsage
Verdicts == {"pass", "warn", "fail"}

\* The verdicts the four checks come to; the sessions check never fails.
CheckResults == (SUBSET Verdicts) \ {{}, {"fail"}}

MonitorsInit ==
  /\ snapshots = <<>> /\ readings = <<>> /\ alarms = {}
  /\ ticking = FALSE /\ looked = FALSE
  /\ checks = {"pass"} /\ health = "healthy"

\* takeSnapshot: push, and shift when there are too many.
Kept(h) ==
  LET s == Append(snapshots, h) IN IF Len(s) > MaxSnapshots THEN Tail(s) ELSE s

Takes(h) ==
  /\ Len(readings) < MaxReadings
  /\ snapshots' = Kept(h)
  /\ readings' = Append(readings, h)

\* checkThresholds, by the heap or the resident size.
CheckThresholds(h, rss) ==
  CASE h > Critical \/ rss > Critical -> {"critical"}
    [] ~(h > Critical \/ rss > Critical) /\ (h > Warning \/ rss > Warning) -> {"warning"}
    [] OTHER -> {}

\* Mutant: growth is measured from the oldest reading kept.
LeakOverAll(s) ==
  /\ Len(s) >= LeakWindow
  /\ \A i \in Len(s) - LeakWindow + 2 .. Len(s) : s[i] >= s[i - 1]
  /\ s[Len(s)] - s[1] > LeakGrowth

\* detectLeaks: the latest readings never fell and have grown by more than allowed.
Leak(s) ==
  /\ Len(s) >= LeakWindow
  /\ \A i \in Len(s) - LeakWindow + 2 .. Len(s) : s[i] >= s[i - 1]
  /\ s[Len(s)] - s[Len(s) - LeakWindow + 1] > LeakGrowth

\* start takes a reading at once, a second start does nothing.
StartMonitor(h) ==
  /\ ~ticking /\ ticking' = TRUE
  /\ Takes(h)
  /\ alarms' = {} /\ looked' = FALSE
  /\ UNCHANGED <<checks, health>>

StopMonitor ==
  /\ ticking /\ ticking' = FALSE
  /\ UNCHANGED <<snapshots, alarms, looked, readings, checks, health>>

\* The interval's callback.
MonitorTick(h, rss) ==
  /\ ticking
  /\ Takes(h)
  /\ alarms' = CheckThresholds(h, rss) \cup (IF Leak(snapshots') THEN {"leak"} ELSE {})
  /\ looked' = TRUE
  /\ UNCHANGED <<ticking, checks, health>>

ClearSnapshots ==
  /\ snapshots' = <<>> /\ readings' = <<>> /\ alarms' = {} /\ looked' = FALSE
  /\ UNCHANGED <<ticking, checks, health>>

\* determineOverallStatus
Overall(v) ==
  CASE "fail" \in v                   -> "unhealthy"
    [] "fail" \notin v /\ "warn" \in v -> "degraded"
    [] OTHER                          -> "healthy"

\* getHealthStatus, by its interval or by a request for /health/detailed or /ready.
CheckHealth(v) ==
  /\ checks' = v /\ health' = Overall(v)
  /\ UNCHANGED <<snapshots, ticking, alarms, looked, readings>>

MonitorsNext ==
  \/ \E h \in Usage : StartMonitor(h) \/ \E rss \in {h, MaxUsage} : MonitorTick(h, rss)
  \/ StopMonitor \/ ClearSnapshots
  \/ \E v \in CheckResults : CheckHealth(v)

MonitorsSpec == MonitorsInit /\ [][MonitorsNext]_monitorVars

-----------------------------------------------------------------------------
MonitorsTypeOK ==
  /\ snapshots \in Seq(Usage) /\ Len(snapshots) <= MaxSnapshots
  /\ readings \in Seq(Usage) /\ alarms \subseteq {"warning", "critical", "leak"}
  /\ {ticking, looked} \subseteq BOOLEAN
  /\ checks \in CheckResults /\ health \in {"healthy", "degraded", "unhealthy"}

\* The readings kept are the latest ones, however often the monitor was stopped and
\* started again.
KeepsLatest ==
  \A i \in 1 .. Len(snapshots) :
    snapshots[i] = readings[Len(readings) - Len(snapshots) + i]

\* A leak is reported when and only when the heap has risen by more than LeakGrowth over
\* the last LeakWindow readings without ever falling, though most readings are forgotten.
LeakIsReported ==
  looked => LET n == Len(readings) IN
    ("leak" \in alarms) =
      (n >= LeakWindow /\ \E low, high \in Usage :
         /\ readings[n - LeakWindow + 1] = low /\ readings[n] = high /\ high > low + LeakGrowth
         /\ \A i, j \in n - LeakWindow + 1 .. n : i <= j => readings[i] <= readings[j])

\* MemoryMonitor (utils/memory.utils.ts) keeps and judges the latest readings of the
\* heap, over stops, starts and readings it has forgotten.
MonitorsAreSound == MonitorsTypeOK /\ KeepsLatest /\ LeakIsReported
=================================================================================
