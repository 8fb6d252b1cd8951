---------------------------- MODULE ServerLifecycle ----------------------------
(***************************************************************************)
(* The process of src/server.ts between the callback of listen and its     *)
(* exit: what the callback starts and registers with the ResourceCleaner   *)
(* (src/utils/memory.utils.ts), the graceful shutdown, and the listeners   *)
(* for signals and exceptions that server.ts, app.ts and config/database.ts*)
(* each add.  The callback and the shutdown both wait for sessions and may *)
(* overlap; SessionManager models the sessions themselves.                 *)
(***************************************************************************)
EXTENDS Naturals, FiniteSets

CONSTANTS
  MaxStops,   \* bound: sessions the shutdown has to close
  MaxErrors   \* bound: exceptions and rejections nobody caught

ASSUME LifecycleAssumption == {MaxStops, MaxErrors} \subseteq Nat

VARIABLES
  boot,        \* "sessions" while the callback awaits initializeSessions, then "done"
  registered,  \* resources known to the ResourceCleaner
  live,        \* resources that were started and not stopped
  stops,       \* history: how often each cleanup function has run
  drain,       \* "no", "sessions" while the shutdown awaits cleanup
  toStop,      \* sessions it has still to close
  soft,        \* 100 ms timers of server.ts's error listeners
  appTimer,    \* the 1 s timer of app.ts's exception listener is set
  errors,      \* exceptions and rejections so far
  handleOpen,
  exit         \* "none", "drained" (0), "closed" (0), "forced" (1)

lifecycleVars == <<boot, registered, live, stops, drain, toStop, soft, appTimer, errors,
                   handleOpen, exit>>

\* Registered before the callback waits, and after it.
Early == {"websocket"}
Late == {"health-monitor", "memory-monitor", "presence-service", "backup-scheduler",
         "db-optimization"}
Resources == Early \cup Late
StoppedFirst == {"health-monitor", "memory-monitor", "db-optimization"}

\* The presence interval runs since its module was loaded.
LifecycleInit ==
  /\ boot = "sessions"
  /\ registered = Early /\ live = Early \cup {"presence-service"}
  /\ stops = [r \in Resources |-> 0]
  /\ drain = "no" /\ toStop = 0
  /\ soft = 0 /\ appTimer = FALSE /\ errors = 0
  /\ handleOpen = TRUE /\ exit = "none"

Alive == exit = "none"

\* ResourceCleaner.cleanup of each of R (cleanupAll when R is everything).
Cleaned(R) ==
  /\ stops' = [r \in Resources |-> IF r \in registered \cap R THEN stops[r] + 1 ELSE stops[r]]
  /\ live' = live \ (registered \cap R)
  /\ registered' = registered \ R

\* Mutant: what is started during a shutdown is not registered.
BootContinuesLoose ==
  /\ Alive /\ boot = "sessions"
  /\ boot' = "done"
  /\ live' = live \cup Late
  /\ registered' = IF drain = "no" THEN registered \cup Late ELSE registered
  /\ UNCHANGED <<stops, drain, toStop, soft, appTimer, errors, handleOpen, exit>>

\* initializeSessions is over: the callback starts the rest, shutdown or not.
BootContinues ==
  /\ Alive /\ boot = "sessions"
  /\ boot' = "done"
  /\ live' = live \cup Late
  /\ registered' = registered \cup Late
  /\ UNCHANGED <<stops, drain, toStop, soft, appTimer, errors, handleOpen, exit>>

\* gracefulShutdown: a second call exits, the first stops the monitors and begins to
\* close the sessions there are.
GracefulShutdown ==
  IF drain # "no"
  THEN exit' = "forced" /\ UNCHANGED <<registered, live, stops, drain, toStop>>
  ELSE /\ drain' = "sessions"
       /\ toStop' \in 0 .. MaxStops
       /\ Cleaned(StoppedFirst)
       /\ UNCHANGED exit

Sigterm ==
  /\ Alive /\ GracefulShutdown
  /\ UNCHANGED <<boot, soft, appTimer, errors, handleOpen>>

\* The listener of config/database.ts was there first: it closes the database and exits
\* before the one of server.ts is called.
Sigint ==
  /\ Alive
  /\ handleOpen' = FALSE /\ exit' = "closed"
  /\ UNCHANGED <<boot, registered, live, stops, drain, toStop, soft, appTimer, errors>>

\* An exception nobody caught reaches the listeners of app.ts and server.ts, a rejection
\* that of server.ts alone has a timer for.
Uncaught(exception) ==
  /\ Alive /\ errors < MaxErrors
  /\ errors' = errors + 1
  /\ soft' = soft + 1
  /\ appTimer' = (appTimer \/ exception)
  /\ UNCHANGED <<boot, registered, live, stops, drain, toStop, handleOpen, exit>>

SoftTimer ==
  /\ Alive /\ soft > 0
  /\ soft' = soft - 1
  /\ GracefulShutdown
  /\ UNCHANGED <<boot, appTimer, errors, handleOpen>>

\* app.ts exits one second after an exception, also in the middle of a shutdown.
AppTimer ==
  /\ Alive /\ appTimer
  /\ exit' = "forced"
  /\ UNCHANGED <<boot, registered, live, stops, drain, toStop, soft, appTimer, errors, handleOpen>>

\* Mutant: the timer is set after the sessions are closed.
HardTimerLate ==
  /\ Alive /\ drain = "sessions" /\ toStop = 0
  /\ exit' = "forced"
  /\ UNCHANGED <<boot, registered, live, stops, drain, toStop, soft, appTimer, errors, handleOpen>>

\* The 30 s timer of the shutdown.
HardTimer ==
  /\ Alive /\ drain = "sessions"
  /\ exit' = "forced"
  /\ UNCHANGED <<boot, registered, live, stops, drain, toStop, soft, appTimer, errors, handleOpen>>

\* stopSession returns, whether close failed or not.
SessionCloses ==
  /\ Alive /\ drain = "sessions" /\ toStop > 0
  /\ toStop' = toStop - 1
  /\ UNCHANGED <<boot, registered, live, stops, drain, soft, appTimer, errors, handleOpen, exit>>

\* The rest of the shutdown: the web socket, the database, every resource that is left.
Drained ==
  /\ Alive /\ drain = "sessions" /\ toStop = 0
  /\ Cleaned(Resources)
  /\ handleOpen' = FALSE
  /\ exit' = "drained"
  /\ UNCHANGED <<boot, drain, toStop, soft, appTimer, errors>>

LifecycleNext ==
  \/ BootContinues \/ Sigterm \/ Sigint \/ SoftTimer \/ AppTimer \/ HardTimer
  \/ SessionCloses \/ Drained
  \/ \E exception \in BOOLEAN : Uncaught(exception)

LifecycleSpec == LifecycleInit /\ [][LifecycleNext]_lifecycleVars

\* Timers fire; sessions may never close.
LifecycleFairness ==
  /\ WF_lifecycleVars(SoftTimer)
  /\ WF_lifecycleVars(AppTimer)
  /\ WF_lifecycleVars(HardTimer)

-----------------------------------------------------------------------------
LifecycleTypeOK ==
  /\ boot \in {"sessions", "done"}
  /\ registered \subseteq Resources /\ live \subseteq Resources
  /\ stops \in [Resources -> Nat]
  /\ drain \in {"no", "sessions"} /\ toStop \in 0 .. MaxStops
  /\ soft \in 0 .. MaxErrors /\ errors \in 0 .. MaxErrors
  /\ {appTimer, handleOpen} \subseteq BOOLEAN
  /\ exit \in {"none", "drained", "closed", "forced"}

\* No cleanup function runs twice, in whatever order start and shutdown overlap.
StoppedOnce == \A r \in Resources : stops[r] <= 1

\* What the start callback has started is known to the cleaner for as long as it lives,
\* so a shutdown that is not cut short ends with nothing of it alive, also what was
\* started after the shutdown had begun.
NothingLeftAlive ==
  /\ boot = "done" => live = registered
  /\ exit = "drained" => live \subseteq (IF boot = "done" THEN {} ELSE {"presence-service"})

\* An error nobody caught, and a shutdown once begun, end the process even if no session
\* ever closes.
ProcessEndsAfterError == (soft > 0 \/ drain # "no") ~> exit # "none"

\* Start and shutdown may overlap: every resource is stopped once, and none is forgotten.
LifecycleIsSound == LifecycleTypeOK /\ StoppedOnce /\ NothingLeftAlive
================================================================================
