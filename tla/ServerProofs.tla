----------------------------- MODULE ServerProofs -----------------------------
(***************************************************************************)
(* What is proved of the parts that run beside the REST handlers: start    *)
(* and shutdown of src/server.ts, the migrations and backups of its        *)
(* database, the presence rows, the message queue of the in-page library   *)
(* (src/lib/wapi), and the counts of the dashboard.  Each section          *)
(* strengthens one property that a run checks to an inductive invariant.   *)
(***************************************************************************)
EXTENDS ServerLifecycle, ServerData, Presence, MessageQueue, Dashboard,
        FiniteSetTheorems, SequenceTheorems, TLAPS

-----------------------------------------------------------------------------
(* Start and shutdown of src/server.ts, for any number of sessions and of     *)
(* uncaught errors.  What makes the invariant inductive is the order of the   *)
(* two phases: a resource that was started late is registered at most once,   *)
(* and cannot have been stopped before the callback registers it.             *)

\* What was stopped is forgotten, and what starts late was not stopped before.
NotYetStopped ==
  /\ \A r \in registered : stops[r] = 0
  /\ boot = "sessions" => \A r \in Late : stops[r] = 0
  /\ boot = "sessions" => registered \subseteq Early

\* What lives is registered, but for the presence interval, which runs before
\* the callback registers it.
LiveIsKnown ==
  /\ boot = "done" => live = registered
  /\ boot = "sessions" => live = registered \cup {"presence-service"}

\* The process ends with "drained" only when everything registered was stopped.
DrainedIsEmpty == exit = "drained" => registered = {}

\* Every timer of the error listeners was set by an error of its own.
TimersHaveErrors == soft <= errors

LifecycleInv ==
  /\ LifecycleTypeOK /\ StoppedOnce /\ NotYetStopped /\ LiveIsKnown /\ DrainedIsEmpty
  /\ TimersHaveErrors

LEMMA LifecycleInvInit == LifecycleInit => LifecycleInv
<1> SUFFICES ASSUME LifecycleInit PROVE LifecycleInv
  OBVIOUS
<1> USE LifecycleAssumption DEF LifecycleAssumption, LifecycleInit
<1>1. {appTimer, handleOpen} \subseteq BOOLEAN
  OBVIOUS
<1>2. stops \in [Resources -> Nat]
  OBVIOUS
<1>3. LifecycleTypeOK
  BY <1>1, <1>2 DEF LifecycleTypeOK, Resources, Early, Late
<1>4. QED
  BY <1>3 DEF LifecycleInv, StoppedOnce, NotYetStopped, LiveIsKnown, DrainedIsEmpty,
              TimersHaveErrors, Resources, Early, Late

\* Stopping some of the resources stops each of them once and forgets it.
LEMMA CleanedKeeps ==
  ASSUME LifecycleInv, NEW R \in SUBSET Resources, Cleaned(R), boot' = boot
  PROVE  /\ registered' \subseteq Resources /\ live' \subseteq Resources
         /\ stops' \in [Resources -> Nat]
         /\ StoppedOnce' /\ NotYetStopped' /\ LiveIsKnown'
<1> USE DEF LifecycleInv, LifecycleTypeOK
<1>1. /\ registered' \subseteq Resources /\ live' \subseteq Resources
      /\ stops' \in [Resources -> Nat]
  BY DEF Cleaned
<1>2. \A r \in Resources : stops'[r] = IF r \in registered \cap R THEN stops[r] + 1 ELSE stops[r]
  BY DEF Cleaned
<1>3. StoppedOnce'
  BY <1>2 DEF StoppedOnce, NotYetStopped
<1>4. NotYetStopped'
  <2>1. \A r \in registered' : r \in Resources /\ r \in registered /\ r \notin R
    BY <1>1 DEF Cleaned
  <2>2. \A r \in Late : r \in Resources /\ (boot = "sessions" => r \notin registered)
    BY DEF Late, Early, Resources, NotYetStopped
  <2>3. QED
    BY <1>2, <2>1, <2>2 DEF NotYetStopped
<1>5. LiveIsKnown'
  BY DEF Cleaned, LiveIsKnown, NotYetStopped, Early
<1>6. QED
  BY <1>1, <1>3, <1>4, <1>5

\* A shutdown that begins stops the monitors, a second one exits at once.
LEMMA ShutdownKeeps ==
  ASSUME LifecycleInv, Alive, GracefulShutdown, boot' = boot, errors' = errors,
         soft' \in 0 .. errors, appTimer' = appTimer, handleOpen' = handleOpen
  PROVE  LifecycleInv'
<1> USE LifecycleAssumption DEF LifecycleAssumption, Alive
<1>1. CASE drain # "no"
  BY <1>1 DEF GracefulShutdown, LifecycleInv, LifecycleTypeOK, StoppedOnce, NotYetStopped,
              LiveIsKnown, DrainedIsEmpty, TimersHaveErrors
<1>2. CASE drain = "no"
  <2>1. StoppedFirst \in SUBSET Resources
    BY DEF StoppedFirst, Resources, Late
  <2>2. Cleaned(StoppedFirst) /\ drain' = "sessions" /\ toStop' \in 0 .. MaxStops /\ exit' = exit
    BY <1>2 DEF GracefulShutdown
  <2>3. /\ registered' \subseteq Resources /\ live' \subseteq Resources
        /\ stops' \in [Resources -> Nat]
        /\ StoppedOnce' /\ NotYetStopped' /\ LiveIsKnown'
    BY <2>1, <2>2, CleanedKeeps
  <2>4. QED
    BY <2>2, <2>3 DEF LifecycleInv, LifecycleTypeOK, DrainedIsEmpty, TimersHaveErrors
<1>3. QED
  BY <1>1, <1>2

LEMMA LifecycleInvStep == LifecycleInv /\ [LifecycleNext]_lifecycleVars => LifecycleInv'
<1> SUFFICES ASSUME LifecycleInv, [LifecycleNext]_lifecycleVars PROVE LifecycleInv'
  OBVIOUS
<1> USE LifecycleAssumption DEF LifecycleAssumption
<1>1. CASE BootContinues
  <2>1. StoppedOnce' /\ LifecycleTypeOK' /\ DrainedIsEmpty'
    BY <1>1 DEF BootContinues, LifecycleInv, LifecycleTypeOK, StoppedOnce, DrainedIsEmpty,
                Alive, Resources, Early, Late
  <2>2. NotYetStopped'
    BY <1>1 DEF BootContinues, LifecycleInv, NotYetStopped
  <2>3. LiveIsKnown'
    BY <1>1 DEF BootContinues, LifecycleInv, LiveIsKnown, Late
  <2>4. QED
    BY <1>1, <2>1, <2>2, <2>3 DEF BootContinues, LifecycleInv, TimersHaveErrors
<1>2. CASE Sigterm
  <2>1. soft' \in 0 .. errors
    BY <1>2 DEF Sigterm, LifecycleInv, LifecycleTypeOK, TimersHaveErrors
  <2>2. QED
    BY <1>2, <2>1, ShutdownKeeps DEF Sigterm
<1>3. CASE SoftTimer
  <2>1. soft' \in 0 .. errors
    BY <1>3 DEF SoftTimer, LifecycleInv, LifecycleTypeOK, TimersHaveErrors
  <2>2. QED
    BY <1>3, <2>1, ShutdownKeeps DEF SoftTimer
<1>4. CASE Drained
  <2>1. Cleaned(Resources) /\ boot' = boot
    BY <1>4 DEF Drained
  <2>2. /\ registered' \subseteq Resources /\ live' \subseteq Resources
        /\ stops' \in [Resources -> Nat]
        /\ StoppedOnce' /\ NotYetStopped' /\ LiveIsKnown'
    BY <2>1, CleanedKeeps
  <2>3. registered' = {}
    BY <2>1 DEF Cleaned, LifecycleInv, LifecycleTypeOK
  <2>4. QED
    BY <1>4, <2>2, <2>3 DEF Drained, LifecycleInv, LifecycleTypeOK, DrainedIsEmpty,
                                 TimersHaveErrors
<1>5. CASE Sigint \/ AppTimer \/ HardTimer
  BY <1>5 DEF Sigint, AppTimer, HardTimer, LifecycleInv, LifecycleTypeOK, StoppedOnce,
              NotYetStopped, LiveIsKnown, DrainedIsEmpty, TimersHaveErrors, Alive
<1>6. CASE SessionCloses
  BY <1>6 DEF SessionCloses, LifecycleInv, LifecycleTypeOK, StoppedOnce, NotYetStopped,
              LiveIsKnown, DrainedIsEmpty, TimersHaveErrors, Alive
<1>7. ASSUME NEW exception \in BOOLEAN, Uncaught(exception) PROVE LifecycleInv'
  <2>1. soft' <= errors' /\ soft' \in 0 .. MaxErrors /\ errors' \in 0 .. MaxErrors
    BY <1>7 DEF Uncaught, LifecycleInv, LifecycleTypeOK, TimersHaveErrors
  <2>2. {appTimer', handleOpen'} \subseteq BOOLEAN
    <3>1. appTimer' = (appTimer \/ exception) /\ handleOpen' = handleOpen
      BY <1>7 DEF Uncaught
    <3>2. handleOpen \in BOOLEAN
      BY DEF LifecycleInv, LifecycleTypeOK
    <3>3. QED
      BY <3>1, <3>2
  <2>3. UNCHANGED <<boot, registered, live, stops, drain, toStop, exit>>
    BY <1>7 DEF Uncaught
  <2>4. LifecycleTypeOK'
    BY <2>1, <2>2, <2>3 DEF LifecycleInv, LifecycleTypeOK
  <2>5. QED
    BY <2>1, <2>3, <2>4 DEF LifecycleInv, StoppedOnce, NotYetStopped, LiveIsKnown,
                            DrainedIsEmpty, TimersHaveErrors
<1>8. CASE UNCHANGED lifecycleVars
  BY <1>8 DEF lifecycleVars, LifecycleInv, LifecycleTypeOK, StoppedOnce, NotYetStopped,
              LiveIsKnown, DrainedIsEmpty, TimersHaveErrors
<1>9. QED
  BY <1>1, <1>2, <1>3, <1>4, <1>5, <1>6, <1>7, <1>8 DEF LifecycleNext

\* However start, shutdown, signals and errors overlap: every resource is stopped
\* at most once, and a shutdown that is not cut short leaves nothing alive.
THEOREM LifecycleSound == LifecycleSpec => []LifecycleIsSound
<1>1. LifecycleInv => LifecycleIsSound
  BY DEF LifecycleInv, LifecycleIsSound, LiveIsKnown, DrainedIsEmpty, NothingLeftAlive,
         LifecycleTypeOK
<1>2. QED
  BY <1>1, LifecycleInvInit, LifecycleInvStep, PTL DEF LifecycleSpec

-----------------------------------------------------------------------------
(* Migrations and backups.                                                    *)

BackupRow == [status : {"absent", "in_progress", "completed", "failed"}, file : {"db", "gz"}]

Jobs == [id : Backup, stage : {"copying", "compressing"}, compress : BOOLEAN, scheduled : BOOLEAN]

\* What the statement that runs rests on.
Starting ==
  /\ phase \in {"exec1", "record1", "exec2", "record2"} => schema # "broken"
  /\ phase = "exec1" => 1 \notin recorded
  /\ phase = "record1" => schema = "new"
  /\ phase = "record2" => presence

\* The backup in the making has its file, and nobody else deletes it.
JobIsGuarded ==
  job # NoJob =>
    /\ backupRunning
    /\ job.id \in made /\ job.id \notin aged /\ "db" \in files[job.id]
    /\ job.stage = "compressing" => job.id \in whole

\* A table of backups, the current one or the one in a copy: its rows are of backups
\* that were begun, the completed ones of backups copied to the end, and the row of
\* the backup in the making is not final.
TableFits(t, begun, done, current) ==
  /\ t \in [Backup -> BackupRow]
  /\ \A k \in Backup : /\ t[k] # Absent => k \in begun
                       /\ t[k].status = "completed" => k \in done
                       /\ k = current => t[k].status \in {"absent", "in_progress"}

TablesFit ==
  /\ TableFits(table, made, whole, job.id)
  /\ \A k \in Backup : TableFits(copied[k], made, whole, job.id)

DataInv ==
  /\ DataTypeOK
  /\ RecordedIsApplied /\ FlagHasOwner /\ CompletedIsRestorable /\ InProgressHasOwner
  /\ Starting /\ JobIsGuarded /\ TablesFit
  /\ copied \in [Backup -> [Backup -> BackupRow]]

LEMMA JobFacts ==
  /\ "none" \notin Backup /\ NoJob.id = "none" /\ NoJob.stage = "none"
  /\ \A j \in Jobs : j # NoJob /\ j.id \in Backup /\ j.stage \in {"copying", "compressing"}
  /\ DataTypeOK => job = NoJob \/ job \in Jobs
  /\ Absent \in BackupRow /\ Absent.status = "absent"
  /\ \A st \in {"absent", "in_progress", "completed", "failed"}, f \in {"db", "gz"} :
       [status |-> st, file |-> f] \in BackupRow
BY ServerDataAssumption DEF NoJob, Jobs, Absent, BackupRow, DataTypeOK

\* Tables stay right when backups are begun and copied, and when the backup in the
\* making ends or a new one is begun.
LEMMA TableKept ==
  ASSUME NEW t, NEW begun, NEW begun2, NEW done, NEW done2, NEW current, NEW current2,
         TableFits(t, begun, done, current), begun \subseteq begun2, done \subseteq done2,
         current2 = current \/ current2 \notin Backup \/ current2 \notin begun
  PROVE  TableFits(t, begun2, done2, current2)
BY JobFacts DEF TableFits

LEMMA DataInvInit == DataInit => DataInv
<1> SUFFICES ASSUME DataInit PROVE DataInv
  OBVIOUS
<1> USE JobFacts
<1>1. /\ phase = "down" /\ schema = "old" /\ presence = FALSE /\ recorded = {}
      /\ dbOpen = FALSE /\ backupRunning = FALSE /\ job = NoJob
      /\ \A k \in Backup : table[k] = Absent /\ \A j \in Backup : copied[k][j] = Absent
      /\ table \in [Backup -> BackupRow] /\ copied \in [Backup -> [Backup -> BackupRow]]
      /\ files \in [Backup -> SUBSET {"db", "gz"}]
      /\ whole = {} /\ made = {} /\ aged = {} /\ crashes = 0
  BY DEF DataInit
<1>2. DataTypeOK
  <2>1. crashes \in 0 .. MaxCrashes
    BY <1>1, ServerDataAssumption
  <2>2. table \in [Backup -> [status : {"absent", "in_progress", "completed", "failed"},
                             file : {"db", "gz"}]]
    BY <1>1 DEF BackupRow
  <2>3. QED
    BY <1>1, <2>1, <2>2 DEF DataTypeOK
<1>3. TablesFit
  BY <1>1 DEF TablesFit, TableFits
<1>4. CompletedIsRestorable /\ InProgressHasOwner
  BY <1>1 DEF CompletedIsRestorable, InProgressHasOwner
<1>5. RecordedIsApplied /\ FlagHasOwner /\ Starting /\ JobIsGuarded
  BY <1>1 DEF RecordedIsApplied, FlagHasOwner, Starting, JobIsGuarded
<1>6. QED
  BY <1>1, <1>2, <1>3, <1>4, <1>5 DEF DataInv

\* Whatever ends the process, when files go of which the deletion is known.
LEMMA EndsInv ==
  ASSUME DataInv, ProcessEnds, UNCHANGED <<presence, recorded, table, whole, copied, made, aged>>,
         crashes' \in 0 .. MaxCrashes,
         schema' \in {"old", "altered", "new", "broken"}, schema' = schema \/ 1 \notin recorded,
         files' \in [Backup -> SUBSET {"db", "gz"}], torn \subseteq torn',
         \A k \in Backup : k \notin torn' => files'[k] = files[k],
         schema = "broken" => schema' = "broken"
  PROVE  DataInv'
<1> USE JobFacts DEF DataInv
<1>1. /\ phase' = "down" /\ dbOpen' = FALSE /\ backupRunning' = FALSE /\ job' = NoJob
      /\ cut \subseteq cut' /\ (job # NoJob => job.id \in cut')
  BY DEF ProcessEnds
<1>2. DataTypeOK'
  BY <1>1 DEF DataTypeOK
<1>3. TablesFit'
  BY <1>1, TableKept DEF TablesFit
<1>4. CompletedIsRestorable' /\ InProgressHasOwner'
  BY <1>1 DEF CompletedIsRestorable, InProgressHasOwner
<1>5. RecordedIsApplied'
  BY DEF RecordedIsApplied
<1>6. FlagHasOwner' /\ Starting' /\ JobIsGuarded'
  BY <1>1 DEF FlagHasOwner, Starting, JobIsGuarded
<1>7. QED
  BY <1>2, <1>3, <1>4, <1>5, <1>6

\* The steps of a start leave the backups alone.
LEMMA StartInv ==
  ASSUME DataInv, StartSteps
  PROVE  DataInv'
<1> USE JobFacts DEF DataInv
<1>1. ASSUME UNCHANGED <<fileVars, backupRunning, job, table, crashes, cut, torn, stuck>>,
             phase' \in {"exec1", "record1", "exec2", "record2", "up"},
             schema' \in {"old", "altered", "new"}, presence' \in BOOLEAN, dbOpen' \in BOOLEAN,
             recorded' \subseteq {1, 2},
             RecordedIsApplied', Starting'
      PROVE  DataInv'
  <2>1. DataTypeOK' /\ (copied \in [Backup -> [Backup -> BackupRow]])'
    BY <1>1 DEF DataTypeOK, fileVars
  <2>2. CompletedIsRestorable' /\ InProgressHasOwner' /\ FlagHasOwner' /\ JobIsGuarded'
    BY <1>1 DEF CompletedIsRestorable, InProgressHasOwner, FlagHasOwner, JobIsGuarded, fileVars
  <2>3. TablesFit'
    BY <1>1 DEF TablesFit, TableFits, fileVars
  <2>4. QED
    BY <1>1, <2>1, <2>2, <2>3
<1>2. CASE Start
  BY <1>1, <1>2 DEF Start, DataTypeOK, RecordedIsApplied, Starting, migrationVars
<1>3. CASE Migrate1
  <2>1. CASE schema = "old"
    BY <1>1, <1>3, <2>1 DEF Migrate1, DataTypeOK, RecordedIsApplied, Starting
  <2>2. CASE schema # "old"
    BY <1>3, <2>2, EndsInv DEF Migrate1, DataTypeOK, Starting, fileVars
  <2>3. QED
    BY <2>1, <2>2
<1>4. CASE Record1
  BY <1>1, <1>4 DEF Record1, DataTypeOK, RecordedIsApplied, Starting
<1>5. CASE Migrate2
  BY <1>1, <1>5 DEF Migrate2, DataTypeOK, RecordedIsApplied, Starting
<1>6. CASE Record2
  BY <1>1, <1>6 DEF Record2, DataTypeOK, RecordedIsApplied, Starting
<1>7. QED
  BY <1>2, <1>3, <1>4, <1>5, <1>6 DEF StartSteps

LEMMA CrashInv ==
  ASSUME DataInv, Crash
  PROVE  DataInv'
<1>1. crashes' \in 0 .. MaxCrashes
  BY ServerDataAssumption DEF Crash, DataInv, DataTypeOK
<1>2. /\ schema' \in {"old", "altered", "new", "broken"} /\ (schema' = schema \/ 1 \notin recorded)
      /\ schema = "broken" => schema' = "broken"
  BY DEF Crash, DataInv, DataTypeOK, Starting
<1>3. QED
  BY <1>1, <1>2, EndsInv DEF Crash, fileVars, DataInv, DataTypeOK

LEMMA CreateBackupInv ==
  ASSUME DataInv, NEW k \in Backup, NEW compress \in BOOLEAN, NEW scheduled \in BOOLEAN,
         NEW tenantKnown \in BOOLEAN, CreateBackup(k, compress, scheduled, tenantKnown)
  PROVE  DataInv'
<1> USE JobFacts DEF DataInv
<1>1. /\ phase' = phase /\ UNCHANGED <<migrationVars, dbOpen, whole, copied, aged, crashes, cut, torn>>
      /\ Up /\ ~backupRunning /\ k \notin made /\ made' = made \cup {k} /\ backupRunning' = TRUE
      /\ job = NoJob
  BY DEF CreateBackup, JobIsGuarded
<1>2. RecordedIsApplied' /\ Starting' /\ (copied \in [Backup -> [Backup -> BackupRow]])'
  BY <1>1 DEF RecordedIsApplied, Starting, Up, migrationVars
<1>3. CASE dbOpen /\ tenantKnown
  <2> DEFINE row == [status |-> "in_progress", file |-> "db"]
             begun == [id |-> k, stage |-> "copying", compress |-> compress, scheduled |-> scheduled]
  <2>1. /\ table' = [table EXCEPT ![k] = row] /\ files' = [files EXCEPT ![k] = {"db"}]
        /\ job' = begun /\ stuck' = stuck
    BY <1>3 DEF CreateBackup
  <2>2. begun \in Jobs /\ begun.id = k /\ begun.stage = "copying" /\ begun # NoJob
    BY DEF Jobs
  <2>3. row \in BackupRow /\ row.status = "in_progress" /\ row # Absent
    BY DEF Absent
  <2> HIDE DEF row, begun
  <2>4. /\ table' \in [Backup -> BackupRow] /\ table'[k] = row
        /\ (\A j \in Backup : j # k => table'[j] = table[j])
        /\ files' \in [Backup -> SUBSET {"db", "gz"}] /\ files'[k] = {"db"}
        /\ \A j \in Backup : j # k => files'[j] = files[j]
    BY <2>1, <2>3 DEF DataTypeOK, BackupRow
  <2>5. DataTypeOK'
    BY <1>1, <2>1, <2>2, <2>4 DEF DataTypeOK, BackupRow, Jobs, migrationVars
  <2>6. TableFits(table', made', whole', job'.id)
    BY <1>1, <2>1, <2>2, <2>3, <2>4 DEF TablesFit, TableFits
  <2>7. \A j \in Backup : TableFits(copied'[j], made', whole', job'.id)
    BY <1>1, <2>1, <2>2, TableKept DEF TablesFit
  <2>8. CompletedIsRestorable' /\ InProgressHasOwner'
    BY <1>1, <2>1, <2>2, <2>3, <2>4 DEF CompletedIsRestorable, InProgressHasOwner
  <2>9. FlagHasOwner' /\ JobIsGuarded'
    BY <1>1, <2>1, <2>2, <2>4 DEF FlagHasOwner, JobIsGuarded, DataTypeOK
  <2>10. QED
    BY <1>2, <2>5, <2>6, <2>7, <2>8, <2>9 DEF TablesFit
<1>4. CASE ~(dbOpen /\ tenantKnown)
  <2>1. stuck' = TRUE /\ UNCHANGED <<table, files, job>>
    BY <1>4 DEF CreateBackup
  <2>2. DataTypeOK'
    BY <1>1, <2>1 DEF DataTypeOK, migrationVars
  <2>3. TablesFit'
    BY <1>1, <2>1, TableKept DEF TablesFit
  <2>4. CompletedIsRestorable' /\ InProgressHasOwner' /\ FlagHasOwner' /\ JobIsGuarded'
    BY <1>1, <2>1 DEF CompletedIsRestorable, InProgressHasOwner, FlagHasOwner, JobIsGuarded
  <2>5. QED
    BY <1>2, <2>2, <2>3, <2>4
<1>5. QED
  BY <1>3, <1>4

\* A copy, and a compression, that ended well.
LEMMA CompletesInv ==
  ASSUME DataInv, job # NoJob, NEW f \in [Backup -> SUBSET {"db", "gz"}], Completes(f),
         "db" \in f[job.id], \A j \in Backup : j # job.id => f[j] = files[j],
         UNCHANGED <<phase, migrationVars, dbOpen, made, crashes, torn>>,
         whole' = whole \cup {job.id},
         copied' \in [Backup -> [Backup -> BackupRow]],
         \A j \in Backup : copied'[j] \in {copied[j], table}
  PROVE  DataInv'
<1> USE JobFacts DEF DataInv
<1> DEFINE k == job.id
           purge == dbOpen /\ job.scheduled
           row == [status |-> "completed", file |-> "db"]
<1>1. /\ backupRunning' = FALSE /\ stuck' = FALSE /\ job' = NoJob /\ aged' = aged
      /\ cut' = IF dbOpen THEN cut ELSE cut \cup {k}
      /\ table' = IF dbOpen THEN Updated(k, "completed", "db", purge) ELSE table
      /\ files' = Unlinked(f, purge)
  BY DEF Completes, Settle
<1>2. k \in Backup /\ k \in made /\ k \notin aged
  BY DEF JobIsGuarded
<1>3. row \in BackupRow /\ row.status = "completed" /\ row.file = "db"
  OBVIOUS
<1>4. /\ table' \in [Backup -> BackupRow]
      /\ dbOpen => table'[k] = row
      /\ ~dbOpen => table' = table
      /\ \A j \in Backup : j # k => table'[j] = table[j] \/ table'[j] = Absent
      /\ \A j \in Backup : j \in aged /\ purge => table'[j] = Absent
  BY <1>1, <1>2, <1>3 DEF Updated, TablesFit, TableFits
<1>5. /\ files' \in [Backup -> SUBSET {"db", "gz"}]
      /\ "db" \in files'[k]
      /\ \A j \in Backup : j # k /\ ~(j \in aged /\ purge) => files'[j] = files[j]
  BY <1>1, <1>2 DEF Unlinked
<1> HIDE DEF k, purge, row
<1>6. RecordedIsApplied' /\ Starting'
  BY DEF RecordedIsApplied, Starting, migrationVars
<1>7. FlagHasOwner' /\ JobIsGuarded'
  BY <1>1 DEF FlagHasOwner, JobIsGuarded
<1>8. DataTypeOK'
  BY <1>1, <1>2, <1>4, <1>5 DEF DataTypeOK, BackupRow, migrationVars, k
<1>9. TableFits(table', made', whole', job'.id)
  BY <1>1, <1>2, <1>3, <1>4 DEF TablesFit, TableFits, k
<1>10. \A j \in Backup : TableFits(copied'[j], made', whole', job'.id)
  <2>1. \A j \in Backup : TableFits(copied'[j], made, whole, job.id)
    BY DEF TablesFit
  <2>2. QED
    BY <1>1, <2>1, TableKept
<1>11. CompletedIsRestorable'
  <2>1. ASSUME NEW j \in Backup, table'[j].status = "completed"
        PROVE  j \in torn' \/ (j \in whole' /\ table'[j].file \in files'[j])
    <3>1. CASE j = k /\ dbOpen
      BY <1>3, <1>4, <1>5, <3>1 DEF k
    <3>2. CASE j = k /\ ~dbOpen
      BY <1>4, <2>1, <3>2 DEF TablesFit, TableFits, k
    <3>3. CASE j # k
      BY <1>4, <1>5, <2>1, <3>3 DEF CompletedIsRestorable
    <3>4. QED
      BY <3>1, <3>2, <3>3
  <2>2. QED
    BY <2>1 DEF CompletedIsRestorable
<1>12. InProgressHasOwner'
  BY <1>1, <1>3, <1>4 DEF InProgressHasOwner, k
<1>13. QED
  BY <1>6, <1>7, <1>8, <1>9, <1>10, <1>11, <1>12 DEF TablesFit

\* One that failed.
LEMMA FailsInv ==
  ASSUME DataInv, job # NoJob, NEW f \in [Backup -> SUBSET {"db", "gz"}], NEW file \in {"db", "gz"},
         BackupFails(f, file), \A j \in Backup : j # job.id => f[j] = files[j],
         UNCHANGED <<phase, migrationVars, dbOpen, made, crashes, torn, whole, copied>>
  PROVE  DataInv'
<1> USE JobFacts DEF DataInv
<1> DEFINE k == job.id
           row == [status |-> "failed", file |-> file]
<1>1. /\ backupRunning' = FALSE /\ stuck' = FALSE /\ job' = NoJob /\ aged' = aged
      /\ cut' = IF dbOpen THEN cut ELSE cut \cup {k}
      /\ table' = IF dbOpen THEN Updated(k, "failed", file, FALSE) ELSE table
      /\ files' = f
  BY DEF BackupFails, Settle
<1>2. k \in Backup /\ k \in made /\ k \notin aged
  BY DEF JobIsGuarded
<1>3. row \in BackupRow /\ row.status = "failed"
  OBVIOUS
<1>4. /\ table' \in [Backup -> BackupRow]
      /\ dbOpen => table'[k] = row
      /\ ~dbOpen => table' = table
      /\ \A j \in Backup : j # k => table'[j] = table[j]
  BY <1>1, <1>2, <1>3 DEF Updated, TablesFit, TableFits
<1> HIDE DEF k, row
<1>5. RecordedIsApplied' /\ Starting'
  BY DEF RecordedIsApplied, Starting, migrationVars
<1>6. FlagHasOwner' /\ JobIsGuarded'
  BY <1>1 DEF FlagHasOwner, JobIsGuarded
<1>7. DataTypeOK'
  BY <1>1, <1>2, <1>4 DEF DataTypeOK, BackupRow, migrationVars, k
<1>8. TableFits(table', made', whole', job'.id)
  <2>1. ASSUME NEW j \in Backup
        PROVE  /\ table'[j] # Absent => j \in made
               /\ table'[j].status = "completed" => j \in whole
    <3>1. CASE j = k /\ dbOpen
      BY <1>2, <1>3, <1>4, <3>1
    <3>2. CASE ~(j = k /\ dbOpen)
      <4>1. table'[j] = table[j]
        BY <1>4, <3>2
      <4>2. QED
        BY <4>1 DEF TablesFit, TableFits
    <3>3. QED
      BY <3>1, <3>2
  <2>2. job'.id \notin Backup /\ made' = made /\ whole' = whole
    BY <1>1
  <2>3. QED
    BY <1>4, <2>1, <2>2 DEF TableFits
<1>9. \A j \in Backup : TableFits(copied'[j], made', whole', job'.id)
  BY <1>1, TableKept DEF TablesFit
<1>10. CompletedIsRestorable' /\ InProgressHasOwner'
  BY <1>1, <1>3, <1>4 DEF CompletedIsRestorable, InProgressHasOwner, TablesFit, TableFits, k
<1>11. QED
  BY <1>5, <1>6, <1>7, <1>8, <1>9, <1>10 DEF TablesFit

LEMMA CopyEndsInv ==
  ASSUME DataInv, CopyEnds
  PROVE  DataInv'
<1> USE JobFacts DEF DataInv
<1> DEFINE copies == [copied EXCEPT ![job.id] = table]
<1>1. /\ job # NoJob /\ job \in Jobs /\ job.stage = "copying"
      /\ UNCHANGED <<phase, migrationVars, dbOpen, made, crashes, torn>>
  BY DEF CopyEnds
<1>2. /\ job.id \in Backup /\ job.id \in made /\ "db" \in files[job.id]
      /\ files \in [Backup -> SUBSET {"db", "gz"}] /\ table \in [Backup -> BackupRow]
  BY <1>1 DEF JobIsGuarded, TablesFit, TableFits, DataTypeOK
<1>3. /\ copies \in [Backup -> [Backup -> BackupRow]]
      /\ \A j \in Backup : copies[j] \in {copied[j], table}
  BY <1>2
<1>4. CASE /\ dbOpen /\ whole' = whole \cup {job.id} /\ copied' = copies
           /\ job.compress
           /\ job' = [job EXCEPT !.stage = "compressing"]
           /\ UNCHANGED <<table, files, aged, backupRunning, cut, stuck>>
  <2>1. job' \in Jobs /\ job'.id = job.id /\ job'.stage = "compressing"
    BY <1>1, <1>4 DEF Jobs
  <2>2. DataTypeOK'
    BY <1>1, <1>2, <1>4, <2>1 DEF DataTypeOK, Jobs, migrationVars
  <2>3. TableFits(table', made', whole', job'.id)
    BY <1>1, <1>4, <2>1, TableKept DEF TablesFit
  <2>4. \A j \in Backup : TableFits(copied'[j], made', whole', job'.id)
    <3>1. \A j \in Backup : TableFits(copied'[j], made, whole, job.id)
      BY <1>3, <1>4 DEF TablesFit
    <3>2. QED
      BY <1>1, <1>4, <2>1, <3>1, TableKept
  <2>5. FlagHasOwner' /\ JobIsGuarded'
    BY <1>1, <1>2, <1>4, <2>1 DEF FlagHasOwner, JobIsGuarded
  <2>6. CompletedIsRestorable' /\ InProgressHasOwner'
    BY <1>1, <1>4, <2>1 DEF CompletedIsRestorable, InProgressHasOwner
  <2>7. RecordedIsApplied' /\ Starting'
    BY <1>1 DEF RecordedIsApplied, Starting, migrationVars
  <2>8. QED
    BY <1>3, <1>4, <2>2, <2>3, <2>4, <2>5, <2>6, <2>7 DEF TablesFit
<1>5. CASE whole' = whole \cup {job.id} /\ copied' = copies /\ Completes(files)
  BY <1>1, <1>2, <1>3, <1>5, CompletesInv
<1>6. ASSUME NEW left \in {{}, {"db"}}, BackupFails([files EXCEPT ![job.id] = left], "db"),
             UNCHANGED <<whole, copied>>
      PROVE  DataInv'
  <2> DEFINE f == [files EXCEPT ![job.id] = left]
  <2>1. f \in [Backup -> SUBSET {"db", "gz"}] /\ \A j \in Backup : j # job.id => f[j] = files[j]
    BY <1>2
  <2>2. BackupFails(f, "db")
    BY <1>6
  <2> HIDE DEF f
  <2>3. QED
    BY <1>1, <1>6, <2>1, <2>2, FailsInv
<1>7. QED
  BY <1>4, <1>5, <1>6 DEF CopyEnds

LEMMA CompressEndsInv ==
  ASSUME DataInv, CompressEnds
  PROVE  DataInv'
<1> USE JobFacts DEF DataInv
<1>1. /\ job # NoJob /\ job \in Jobs /\ job.stage = "compressing"
      /\ UNCHANGED <<phase, migrationVars, dbOpen, whole, copied, made, crashes, torn>>
  BY DEF CompressEnds
<1>2. /\ job.id \in Backup /\ job.id \in whole /\ files \in [Backup -> SUBSET {"db", "gz"}]
  BY <1>1 DEF JobIsGuarded, DataTypeOK
<1>3. CASE BackupFails([files EXCEPT ![job.id] = {"gz"}], "gz")
  <2> DEFINE f == [files EXCEPT ![job.id] = {"gz"}]
  <2>1. f \in [Backup -> SUBSET {"db", "gz"}] /\ \A j \in Backup : j # job.id => f[j] = files[j]
    BY <1>2
  <2>2. BackupFails(f, "gz")
    BY <1>3
  <2> HIDE DEF f
  <2>3. QED
    BY <1>1, <2>1, <2>2, FailsInv
<1>4. ASSUME NEW left \in {{"db"}, {"db", "gz"}}, Completes([files EXCEPT ![job.id] = left])
      PROVE  DataInv'
  <2> DEFINE f == [files EXCEPT ![job.id] = left]
  <2>1. /\ f \in [Backup -> SUBSET {"db", "gz"}] /\ "db" \in f[job.id]
        /\ \A j \in Backup : j # job.id => f[j] = files[j]
    BY <1>2
  <2>2. Completes(f)
    BY <1>4
  <2> HIDE DEF f
  <2>3. whole' = whole \cup {job.id} /\ \A j \in Backup : copied'[j] \in {copied[j], table}
    BY <1>1, <1>2
  <2>4. QED
    BY <1>1, <2>1, <2>2, <2>3, CompletesInv
<1>5. QED
  BY <1>3, <1>4 DEF CompressEnds

\* Old backups are deleted by hand.
LEMMA CleanupBackupsInv ==
  ASSUME DataInv, Cleanup
  PROVE  DataInv'
<1> USE JobFacts DEF DataInv
<1>1. /\ table' = [k \in Backup |-> IF k \in aged THEN Absent ELSE table[k]]
      /\ files' = [k \in Backup |-> IF k \in aged THEN files[k] \ {table[k].file} ELSE files[k]]
      /\ aged' = {}
      /\ UNCHANGED <<phase, migrationVars, dbOpen, backupRunning, job, whole, copied, made,
                     crashes, cut, torn, stuck>>
  BY DEF Cleanup, Unlinked
<1>2. /\ table' \in [Backup -> BackupRow] /\ files' \in [Backup -> SUBSET {"db", "gz"}]
      /\ \A k \in Backup : table'[k] = Absent \/ (table'[k] = table[k] /\ files'[k] = files[k])
      /\ \A k \in Backup : k \notin aged => files'[k] = files[k]
  BY <1>1 DEF DataTypeOK, TablesFit, TableFits
<1>3. DataTypeOK' /\ RecordedIsApplied' /\ Starting'
  BY <1>1, <1>2 DEF DataTypeOK, BackupRow, RecordedIsApplied, Starting, migrationVars
<1>4. FlagHasOwner' /\ JobIsGuarded'
  BY <1>1, <1>2 DEF FlagHasOwner, JobIsGuarded
<1>5. TablesFit'
  BY <1>1, <1>2 DEF TablesFit, TableFits
<1>6. CompletedIsRestorable' /\ InProgressHasOwner'
  BY <1>1, <1>2 DEF CompletedIsRestorable, InProgressHasOwner
<1>7. QED
  BY <1>1, <1>3, <1>4, <1>5, <1>6

\* Every file and row of a restored table that do not agree is known.
LEMMA RestoreInv ==
  ASSUME DataInv, NEW k \in Backup, Restore(k)
  PROVE  DataInv'
<1> USE JobFacts DEF DataInv
<1>1. /\ Up /\ dbOpen' = FALSE
      /\ UNCHANGED <<phase, presence, recorded, fileVars, backupRunning, job, crashes, stuck>>
  BY DEF Restore
<1>2. schema' \in {schema, "broken"}
  BY DEF Restore
<1>3. TablesFit'
  BY <1>1 DEF Restore, TablesFit, fileVars
<1>4. DataTypeOK' /\ RecordedIsApplied' /\ Starting'
  BY <1>1, <1>2, <1>3 DEF DataTypeOK, BackupRow, RecordedIsApplied, Starting, Up, TablesFit, TableFits,
                          fileVars
<1>5. FlagHasOwner' /\ JobIsGuarded'
  BY <1>1 DEF FlagHasOwner, JobIsGuarded, fileVars
<1>6. CompletedIsRestorable' /\ InProgressHasOwner'
  <2>1. CASE UNCHANGED <<table, cut, torn>>
    BY <1>1, <2>1 DEF CompletedIsRestorable, InProgressHasOwner, fileVars
  <2>2. CASE /\ table' = copied[k]
             /\ torn' = {j \in Backup : table'[j].file \notin files[j]}
             /\ cut' = cut \cup {j \in Backup : table'[j].status = "in_progress"}
    BY <1>1, <1>3, <2>2 DEF CompletedIsRestorable, InProgressHasOwner, fileVars, TablesFit, TableFits
  <2>3. QED
    BY <2>1, <2>2 DEF Restore
<1>7. QED
  BY <1>1, <1>3, <1>4, <1>5, <1>6 DEF fileVars

LEMMA DataInvStep == DataInv /\ [DataNext]_dataVars => DataInv'
<1> SUFFICES ASSUME DataInv, [DataNext]_dataVars PROVE DataInv'
  OBVIOUS
<1> USE JobFacts DEF DataInv
<1>1. CASE StartSteps \/ Crash \/ Cleanup \/ BackupSteps
  BY <1>1, StartInv, CrashInv, CleanupBackupsInv, CopyEndsInv, CompressEndsInv DEF BackupSteps
<1>2. ASSUME NEW k \in Backup, NEW tenantKnown \in BOOLEAN,
             \/ \E compress \in BOOLEAN : CreateBackup(k, compress, FALSE, tenantKnown)
             \/ CreateBackup(k, TRUE, TRUE, TRUE)
      PROVE  DataInv'
  BY <1>2, CreateBackupInv
<1>3. ASSUME NEW k \in Backup, Age(k)
      PROVE  DataInv'
  <2>1. /\ aged' = aged \cup {k} /\ k # job.id /\ k \in made
        /\ UNCHANGED <<phase, migrationVars, dbOpen, backupRunning, job, table, files, whole,
                       copied, made, crashes, cut, torn, stuck>>
    BY <1>3 DEF Age, TablesFit, TableFits
  <2>2. DataTypeOK' /\ RecordedIsApplied' /\ Starting' /\ FlagHasOwner' /\ JobIsGuarded'
    BY <2>1 DEF DataTypeOK, RecordedIsApplied, Starting, FlagHasOwner, JobIsGuarded, migrationVars
  <2>3. TablesFit' /\ CompletedIsRestorable' /\ InProgressHasOwner'
    BY <2>1 DEF TablesFit, TableFits, CompletedIsRestorable, InProgressHasOwner
  <2>4. QED
    BY <2>1, <2>2, <2>3
<1>4. ASSUME NEW k \in Backup, CrashInCleanup(k)
      PROVE  DataInv'
  <2>1. /\ files' \in [Backup -> SUBSET {"db", "gz"}] /\ torn \subseteq torn'
        /\ \A j \in Backup : j \notin torn' => files'[j] = files[j]
    BY <1>4 DEF CrashInCleanup, DataTypeOK
  <2>2. crashes' \in 0 .. MaxCrashes
    BY <1>4, ServerDataAssumption DEF CrashInCleanup, DataTypeOK
  <2>3. QED
    BY <1>4, <2>1, <2>2, EndsInv DEF CrashInCleanup, migrationVars, DataTypeOK
<1>5. ASSUME NEW k \in Backup, Restore(k)
      PROVE  DataInv'
  BY <1>5, RestoreInv
<1>6. CASE BeginShutdown
  <2>1. /\ phase' = "stopping" /\ phase = "up"
        /\ UNCHANGED <<migrationVars, fileVars, dbOpen, backupRunning, job, table, crashes, cut,
                       torn, stuck>>
    BY <1>6 DEF BeginShutdown
  <2>2. DataTypeOK' /\ RecordedIsApplied' /\ Starting' /\ FlagHasOwner' /\ JobIsGuarded'
    BY <2>1 DEF DataTypeOK, RecordedIsApplied, Starting, FlagHasOwner, JobIsGuarded, migrationVars,
                fileVars
  <2>3. TablesFit' /\ CompletedIsRestorable' /\ InProgressHasOwner'
    BY <2>1 DEF TablesFit, TableFits, CompletedIsRestorable, InProgressHasOwner, fileVars
  <2>4. QED
    BY <2>1, <2>2, <2>3 DEF fileVars
<1>7. CASE Exit
  BY <1>7, EndsInv DEF Exit, migrationVars, fileVars, DataTypeOK
<1>8. CASE UNCHANGED dataVars
  <2>1. DataTypeOK' /\ RecordedIsApplied' /\ Starting' /\ FlagHasOwner' /\ JobIsGuarded'
    BY <1>8 DEF DataTypeOK, RecordedIsApplied, Starting, FlagHasOwner, JobIsGuarded, dataVars
  <2>2. TablesFit' /\ CompletedIsRestorable' /\ InProgressHasOwner'
    BY <1>8 DEF TablesFit, TableFits, CompletedIsRestorable, InProgressHasOwner, dataVars
  <2>3. QED
    BY <1>8, <2>1, <2>2 DEF dataVars
<1>9. QED
  BY <1>1, <1>2, <1>3, <1>4, <1>5, <1>6, <1>7, <1>8 DEF DataNext

\* Migrations, backups, files and schema agree, for any number of backups and crashes
\* (config/migrations.ts, services/backup.service.ts).
THEOREM DataSound == DataSpec => []DataIsSound
<1>1. DataInv => DataIsSound
  BY DEF DataInv, DataIsSound
<1>2. QED
  BY <1>1, DataInvInit, DataInvStep, PTL DEF DataSpec

-----------------------------------------------------------------------------
(* Presence.  A row that a dead process left belongs to no socket any more,   *)
(* and only the clients of a room know of anybody.                            *)

Rows == {NoRow} \cup [user : Tenanted, status : Statuses]

GhostsAreLoose == \A s \in ghost : owner[s] = Nobody /\ online[s] # NoRow

DownIsEmpty == alive = "down" => \A s \in Socket : owner[s] = Nobody

OnlyRoomsKnow == \A s \in Socket : owner[s] \notin Tenanted => shown[s] = Unknown

PresenceInv ==
  /\ PresenceTypeOK
  /\ RowsHaveSockets /\ ShownHasRow
  /\ GhostsAreLoose /\ DownIsEmpty /\ OnlyRoomsKnow

LEMMA RowFacts ==
  /\ Nobody \notin Member /\ Nobody \notin Tenanted /\ Tenanted \subseteq Member
  /\ NoRow.user = Nobody /\ NoRow.status = "offline"
  /\ \A r \in Rows : r # NoRow <=> r.user # Nobody
  /\ \A r \in Rows : r # NoRow => r.user \in Tenanted /\ r.status \in Statuses
  /\ \A u \in Tenanted, st \in Statuses : [user |-> u, status |-> st] \in Rows
  /\ \A u \in Tenanted, st \in Statuses : [user |-> u, status |-> st] # NoRow
  /\ Unknown \in [Member -> Statuses \cup {"offline"}]
  /\ \A u \in Member : Unknown[u] = "offline"
BY PresenceAssumption DEF Nobody, NoRow, Rows, Statuses, Unknown

LEMMA PresenceInvInit == PresenceInit => PresenceInv
<1> SUFFICES ASSUME PresenceInit PROVE PresenceInv
  OBVIOUS
<1>1. /\ \A s \in Socket : owner[s] = Nobody /\ online[s] = NoRow /\ shown[s] = Unknown
      /\ ghost = {} /\ alive = "up"
  BY DEF PresenceInit
<1>2. shown \in [Socket -> [Member -> Statuses \cup {"offline"}]]
  BY RowFacts DEF PresenceInit
<1>3. PresenceTypeOK
  BY <1>2, PresenceAssumption DEF PresenceInit, PresenceTypeOK
<1>4. QED
  BY <1>1, <1>3, RowFacts
     DEF PresenceInv, RowsHaveSockets, ShownHasRow, GhostsAreLoose, DownIsEmpty, OnlyRoomsKnow,
         Connected

\* What a room is told of u, everybody else keeps.
LEMMA BroadcastTells ==
  ASSUME NEW view \in [Socket -> [Member -> Statuses \cup {"offline"}]], NEW members,
         NEW u \in Member, NEW status \in Statuses \cup {"offline"}
  PROVE  /\ Broadcast(view, members, u, status) \in [Socket -> [Member -> Statuses \cup {"offline"}]]
         /\ \A s \in Socket, v \in Member :
              Broadcast(view, members, u, status)[s][v] =
                IF s \in members /\ v = u THEN status ELSE view[s][v]
         /\ \A s \in Socket \ members : Broadcast(view, members, u, status)[s] = view[s]
BY DEF Broadcast

LEMMA ConnectInv ==
  ASSUME PresenceInv, NEW s \in Socket, NEW u \in Member, Connect(s, u)
  PROVE  PresenceInv'
<1> USE RowFacts DEF PresenceInv
<1>1. /\ alive' = alive /\ alive # "down" /\ owner[s] = Nobody /\ online[s] = NoRow
      /\ owner' = [owner EXCEPT ![s] = u] /\ owner' \in [Socket -> Member \cup {Nobody}]
      /\ UNCHANGED <<midnight, ghost, ends>> /\ shown[s] = Unknown /\ s \notin ghost
      /\ owner'[s] = u /\ \A t \in Socket : t # s => owner'[t] = owner[t]
  BY DEF Connect, PresenceTypeOK, OnlyRoomsKnow, GhostsAreLoose
<1>2. CASE alive = "up" /\ u \in Tenanted
  <2>1. /\ online' = [online EXCEPT ![s] = [user |-> u, status |-> "online"]]
        /\ shown' = Broadcast(shown, Room(owner'), u, "online")
        /\ swept' = swept \ {u}
        /\ seenLate' \in {seenLate, seenLate \cup {s}}
    BY <1>2 DEF Connect
  <2>2. /\ online' \in [Socket -> Rows]
        /\ online'[s] = [user |-> u, status |-> "online"]
        /\ \A t \in Socket : t # s => online'[t] = online[t]
    BY <1>2, <2>1 DEF PresenceTypeOK, Rows, Statuses
  <2>3. /\ shown' \in [Socket -> [Member -> Statuses \cup {"offline"}]]
        /\ \A t \in Socket, v \in Member :
             shown'[t][v] = IF t \in Room(owner') /\ v = u THEN "online" ELSE shown[t][v]
        /\ \A t \in Socket \ Room(owner') : shown'[t] = shown[t]
    BY <2>1, BroadcastTells DEF PresenceTypeOK, Statuses
  <2>4. PresenceTypeOK'
    BY <1>1, <2>1, <2>2, <2>3 DEF PresenceTypeOK, Rows
  <2>5. RowsHaveSockets' /\ GhostsAreLoose' /\ DownIsEmpty'
    BY <1>1, <2>2 DEF RowsHaveSockets, GhostsAreLoose, DownIsEmpty, PresenceTypeOK
  <2>6. OnlyRoomsKnow'
    BY <1>1, <2>3 DEF OnlyRoomsKnow, Room
  <2>7. ASSUME NEW t \in Connected', NEW v \in Member, shown'[t][v] # "offline"
        PROVE  (\E w \in Socket : online'[w].user = v) \/ v \in swept' \/ alive' = "closed"
    <3>1. CASE v = u
      BY <2>2, <3>1
    <3>2. CASE v # u
      <4>1. shown[t][v] # "offline" /\ t \in Socket
        BY <2>3, <2>7, <3>2 DEF Connected
      <4>2. t # s
        BY <1>1, <4>1
      <4>3. t \in Connected
        BY <1>1, <2>7, <4>1, <4>2 DEF Connected
      <4>4. (\E w \in Socket : online[w].user = v) \/ v \in swept \/ alive = "closed"
        BY <4>1, <4>3 DEF ShownHasRow
      <4>5. \A w \in Socket : online[w].user = v => w # s
        BY <1>1
      <4>6. QED
        BY <1>1, <2>1, <2>2, <3>2, <4>4, <4>5
    <3>3. QED
      BY <3>1, <3>2
  <2>8. ShownHasRow'
    BY <2>7 DEF ShownHasRow
  <2>9. QED
    BY <2>4, <2>5, <2>6, <2>8
<1>3. CASE ~(alive = "up" /\ u \in Tenanted)
  <2>1. UNCHANGED <<online, seenLate, shown, swept>>
    BY <1>3 DEF Connect
  <2>2. PresenceTypeOK'
    BY <1>1, <2>1 DEF PresenceTypeOK
  <2>3. RowsHaveSockets' /\ GhostsAreLoose' /\ DownIsEmpty'
    BY <1>1, <2>1 DEF RowsHaveSockets, GhostsAreLoose, DownIsEmpty, PresenceTypeOK
  <2>4. OnlyRoomsKnow' /\ ShownHasRow'
    BY <1>1, <2>1 DEF OnlyRoomsKnow, ShownHasRow, Connected
  <2>5. QED
    BY <2>2, <2>3, <2>4
<1>4. QED
  BY <1>2, <1>3

LEMMA UpdateStatusInv ==
  ASSUME PresenceInv, NEW s \in Socket, NEW status \in Statuses, UpdateStatus(s, status)
  PROVE  PresenceInv'
<1> DEFINE u == owner[s]
           rows == {t \in Socket : online[t].user = u}
           row == [user |-> u, status |-> status]
<1> USE RowFacts DEF PresenceInv
<1>1. /\ alive = "up" /\ u # Nobody /\ rows # {}
      /\ online' = [t \in Socket |-> IF t \in rows THEN row ELSE online[t]]
      /\ seenLate' = IF midnight = "just" THEN seenLate \cup rows ELSE seenLate
      /\ shown' = Broadcast(shown, Room(owner), u, status)
      /\ swept' = swept \ {u}
      /\ UNCHANGED <<alive, owner, midnight, ghost, ends>>
  BY DEF UpdateStatus
<1>2. online \in [Socket -> Rows] /\ u \in Member
  BY <1>1 DEF PresenceTypeOK, Rows
<1>3. u \in Tenanted
  BY <1>1, <1>2
<1>4. row \in Rows /\ row # NoRow /\ row.user = u
  BY <1>3
<1> HIDE DEF row
<1>5. /\ online' \in [Socket -> Rows]
      /\ \A t \in Socket : online'[t].user = online[t].user
      /\ \A t \in Socket : (online'[t] = NoRow) = (online[t] = NoRow)
  BY <1>1, <1>2, <1>4
<1>6. /\ shown' \in [Socket -> [Member -> Statuses \cup {"offline"}]]
      /\ \A t \in Socket, v \in Member :
           shown'[t][v] = IF t \in Room(owner) /\ v = u THEN status ELSE shown[t][v]
      /\ \A t \in Socket \ Room(owner) : shown'[t] = shown[t]
  <2>1. shown \in [Socket -> [Member -> Statuses \cup {"offline"}]]
    BY DEF PresenceTypeOK
  <2>2. u \in Member /\ status \in Statuses \cup {"offline"} /\ shown' = Broadcast(shown, Room(owner), u, status)
    BY <1>1, <1>2
  <2> HIDE DEF u
  <2>3. QED
    BY ONLY <2>1, <2>2 DEF Broadcast
<1>7. PresenceTypeOK'
  BY <1>1, <1>5, <1>6 DEF PresenceTypeOK, Rows
<1>8. RowsHaveSockets' /\ GhostsAreLoose' /\ DownIsEmpty'
  BY <1>1, <1>5 DEF RowsHaveSockets, GhostsAreLoose, DownIsEmpty, PresenceTypeOK
<1>9. OnlyRoomsKnow'
  BY <1>1, <1>6 DEF OnlyRoomsKnow, Room
<1>10. ASSUME NEW t \in Connected', NEW v \in Member, shown'[t][v] # "offline"
       PROVE  (\E w \in Socket : online'[w].user = v) \/ v \in swept' \/ alive' = "closed"
  <2>1. CASE v = u
    BY <1>1, <1>5, <2>1
  <2>2. CASE v # u
    <3>1. t \in Connected /\ t \in Socket
      BY <1>1 DEF Connected
    <3>2. shown[t][v] # "offline"
      BY <1>6, <1>10, <2>2, <3>1
    <3>3. (\E w \in Socket : online[w].user = v) \/ v \in swept \/ alive = "closed"
      BY <3>1, <3>2 DEF ShownHasRow
    <3>4. QED
      BY <1>1, <1>5, <2>2, <3>3
  <2>3. QED
    BY <2>1, <2>2
<1>11. QED
  BY <1>7, <1>8, <1>9, <1>10 DEF ShownHasRow

LEMMA GetOnlineInv ==
  ASSUME PresenceInv, NEW s \in Socket, GetOnline(s)
  PROVE  PresenceInv'
<1> USE RowFacts DEF PresenceInv
<1> DEFINE Of(u) == {t \in Socket : online[t].user = u}
           told == [u \in Member |-> IF Of(u) = {} THEN "offline"
                                     ELSE online[CHOOSE t \in Of(u) : TRUE].status]
<1>1. /\ owner[s] \in Tenanted /\ shown' = [shown EXCEPT ![s] = told]
      /\ UNCHANGED <<alive, owner, online, seenLate, midnight, swept, ghost, ends>>
  BY DEF GetOnline
<1>2. ASSUME NEW u \in Member PROVE told[u] \in Statuses \cup {"offline"}
  <2>1. CASE Of(u) = {}
    BY <2>1
  <2>2. CASE Of(u) # {}
    <3>1. (CHOOSE t \in Of(u) : TRUE) \in Of(u)
      BY <2>2
    <3>2. PICK q \in Socket : q = (CHOOSE t \in Of(u) : TRUE) /\ online[q].user = u
      BY <3>1
    <3>3. online[q] \in Rows /\ online[q] # NoRow
      BY <3>2 DEF PresenceTypeOK, Rows
    <3>4. online[q].status \in Statuses
      BY <3>3
    <3>5. QED
      BY <2>2, <3>2, <3>4
  <2>3. QED
    BY <2>1, <2>2
<1>3. told \in [Member -> Statuses \cup {"offline"}]
  BY <1>2
<1>4. \A u \in Member : told[u] # "offline" => \E t \in Socket : online[t].user = u
  OBVIOUS
<1> HIDE DEF told
<1>5. /\ shown' \in [Socket -> [Member -> Statuses \cup {"offline"}]]
      /\ shown'[s] = told /\ \A t \in Socket : t # s => shown'[t] = shown[t]
  BY <1>1, <1>3 DEF PresenceTypeOK
<1>6. PresenceTypeOK'
  BY <1>1, <1>5 DEF PresenceTypeOK
<1>7. RowsHaveSockets' /\ GhostsAreLoose' /\ DownIsEmpty'
  BY <1>1 DEF RowsHaveSockets, GhostsAreLoose, DownIsEmpty
<1>8. OnlyRoomsKnow'
  BY <1>1, <1>5 DEF OnlyRoomsKnow
<1>9. ShownHasRow'
  BY <1>1, <1>4, <1>5 DEF ShownHasRow, Connected
<1>10. QED
  BY <1>6, <1>7, <1>8, <1>9

LEMMA DisconnectInv ==
  ASSUME PresenceInv, NEW s \in Socket, Disconnect(s)
  PROVE  PresenceInv'
<1> USE RowFacts DEF PresenceInv
<1> DEFINE u == owner[s]
<1>1. /\ alive' = alive /\ alive # "down" /\ u # Nobody /\ u \in Member /\ s \notin ghost
      /\ owner' = [owner EXCEPT ![s] = Nobody] /\ owner' \in [Socket -> Member \cup {Nobody}]
      /\ owner'[s] = Nobody /\ (\A t \in Socket : t # s => owner'[t] = owner[t])
      /\ UNCHANGED <<midnight, swept, ends>>
  BY DEF Disconnect, PresenceTypeOK, GhostsAreLoose
<1>2. s \notin Room(owner')
  BY <1>1 DEF Room
<1>3. CASE alive = "up" /\ online[s] # NoRow
  <2>1. /\ online' = [online EXCEPT ![s] = NoRow]
        /\ seenLate' = seenLate \ {s}
        /\ shown' = [Broadcast(shown, Room(owner'), u, "offline") EXCEPT ![s] = Unknown]
        /\ ghost' = ghost
    BY <1>3 DEF Disconnect
  <2>2. /\ online' \in [Socket -> Rows] /\ online'[s] = NoRow
        /\ \A t \in Socket : t # s => online'[t] = online[t]
    BY <2>1 DEF PresenceTypeOK, Rows
  <2> DEFINE view == Broadcast(shown, Room(owner'), u, "offline")
  <2>3. /\ view \in [Socket -> [Member -> Statuses \cup {"offline"}]]
        /\ \A t \in Socket, v \in Member :
             view[t][v] = IF t \in Room(owner') /\ v = u THEN "offline" ELSE shown[t][v]
        /\ \A t \in Socket \ Room(owner') : view[t] = shown[t]
    <3>1. shown \in [Socket -> [Member -> Statuses \cup {"offline"}]]
      BY DEF PresenceTypeOK
    <3>2. u \in Member /\ "offline" \in Statuses \cup {"offline"}
      BY <1>1
    <3> HIDE DEF u
    <3>3. QED
      BY ONLY <3>1, <3>2 DEF Broadcast, view
  <2>4. shown' = [view EXCEPT ![s] = Unknown]
    BY <2>1
  <2> HIDE DEF view
  <2>5. /\ shown' \in [Socket -> [Member -> Statuses \cup {"offline"}]]
        /\ shown'[s] = Unknown /\ \A t \in Socket : t # s => shown'[t] = view[t]
    BY <2>3, <2>4
  <2>6. online[s].user = u
    BY <1>1, <1>3 DEF RowsHaveSockets
  <2>7. PresenceTypeOK'
    BY <1>1, <2>1, <2>2, <2>5 DEF PresenceTypeOK, Rows
  <2>8. RowsHaveSockets' /\ GhostsAreLoose' /\ DownIsEmpty'
    BY <1>1, <2>1, <2>2 DEF RowsHaveSockets, GhostsAreLoose, DownIsEmpty, PresenceTypeOK
  <2>9. OnlyRoomsKnow'
    BY <1>1, <2>3, <2>5 DEF OnlyRoomsKnow, Room
  <2>10. ASSUME NEW t \in Connected', NEW v \in Member, shown'[t][v] # "offline"
         PROVE  (\E w \in Socket : online'[w].user = v) \/ v \in swept' \/ alive' = "closed"
    <3>1. t \in Socket /\ t # s /\ t \in Connected
      BY <1>1 DEF Connected
    <3>2. shown[t][v] # "offline" /\ ~(t \in Room(owner') /\ v = u)
      BY <2>3, <2>5, <2>10, <3>1
    <3>3. v # u
      <4>1. t \in Room(owner')
        BY <1>1, <3>1, <3>2 DEF OnlyRoomsKnow, Room
      <4>2. QED
        BY <3>2, <4>1
    <3>4. (\E w \in Socket : online[w].user = v) \/ v \in swept \/ alive = "closed"
      BY <3>1, <3>2 DEF ShownHasRow
    <3>5. QED
      BY <1>1, <2>2, <2>6, <3>3, <3>4
  <2>11. ShownHasRow'
    BY <2>10 DEF ShownHasRow
  <2>12. QED
    BY <2>7, <2>8, <2>9, <2>11
<1>4. CASE ~(alive = "up" /\ online[s] # NoRow)
  <2>1. /\ online' = online /\ shown' = [shown EXCEPT ![s] = Unknown]
        /\ seenLate' \subseteq seenLate
        /\ ghost' = ghost \/ (ghost' = ghost \cup {s} /\ online[s] # NoRow)
        /\ ghost' = ghost => online[s] = NoRow
    BY <1>1, <1>4 DEF Disconnect, PresenceTypeOK
  <2>2. /\ shown' \in [Socket -> [Member -> Statuses \cup {"offline"}]]
        /\ shown'[s] = Unknown /\ \A t \in Socket : t # s => shown'[t] = shown[t]
    BY <2>1 DEF PresenceTypeOK
  <2>3. PresenceTypeOK'
    BY <1>1, <2>1, <2>2 DEF PresenceTypeOK
  <2>4. GhostsAreLoose' /\ DownIsEmpty'
    BY <1>1, <2>1 DEF GhostsAreLoose, DownIsEmpty, PresenceTypeOK
  <2>5. RowsHaveSockets'
    BY <1>1, <2>1 DEF RowsHaveSockets
  <2>6. OnlyRoomsKnow' /\ ShownHasRow'
    BY <1>1, <2>1, <2>2 DEF OnlyRoomsKnow, ShownHasRow, Connected
  <2>7. QED
    BY <2>3, <2>4, <2>5, <2>6
<1>5. QED
  BY <1>3, <1>4

LEMMA CleanupInv ==
  ASSUME PresenceInv, CleanupStaleRecords
  PROVE  PresenceInv'
<1> USE RowFacts DEF PresenceInv
<1> DEFINE rows == {s \in Socket : online[s] # NoRow /\ s \notin seenLate}
<1>1. /\ alive = "up"
      /\ online' = [s \in Socket |-> IF s \in rows THEN NoRow ELSE online[s]]
      /\ swept' = swept \cup {online[s].user : s \in rows}
      /\ ghost' = ghost \ rows
      /\ UNCHANGED <<alive, owner, seenLate, midnight, shown, ends>>
  BY DEF CleanupStaleRecords
<1>2. \A s \in rows : online[s].user \in Member
  BY DEF PresenceTypeOK, Rows
<1>3. PresenceTypeOK'
  BY <1>1, <1>2 DEF PresenceTypeOK
<1>4. RowsHaveSockets' /\ GhostsAreLoose' /\ DownIsEmpty' /\ OnlyRoomsKnow'
  BY <1>1 DEF RowsHaveSockets, GhostsAreLoose, DownIsEmpty, OnlyRoomsKnow, PresenceTypeOK
<1>5. ShownHasRow'
  BY <1>1 DEF ShownHasRow, Connected
<1>6. QED
  BY <1>3, <1>4, <1>5

LEMMA GoneInv ==
  ASSUME PresenceInv, Gone, ends < MaxEnds, midnight' = midnight, swept' = swept,
         \/ /\ UNCHANGED <<online, seenLate>>
            /\ ghost' = ghost \cup {s \in Connected : online[s] # NoRow}
         \/ /\ online' = [s \in Socket |-> IF s \in Connected THEN NoRow ELSE online[s]]
            /\ seenLate' \subseteq Socket /\ ghost' = ghost
  PROVE  PresenceInv'
<1> USE RowFacts DEF PresenceInv
<1>1. /\ \A s \in Socket : owner'[s] = Nobody /\ shown'[s] = Unknown
      /\ shown' \in [Socket -> [Member -> Statuses \cup {"offline"}]]
      /\ owner' \in [Socket -> Member \cup {Nobody}]
      /\ alive' = "down" /\ ends' \in 0 .. MaxEnds
  BY PresenceAssumption DEF Gone, PresenceTypeOK
<1>2. /\ ghost' \subseteq Socket /\ seenLate' \subseteq Socket
      /\ online' \in [Socket -> {NoRow} \cup [user : Tenanted, status : Statuses]]
  BY DEF PresenceTypeOK, Connected
<1>3. PresenceTypeOK'
  BY <1>1, <1>2 DEF PresenceTypeOK
<1>4. RowsHaveSockets' /\ GhostsAreLoose'
  BY <1>1 DEF RowsHaveSockets, GhostsAreLoose, Connected, PresenceTypeOK
<1>5. DownIsEmpty' /\ OnlyRoomsKnow' /\ ShownHasRow'
  BY <1>1 DEF DownIsEmpty, OnlyRoomsKnow, ShownHasRow, Connected
<1>6. QED
  BY <1>3, <1>4, <1>5

LEMMA PresenceInvStep == PresenceInv /\ [PresenceNext]_presenceVars => PresenceInv'
<1> SUFFICES ASSUME PresenceInv, [PresenceNext]_presenceVars PROVE PresenceInv'
  OBVIOUS
<1>1. CASE CleanupStaleRecords
  BY <1>1, CleanupInv
<1>2. CASE Midnight \/ FiveMinutes
  BY <1>2 DEF Midnight, FiveMinutes, PresenceInv, PresenceTypeOK, RowsHaveSockets, ShownHasRow,
              GhostsAreLoose, DownIsEmpty, OnlyRoomsKnow, Connected
<1>3. CASE CloseHandle
  BY <1>3 DEF CloseHandle, PresenceInv, PresenceTypeOK, RowsHaveSockets, ShownHasRow,
              GhostsAreLoose, DownIsEmpty, OnlyRoomsKnow, Connected
<1>4. CASE PresenceCrash
  BY <1>4, GoneInv DEF PresenceCrash
<1>5. CASE CloseSockets
  <2>1. seenLate' \subseteq Socket
    BY <1>5 DEF CloseSockets, PresenceInv, PresenceTypeOK
  <2>2. QED
    BY <1>5, <2>1, GoneInv DEF CloseSockets
<1>6. CASE PresenceStart
  BY <1>6 DEF PresenceStart, PresenceInv, PresenceTypeOK, RowsHaveSockets, ShownHasRow,
              GhostsAreLoose, DownIsEmpty, OnlyRoomsKnow, Connected
<1>7. CASE UNCHANGED presenceVars
  BY <1>7 DEF presenceVars, PresenceInv, PresenceTypeOK, RowsHaveSockets, ShownHasRow,
              GhostsAreLoose, DownIsEmpty, OnlyRoomsKnow, Connected
<1>8. QED
  BY <1>1, <1>2, <1>3, <1>4, <1>5, <1>6, <1>7, ConnectInv, UpdateStatusInv, GetOnlineInv,
     DisconnectInv DEF PresenceNext

LEMMA PresenceInvImplies == PresenceInv => PresenceIsSound
BY DEF PresenceInv, PresenceIsSound

\* Users, rows and what clients were told agree, for any number of sockets, users and
\* tenants (services/presence.service.ts, services/websocket.service.ts).
THEOREM PresenceSound == PresenceSpec => []PresenceIsSound
BY PresenceInvImplies, PresenceInvInit, PresenceInvStep, PTL DEF PresenceSpec

-----------------------------------------------------------------------------
(* Messages inside the page.  What a callback was given and what is queued is  *)
(* one line of messages, and the timers hold what may be put behind it.       *)

Ordered(s) ==
  \A i, j \in 1 .. Len(s) :
    /\ s[i] = s[j] => i = j
    /\ i < j => s[i] < s[j] \/ s[i] \in BodyLess \/ s[j] \in BodyLess
    /\ s[i] \notin OwnOnes /\ s[i] \notin Notices

\* m may come behind the messages of s.
Later(m, s) ==
  \A i \in 1 .. Len(s) : s[i] # m /\ (s[i] < m \/ s[i] \in BodyLess \/ m \in BodyLess)

Lines == [w \in Waiter |-> heardBy[w] \o queue]

QueueTypes ==
  /\ arrived \in Nat /\ given \subseteq 1 .. arrived /\ isNew \subseteq 1 .. arrived
  /\ queue \in Seq(Nat) /\ heardBy \in [Waiter -> Seq(Nat)]
  /\ delays \in [none : Seq(Nat), two : Seq(Nat)]

LinesOrdered == \A w \in Waiter : Ordered(Lines[w])

OnlyArrived ==
  /\ \A i \in 1 .. Len(queue) : queue[i] <= arrived
  /\ \A w \in Waiter : \A i \in 1 .. Len(Lines[w]) : Lines[w][i] <= arrived

\* What a timer holds comes behind every line, in the order of arrival.
TimersHold(held, bodyLess, last, lines) ==
  /\ \A i \in 1 .. Len(held) :
       /\ held[i] <= last /\ held[i] \notin OwnOnes /\ (held[i] \in BodyLess) = bodyLess
       /\ \A w \in Waiter : Later(held[i], lines[w])
  /\ \A i, j \in 1 .. Len(held) : i < j => held[i] < held[j]

QueueInv ==
  /\ QueueTypes /\ NoneStranded /\ ReturnedIsOld
  /\ LinesOrdered /\ OnlyArrived
  /\ TimersHold(delays.none, FALSE, arrived, Lines) /\ TimersHold(delays.two, TRUE, arrived, Lines)

LEMMA OrderedAppend ==
  ASSUME NEW s \in Seq(Nat), NEW m \in Nat, Ordered(s), Later(m, s),
         m \notin OwnOnes, m \notin Notices
  PROVE  Ordered(Append(s, m))
<1> DEFINE t == Append(s, m)
<1>1. /\ Len(s) \in Nat /\ Len(t) = Len(s) + 1 /\ t[Len(s) + 1] = m
      /\ \A i \in 1 .. Len(s) : t[i] = s[i] /\ s[i] \in Nat
  BY AppendProperties, LenProperties, ElementOfSeq
<1> HIDE DEF t
<1>2. SUFFICES ASSUME NEW i \in 1 .. Len(t), NEW j \in 1 .. Len(t)
               PROVE  /\ t[i] = t[j] => i = j
                      /\ i < j => t[i] < t[j] \/ t[i] \in BodyLess \/ t[j] \in BodyLess
                      /\ t[i] \notin OwnOnes /\ t[i] \notin Notices
  BY DEF Ordered, t
<1>3. CASE i \in 1 .. Len(s) /\ j \in 1 .. Len(s)
  BY <1>1, <1>3 DEF Ordered
<1>4. CASE i \in 1 .. Len(s) /\ j = Len(s) + 1
  BY <1>1, <1>4 DEF Ordered, Later
<1>5. CASE i = Len(s) + 1 /\ j \in 1 .. Len(s)
  BY <1>1, <1>5 DEF Later
<1>6. CASE i = Len(s) + 1 /\ j = Len(s) + 1
  BY <1>1, <1>6
<1>7. QED
  BY <1>1, <1>3, <1>4, <1>5, <1>6

LEMMA LaterAppend ==
  ASSUME NEW s \in Seq(Nat), NEW m \in Nat, NEW n \in Nat, Later(m, s), n # m,
         n < m \/ n \in BodyLess \/ m \in BodyLess
  PROVE  Later(m, Append(s, n))
<1>1. /\ Len(s) \in Nat /\ Len(Append(s, n)) = Len(s) + 1 /\ Append(s, n)[Len(s) + 1] = n
      /\ \A i \in 1 .. Len(s) : Append(s, n)[i] = s[i]
  BY AppendProperties, LenProperties
<1>2. QED
  BY <1>1 DEF Later

LEMMA Prefixes ==
  ASSUME NEW s \in Seq(Nat), NEW t \in Seq(Nat)
  PROVE  /\ Ordered(s \o t) => Ordered(s)
         /\ \A m \in Nat : Later(m, s \o t) => Later(m, s)
         /\ Len(s) \in Nat /\ Len(s) <= Len(s \o t) /\ \A i \in 1 .. Len(s) : (s \o t)[i] = s[i]
         /\ s \o <<>> = s
<1>1. /\ Len(s) \in Nat /\ Len(t) \in Nat /\ Len(s \o t) = Len(s) + Len(t)
      /\ \A i \in 1 .. Len(s) : (s \o t)[i] = s[i]
  BY ConcatProperties, LenProperties
<1>2. s \o <<>> = s
  BY ConcatEmptySeq
<1>3. \A i \in 1 .. Len(s) : i \in 1 .. Len(s \o t)
  BY <1>1
<1>4. QED
  BY <1>1, <1>2, <1>3 DEF Ordered, Later

LEMMA QueueInvInit == QueueInit => QueueInv
<1> SUFFICES ASSUME QueueInit PROVE QueueInv
  OBVIOUS
<1>1. /\ arrived = 0 /\ isNew = {} /\ given = {} /\ queue = <<>>
      /\ delays = [none |-> <<>>, two |-> <<>>] /\ heardBy = [w \in Waiter |-> <<>>]
  BY DEF QueueInit, NoDelays
<1>2. /\ <<>> \in Seq(Nat) /\ Len(<<>>) = 0 /\ <<>> \o <<>> = <<>>
  BY EmptySeq, ConcatEmptySeq
<1>3. \A w \in Waiter : Lines[w] = <<>>
  BY <1>1, <1>2 DEF Lines
<1>4. QueueTypes /\ NoneStranded /\ ReturnedIsOld
  BY <1>1, <1>2 DEF QueueTypes, NoneStranded, ReturnedIsOld
<1>5. delays.none = <<>> /\ delays.two = <<>>
  BY <1>1
<1>6. QED
  BY <1>1, <1>2, <1>3, <1>4, <1>5 DEF QueueInv, LinesOrdered, OnlyArrived, TimersHold, Ordered

LEMMA MessageAddedInv ==
  ASSUME QueueInv, MessageAdded
  PROVE  QueueInv'
<1> DEFINE m == arrived + 1
<1>1. /\ arrived \in Nat /\ m \in Nat /\ arrived' = m /\ m \in 1 .. m /\ arrived < m
      /\ UNCHANGED <<hooked, queue, debouncing, waiting, heardBy, given>>
      /\ isNew' = isNew \cup {m}
  BY DEF MessageAdded, QueueInv, QueueTypes
<1>2. /\ given' \subseteq 1 .. arrived' /\ isNew' \subseteq 1 .. arrived' /\ m \notin given
  BY <1>1 DEF QueueInv, QueueTypes
<1>3. NoneStranded' /\ ReturnedIsOld'
  BY <1>1, <1>2 DEF QueueInv, NoneStranded, ReturnedIsOld
<1>4. /\ queue \in Seq(Nat) /\ Len(queue) \in Nat /\ \A i \in 1 .. Len(queue) : queue[i] \in Nat
      /\ delays.none \in Seq(Nat) /\ delays.two \in Seq(Nat)
      /\ heardBy \in [Waiter -> Seq(Nat)] /\ delays \in [none : Seq(Nat), two : Seq(Nat)]
  BY LenProperties, ElementOfSeq DEF QueueInv, QueueTypes
<1>5. ASSUME NEW w \in Waiter
      PROVE  /\ Lines'[w] = Lines[w] /\ Lines[w] \in Seq(Nat)
             /\ Len(Lines[w]) \in Nat /\ \A i \in 1 .. Len(Lines[w]) : Lines[w][i] \in Nat
             /\ Later(m, Lines[w])
  <2>1. Lines'[w] = Lines[w] /\ Lines[w] \in Seq(Nat)
    BY <1>1, <1>4, ConcatProperties DEF Lines
  <2>2. Len(Lines[w]) \in Nat /\ \A i \in 1 .. Len(Lines[w]) : Lines[w][i] \in Nat
    BY <2>1, LenProperties, ElementOfSeq
  <2>3. \A i \in 1 .. Len(Lines[w]) : Lines[w][i] <= arrived
    BY DEF QueueInv, OnlyArrived
  <2> HIDE DEF m
  <2>4. QED
    BY <1>1, <2>1, <2>2, <2>3 DEF Later
<1>6. LinesOrdered'
  BY <1>5 DEF QueueInv, LinesOrdered
<1>7. OnlyArrived'
  <2>1. \A i \in 1 .. Len(queue) : queue[i] <= m
    BY <1>1, <1>4 DEF QueueInv, OnlyArrived
  <2>2. \A w \in Waiter : \A i \in 1 .. Len(Lines[w]) : Lines[w][i] <= m
    BY <1>1, <1>5 DEF QueueInv, OnlyArrived
  <2>3. QED
    BY <1>1, <1>5, <2>1, <2>2 DEF OnlyArrived
<1>8. ASSUME NEW held \in Seq(Nat), NEW b \in BOOLEAN, TimersHold(held, b, arrived, Lines)
      PROVE  /\ TimersHold(held, b, arrived', Lines')
             /\ (m \in BodyLess) = b /\ m \notin OwnOnes => TimersHold(Append(held, m), b, arrived', Lines')
  <2>1. Len(held) \in Nat /\ \A i \in 1 .. Len(held) : held[i] \in Nat
    BY LenProperties, ElementOfSeq
  <2> HIDE DEF m
  <2>2. ASSUME NEW i \in 1 .. Len(held)
        PROVE  /\ held[i] <= m /\ held[i] < m /\ held[i] \notin OwnOnes /\ (held[i] \in BodyLess) = b
               /\ \A w \in Waiter : Later(held[i], Lines'[w])
    <3>1. held[i] <= arrived /\ held[i] \notin OwnOnes /\ (held[i] \in BodyLess) = b
      BY <1>8 DEF TimersHold
    <3>2. held[i] <= m /\ held[i] < m
      BY <1>1, <2>1, <3>1
    <3>3. \A w \in Waiter : Later(held[i], Lines'[w])
      BY <1>5, <1>8 DEF TimersHold
    <3>4. QED
      BY <3>1, <3>2, <3>3
  <2>3. \A i, j \in 1 .. Len(held) : i < j => held[i] < held[j]
    BY <1>8 DEF TimersHold
  <2>4. TimersHold(held, b, arrived', Lines')
    BY <1>1, <2>2, <2>3 DEF TimersHold
  <2>5. ASSUME (m \in BodyLess) = b, m \notin OwnOnes
        PROVE  TimersHold(Append(held, m), b, arrived', Lines')
    <3> DEFINE s == Append(held, m)
    <3>1. /\ Len(s) = Len(held) + 1 /\ s[Len(held) + 1] = m
          /\ \A i \in 1 .. Len(held) : s[i] = held[i]
      BY <1>1, AppendProperties
    <3> HIDE DEF s
    <3>2. \A i \in 1 .. Len(s) : i \in 1 .. Len(held) \/ i = Len(held) + 1
      BY <2>1, <3>1
    <3>3. ASSUME NEW i \in 1 .. Len(s)
          PROVE  /\ s[i] <= m /\ s[i] \notin OwnOnes /\ (s[i] \in BodyLess) = b
                 /\ \A w \in Waiter : Later(s[i], Lines'[w])
      <4>1. CASE i \in 1 .. Len(held)
        BY <2>2, <3>1, <4>1
      <4>2. CASE i = Len(held) + 1
        <5>1. s[i] = m /\ m <= m
          BY <1>1, <3>1, <4>2
        <5>2. QED
          BY <1>5, <2>5, <5>1
      <4>3. QED
        BY <3>2, <4>1, <4>2
    <3>4. \A i, j \in 1 .. Len(s) : i < j => s[i] < s[j]
      BY <2>1, <2>2, <2>3, <3>1, <3>2
    <3>5. TimersHold(s, b, arrived', Lines')
      BY <1>1, <3>3, <3>4 DEF TimersHold
    <3>6. QED
      BY <3>5 DEF s
  <2>6. QED
    BY <2>4, <2>5
<1>9. /\ delays' \in [none : Seq(Nat), two : Seq(Nat)]
      /\ \/ delays'.none = delays.none
         \/ delays'.none = Append(delays.none, m) /\ m \notin OwnOnes /\ m \notin BodyLess
      /\ \/ delays'.two = delays.two
         \/ delays'.two = Append(delays.two, m) /\ m \notin OwnOnes /\ m \in BodyLess
  <2>1. Append(delays.none, m) \in Seq(Nat) /\ Append(delays.two, m) \in Seq(Nat)
    BY <1>1, <1>4, AppendProperties
  <2>2. delays' = IF ~hooked \/ m \in OwnOnes THEN delays
               ELSE IF m \in BodyLess THEN [delays EXCEPT !.two = Append(@, m)]
               ELSE [delays EXCEPT !.none = Append(@, m)]
    BY DEF MessageAdded
  <2> HIDE DEF m
  <2>3. QED
    BY <1>4, <2>1, <2>2
<1>10. TimersHold(delays'.none, FALSE, arrived', Lines') /\ TimersHold(delays'.two, TRUE, arrived', Lines')
  <2>1. TimersHold(delays.none, FALSE, arrived, Lines) /\ TimersHold(delays.two, TRUE, arrived, Lines)
    BY DEF QueueInv
  <2> HIDE DEF m
  <2>2. TimersHold(delays'.none, FALSE, arrived', Lines')
    <3>1. m \notin BodyLess => (m \in BodyLess) = FALSE
      OBVIOUS
    <3>2. /\ TimersHold(delays.none, FALSE, arrived', Lines')
          /\ m \notin BodyLess /\ m \notin OwnOnes =>
               TimersHold(Append(delays.none, m), FALSE, arrived', Lines')
      BY <1>4, <1>8, <2>1, <3>1
    <3>3. QED
      BY <1>9, <3>2
  <2>3. TimersHold(delays'.two, TRUE, arrived', Lines')
    <3>1. m \in BodyLess => (m \in BodyLess) = TRUE
      OBVIOUS
    <3>2. /\ TimersHold(delays.two, TRUE, arrived', Lines')
          /\ m \in BodyLess /\ m \notin OwnOnes =>
               TimersHold(Append(delays.two, m), TRUE, arrived', Lines')
      BY <1>4, <1>8, <2>1, <3>1
    <3>3. QED
      BY <1>9, <3>2
  <2>4. QED
    BY <2>2, <2>3
<1>11. QueueTypes'
  BY <1>1, <1>2, <1>4, <1>9 DEF QueueTypes
<1>12. QED
  BY <1>3, <1>6, <1>7, <1>10, <1>11 DEF QueueInv

LEMMA ConcatAppend ==
  ASSUME NEW h \in Seq(Nat), NEW q \in Seq(Nat), NEW m \in Nat
  PROVE  Append(h \o q, m) = h \o Append(q, m)
<1>1. <<m>> \in Seq(Nat) /\ h \o q \in Seq(Nat)
  BY ConcatProperties
<1>2. (h \o q) \o <<m>> = h \o (q \o <<m>>)
  BY <1>1, ConcatAssociative
<1>3. Append(q, m) = q \o <<m>> /\ Append(h \o q, m) = (h \o q) \o <<m>>
  BY <1>1, AppendIsConcat
<1>4. QED
  BY <1>2, <1>3

\* The lines stay when only the timers, the callers or the counts change.
LEMMA LinesKept ==
  ASSUME QueueInv, UNCHANGED <<arrived, queue, heardBy>>
  PROVE  LinesOrdered' /\ OnlyArrived' /\ Lines' = Lines
<1>1. Lines' = Lines
  BY DEF Lines
<1>2. QED
  BY <1>1 DEF QueueInv, LinesOrdered, OnlyArrived

LEMMA LineFacts ==
  ASSUME QueueInv, NEW w \in Waiter
  PROVE  /\ Lines[w] \in Seq(Nat) /\ Lines[w] = heardBy[w] \o queue
         /\ heardBy[w] \in Seq(Nat) /\ queue \in Seq(Nat)
         /\ Ordered(Lines[w]) /\ \A i \in 1 .. Len(Lines[w]) : Lines[w][i] <= arrived
BY ConcatProperties DEF QueueInv, QueueTypes, Lines, LinesOrdered, OnlyArrived

\* The first message of a timer.
LEMMA HeadOfTimer ==
  ASSUME QueueInv, NEW held \in Seq(Nat), NEW b \in BOOLEAN,
         TimersHold(held, b, arrived, Lines), held # <<>>
  PROVE  LET m == Head(held) IN
         /\ Tail(held) \in Seq(Nat) /\ TimersHold(Tail(held), b, arrived, Lines)
         /\ m \in Nat /\ m <= arrived /\ m \notin OwnOnes /\ (m \in BodyLess) = b
         /\ \A w \in Waiter : Later(m, Lines[w])
         /\ \A i \in 1 .. Len(Tail(held)) : m < Tail(held)[i]
<1> DEFINE m == Head(held)
<1>1. /\ Len(held) \in Nat \ {0} /\ m = held[1] /\ m \in Nat
      /\ Tail(held) \in Seq(Nat) /\ Len(Tail(held)) = Len(held) - 1
      /\ \A i \in 1 .. Len(Tail(held)) : Tail(held)[i] = held[i + 1]
  BY HeadTailProperties, EmptySeq, LenProperties
<1>2. /\ 1 \in 1 .. Len(held)
      /\ \A i \in 1 .. Len(Tail(held)) : i + 1 \in 1 .. Len(held) /\ 1 < i + 1
      /\ \A i, j \in 1 .. Len(Tail(held)) : i < j => i + 1 < j + 1
  BY <1>1
<1> HIDE DEF m
<1>3. m <= arrived /\ m \notin OwnOnes /\ (m \in BodyLess) = b /\ \A w \in Waiter : Later(m, Lines[w])
  BY <1>1, <1>2 DEF TimersHold
<1>4. \A i \in 1 .. Len(Tail(held)) : m < Tail(held)[i]
  BY <1>1, <1>2 DEF TimersHold
<1>5. TimersHold(Tail(held), b, arrived, Lines)
  BY <1>1, <1>2 DEF TimersHold
<1>6. QED
  BY <1>1, <1>3, <1>4, <1>5 DEF m

\* The other messages in timers stay behind the one that left its timer.
LEMMA TimerStaysBehind ==
  ASSUME QueueInv, NEW held \in Seq(Nat), NEW b \in BOOLEAN,
         TimersHold(held, b, arrived, Lines), NEW m \in Nat,
         NEW lines, \A w \in Waiter : lines[w] \in {Lines[w], Append(Lines[w], m)},
         \A i \in 1 .. Len(held) :
           held[i] # m /\ (m < held[i] \/ m \in BodyLess \/ held[i] \in BodyLess)
  PROVE  TimersHold(held, b, arrived, lines)
<1>1. \A i \in 1 .. Len(held) : held[i] \in Nat
  BY ElementOfSeq
<1>2. ASSUME NEW i \in 1 .. Len(held), NEW w \in Waiter
      PROVE  Later(held[i], lines[w])
  <2>1. Later(held[i], Lines[w])
    BY DEF TimersHold
  <2>2. Later(held[i], Append(Lines[w], m))
    BY <1>1, <2>1, LineFacts, LaterAppend
  <2>3. QED
    BY <2>1, <2>2
<1>3. QED
  BY <1>2 DEF TimersHold

\* A message that is not a notification goes from its timer to the end of every line.
LEMMA DelayEndsInv ==
  ASSUME QueueInv, NEW d \in {"none", "two"}, DelayEnds(d)
  PROVE  QueueInv'
<1> DEFINE b == d = "two"
           held == delays[d]
           rest == [delays EXCEPT ![d] = Tail(@)]
<1>1. /\ held # <<>> /\ delays' = rest
      /\ queue' = IF Head(held) \in Notices THEN queue ELSE Append(queue, Head(held))
      /\ debouncing' = (debouncing \/ queue' # <<>>)
      /\ UNCHANGED <<hooked, arrived, isNew, unread, given, waiting, heardBy>>
  BY DEF DelayEnds, storeVars
<1>2. /\ delays \in [none : Seq(Nat), two : Seq(Nat)] /\ queue \in Seq(Nat)
      /\ delays.none \in Seq(Nat) /\ delays.two \in Seq(Nat) /\ held \in Seq(Nat)
      /\ heardBy \in [Waiter -> Seq(Nat)] /\ arrived \in Nat
  BY DEF QueueInv, QueueTypes
<1>3. TimersHold(held, b, arrived, Lines)
  <2>1. CASE d = "none"
    BY <2>1 DEF QueueInv
  <2>2. CASE d = "two"
    BY <2>2 DEF QueueInv
  <2>3. QED
    BY <2>1, <2>2
<1>4. b \in BOOLEAN
  OBVIOUS
<1> HIDE DEF b
<1>5. PICK m : m = Head(held)
  OBVIOUS
<1>6. /\ m \in Nat /\ m <= arrived /\ m \notin OwnOnes /\ (m \in BodyLess) = b
      /\ Tail(held) \in Seq(Nat) /\ TimersHold(Tail(held), b, arrived, Lines)
      /\ \A w \in Waiter : Later(m, Lines[w])
      /\ \A i \in 1 .. Len(Tail(held)) : m < Tail(held)[i]
  BY <1>1, <1>2, <1>3, <1>4, <1>5, HeadOfTimer
<1>7. NoneStranded' /\ ReturnedIsOld'
  BY <1>1 DEF QueueInv, NoneStranded, ReturnedIsOld
<1>8. queue' \in Seq(Nat) /\ \A i \in 1 .. Len(queue') : queue'[i] <= arrived
  <2>1. Len(queue) \in Nat /\ \A i \in 1 .. Len(queue) : queue[i] <= arrived
    BY <1>2, LenProperties DEF QueueInv, OnlyArrived
  <2>2. /\ Append(queue, m) \in Seq(Nat) /\ Len(Append(queue, m)) = Len(queue) + 1
        /\ Append(queue, m)[Len(queue) + 1] = m
        /\ \A i \in 1 .. Len(queue) : Append(queue, m)[i] = queue[i]
    BY <1>2, <1>6, AppendProperties
  <2>3. \A i \in 1 .. Len(Append(queue, m)) : Append(queue, m)[i] <= arrived
    BY <1>6, <2>1, <2>2
  <2>4. QED
    BY <1>1, <1>2, <1>5, <2>1, <2>2, <2>3
<1>9. ASSUME NEW w \in Waiter
      PROVE  Lines'[w] \in {Lines[w], Append(Lines[w], m)} /\ (Lines'[w] # Lines[w] => m \notin Notices)
  <2>1. Lines'[w] = heardBy[w] \o queue'
    BY <1>1 DEF Lines
  <2>2. Append(heardBy[w] \o queue, m) = heardBy[w] \o Append(queue, m)
    <3>1. heardBy[w] \in Seq(Nat) /\ queue \in Seq(Nat) /\ m \in Nat
      BY <1>2, <1>6
    <3>2. QED
      BY <3>1, ConcatAppend
  <2>3. Lines[w] = heardBy[w] \o queue
    BY LineFacts
  <2>4. queue' = IF m \in Notices THEN queue ELSE Append(queue, m)
    BY <1>1, <1>5
  <2>5. QED
    BY <2>1, <2>2, <2>3, <2>4
<1>10. ASSUME NEW w \in Waiter
       PROVE  Ordered(Lines'[w]) /\ \A i \in 1 .. Len(Lines'[w]) : Lines'[w][i] <= arrived
  <2>1. CASE Lines'[w] = Lines[w]
    BY <2>1, LineFacts
  <2>2. CASE Lines'[w] # Lines[w]
    <3>1. Lines'[w] = Append(Lines[w], m) /\ m \notin Notices
      BY <1>9, <2>2
    <3>2. /\ Lines[w] \in Seq(Nat) /\ Ordered(Lines[w]) /\ Len(Lines[w]) \in Nat
          /\ \A i \in 1 .. Len(Lines[w]) : Lines[w][i] <= arrived
      BY LineFacts, LenProperties
    <3>3. Ordered(Append(Lines[w], m))
      BY <1>6, <3>1, <3>2, OrderedAppend
    <3>4. /\ Len(Append(Lines[w], m)) = Len(Lines[w]) + 1
          /\ Append(Lines[w], m)[Len(Lines[w]) + 1] = m
          /\ \A i \in 1 .. Len(Lines[w]) : Append(Lines[w], m)[i] = Lines[w][i]
      BY <1>6, <3>2, AppendProperties
    <3>5. \A i \in 1 .. Len(Append(Lines[w], m)) : Append(Lines[w], m)[i] <= arrived
      BY <1>6, <3>2, <3>4
    <3>6. QED
      BY <3>1, <3>3, <3>5
  <2>3. QED
    BY <2>1, <2>2
<1>11. LinesOrdered' /\ OnlyArrived'
  BY <1>1, <1>8, <1>10 DEF LinesOrdered, OnlyArrived
<1>12. delays' \in [none : Seq(Nat), two : Seq(Nat)]
  BY <1>1, <1>2, <1>6
<1>13. ASSUME NEW e \in {"none", "two"}, e # d
       PROVE  TimersHold(delays'[e], e = "two", arrived, Lines')
  <2>1. delays'[e] = delays[e] /\ delays[e] \in Seq(Nat)
    BY <1>1, <1>2, <1>13
  <2>2. TimersHold(delays[e], e = "two", arrived, Lines)
    <3>1. CASE e = "none"
      BY <3>1 DEF QueueInv
    <3>2. CASE e = "two"
      BY <3>2 DEF QueueInv
    <3>3. QED
      BY <3>1, <3>2
  <2>3. \A i \in 1 .. Len(delays[e]) : (delays[e][i] \in BodyLess) = (e = "two")
    BY <2>2 DEF TimersHold
  <2>4. \A i \in 1 .. Len(delays[e]) :
          delays[e][i] # m /\ (m \in BodyLess \/ delays[e][i] \in BodyLess)
    <3>1. CASE e = "two"
      <4>1. m \notin BodyLess
        BY <1>6, <1>13, <3>1 DEF b
      <4>2. QED
        BY <2>3, <3>1, <4>1
    <3>2. CASE e # "two"
      <4>1. m \in BodyLess
        BY <1>6, <1>13, <3>2 DEF b
      <4>2. QED
        BY <2>3, <3>2, <4>1
    <3>3. QED
      BY <3>1, <3>2
  <2>5. (e = "two") \in BOOLEAN
    OBVIOUS
  <2>6. QED
    BY <1>6, <1>9, <2>1, <2>2, <2>4, <2>5, TimerStaysBehind
<1>14. TimersHold(delays'[d], b, arrived, Lines')
  <2>1. delays'[d] = Tail(held)
    BY <1>1, <1>2
  <2>2. \A i \in 1 .. Len(Tail(held)) : Tail(held)[i] # m
    BY <1>6, ElementOfSeq
  <2>3. QED
    BY <1>4, <1>6, <1>9, <2>1, <2>2, TimerStaysBehind
<1>15. TimersHold(delays'.none, FALSE, arrived', Lines') /\ TimersHold(delays'.two, TRUE, arrived', Lines')
  <2>1. arrived' = arrived
    BY <1>1
  <2>2. CASE d = "none"
    <3>1. b = FALSE /\ "two" \in {"none", "two"} /\ "two" # d /\ ("two" = "two") = TRUE
      BY <2>2 DEF b
    <3>2. TimersHold(delays'["two"], "two" = "two", arrived, Lines')
      BY <1>13, <3>1
    <3>3. QED
      BY <1>14, <2>1, <2>2, <3>1, <3>2
  <2>3. CASE d = "two"
    <3>1. b = TRUE /\ "none" \in {"none", "two"} /\ "none" # d /\ ("none" = "two") = FALSE
      BY <2>3 DEF b
    <3>2. TimersHold(delays'["none"], "none" = "two", arrived, Lines')
      BY <1>13, <3>1
    <3>3. QED
      BY <1>14, <2>1, <2>3, <3>1, <3>2
  <2>4. QED
    BY <2>2, <2>3
<1>16. QueueTypes'
  BY <1>1, <1>2, <1>8, <1>12 DEF QueueInv, QueueTypes
<1>17. QED
  BY <1>7, <1>11, <1>15, <1>16 DEF QueueInv

\* The debouncer hands the queue over: each line is heard, or what was heard of it.
LEMMA DebouncerEndsInv ==
  ASSUME QueueInv, NEW thrower, DebouncerEnds(thrower)
  PROVE  QueueInv'
<1>1. /\ queue' = <<>> /\ UNCHANGED <<hooked, arrived, isNew, unread, given, delays>>
      /\ heardBy' = [w \in Waiter |->
           IF \E i \in DOMAIN waiting : waiting[i].who = w /\ i <= thrower
           THEN heardBy[w] \o queue ELSE heardBy[w]]
  BY DEF DebouncerEnds, storeVars
<1>2. /\ delays \in [none : Seq(Nat), two : Seq(Nat)] /\ delays.none \in Seq(Nat)
      /\ delays.two \in Seq(Nat) /\ arrived \in Nat /\ <<>> \in Seq(Nat) /\ Len(<<>>) = 0
  BY EmptySeq DEF QueueInv, QueueTypes
<1>3. ASSUME NEW w \in Waiter
      PROVE  heardBy'[w] \in {Lines[w], heardBy[w]}
  BY <1>1 DEF Lines
<1>4. ASSUME NEW w \in Waiter
      PROVE  heardBy'[w] \in Seq(Nat)
  BY <1>3, LineFacts
<1>5. heardBy' \in [Waiter -> Seq(Nat)]
  BY <1>1, <1>4
<1>6. ASSUME NEW w \in Waiter
      PROVE  /\ Lines'[w] = heardBy'[w]
             /\ Ordered(Lines'[w]) /\ \A i \in 1 .. Len(Lines'[w]) : Lines'[w][i] <= arrived
             /\ \A m \in Nat : Later(m, Lines[w]) => Later(m, Lines'[w])
  <2>1. Lines'[w] = heardBy'[w]
    <3>1. Lines'[w] = heardBy'[w] \o <<>>
      BY <1>1 DEF Lines
    <3>2. heardBy'[w] \o <<>> = heardBy'[w]
      BY <1>4, ConcatEmptySeq
    <3>3. QED
      BY <3>1, <3>2
  <2>2. /\ Lines[w] = heardBy[w] \o queue /\ Ordered(Lines[w])
        /\ \A i \in 1 .. Len(Lines[w]) : Lines[w][i] <= arrived
        /\ heardBy[w] \in Seq(Nat) /\ queue \in Seq(Nat) /\ Len(Lines[w]) \in Nat
    BY LineFacts, LenProperties
  <2>3. /\ Ordered(heardBy[w]) /\ \A i \in 1 .. Len(heardBy[w]) : heardBy[w][i] <= arrived
        /\ \A m \in Nat : Later(m, Lines[w]) => Later(m, heardBy[w])
    <3>1. /\ Len(heardBy[w]) \in Nat /\ Len(heardBy[w]) <= Len(Lines[w])
          /\ \A i \in 1 .. Len(heardBy[w]) : Lines[w][i] = heardBy[w][i]
          /\ Ordered(Lines[w]) => Ordered(heardBy[w])
          /\ \A m \in Nat : Later(m, Lines[w]) => Later(m, heardBy[w])
      BY <2>2, Prefixes
    <3>2. \A i \in 1 .. Len(heardBy[w]) : i \in 1 .. Len(Lines[w])
      BY <2>2, <3>1
    <3>3. QED
      BY <2>2, <3>1, <3>2
  <2>4. QED
    BY <1>3, <2>1, <2>2, <2>3
<1>7. NoneStranded' /\ ReturnedIsOld'
  BY <1>1 DEF QueueInv, NoneStranded, ReturnedIsOld
<1>8. LinesOrdered' /\ OnlyArrived'
  <2>1. \A i \in 1 .. Len(queue') : queue'[i] <= arrived'
    BY <1>1, <1>2
  <2>2. \A w \in Waiter : Ordered(Lines'[w]) /\ \A i \in 1 .. Len(Lines'[w]) : Lines'[w][i] <= arrived'
    BY <1>1, <1>6
  <2>3. QED
    BY <2>1, <2>2 DEF LinesOrdered, OnlyArrived
<1>9. ASSUME NEW held \in Seq(Nat), NEW b, TimersHold(held, b, arrived, Lines)
      PROVE  TimersHold(held, b, arrived, Lines')
  <2>1. \A i \in 1 .. Len(held) : held[i] \in Nat
    BY ElementOfSeq
  <2>2. QED
    BY <1>6, <1>9, <2>1 DEF TimersHold
<1>10. /\ TimersHold(delays'.none, FALSE, arrived', Lines')
       /\ TimersHold(delays'.two, TRUE, arrived', Lines')
  <2>1. TimersHold(delays.none, FALSE, arrived, Lines) /\ TimersHold(delays.two, TRUE, arrived, Lines)
    BY DEF QueueInv
  <2>2. TimersHold(delays.none, FALSE, arrived, Lines') /\ TimersHold(delays.two, TRUE, arrived, Lines')
    BY <1>2, <1>9, <2>1
  <2>3. QED
    BY <1>1, <2>2
<1>11. QueueTypes'
  BY <1>1, <1>2, <1>5 DEF QueueInv, QueueTypes
<1>12. QED
  BY <1>7, <1>8, <1>10, <1>11 DEF QueueInv

\* What is new, and how much is unread, is no matter of the queue.
LEMMA StoreInv ==
  ASSUME QueueInv, UNCHANGED <<arrived, delays, queue, debouncing, heardBy>>,
         isNew' \subseteq 1 .. arrived, given' \subseteq 1 .. arrived, ReturnedIsOld'
  PROVE  QueueInv'
<1>1. LinesOrdered' /\ OnlyArrived' /\ Lines' = Lines
  BY LinesKept
<1>2. NoneStranded'
  BY DEF QueueInv, NoneStranded
<1>3. QED
  BY <1>1, <1>2 DEF QueueInv, QueueTypes

LEMMA GetUnreadInv ==
  ASSUME QueueInv, NEW me, NEW notices, NEW useCount, GetUnreadMessages(me, notices, useCount)
  PROVE  QueueInv'
<1>1. /\ UNCHANGED <<arrived, delays, queue, debouncing, heardBy>>
      /\ isNew' = {} /\ given' = given \cup Returned(isNew, me, notices)
  BY DEF GetUnreadMessages
<1>2. Returned(isNew, me, notices) \subseteq isNew
  BY DEF Returned
<1>3. isNew' \subseteq 1 .. arrived /\ given' \subseteq 1 .. arrived
  BY <1>1, <1>2 DEF QueueInv, QueueTypes
<1>4. ReturnedIsOld'
  BY <1>1 DEF ReturnedIsOld
<1>5. QED
  BY <1>1, <1>3, <1>4, StoreInv

LEMMA PageReloadsInv ==
  ASSUME QueueInv, PageReloads
  PROVE  QueueInv'
<1>1. /\ queue' = <<>> /\ isNew' = {} /\ delays' = NoDelays
      /\ UNCHANGED <<arrived, unread, given, heardBy>>
  BY DEF PageReloads
<1>2. delays'.none = <<>> /\ delays'.two = <<>> /\ delays' \in [none : Seq(Nat), two : Seq(Nat)]
  BY <1>1, EmptySeq DEF NoDelays
<1>3. <<>> \in Seq(Nat) /\ Len(<<>>) = 0
  BY EmptySeq
<1>4. ASSUME NEW w \in Waiter
      PROVE  Ordered(Lines'[w]) /\ \A i \in 1 .. Len(Lines'[w]) : Lines'[w][i] <= arrived
  <2>1. /\ Lines[w] = heardBy[w] \o queue /\ Ordered(Lines[w])
        /\ \A i \in 1 .. Len(Lines[w]) : Lines[w][i] <= arrived
        /\ heardBy[w] \in Seq(Nat) /\ queue \in Seq(Nat) /\ Len(Lines[w]) \in Nat
    BY LineFacts, LenProperties
  <2>2. Lines'[w] = heardBy[w]
    <3>1. Lines'[w] = heardBy[w] \o <<>>
      BY <1>1 DEF Lines
    <3>2. QED
      BY <2>1, <3>1, ConcatEmptySeq
  <2>3. /\ Len(heardBy[w]) \in Nat /\ Len(heardBy[w]) <= Len(Lines[w])
        /\ \A i \in 1 .. Len(heardBy[w]) : Lines[w][i] = heardBy[w][i]
        /\ Ordered(heardBy[w])
    BY <2>1, Prefixes
  <2>4. \A i \in 1 .. Len(heardBy[w]) : i \in 1 .. Len(Lines[w])
    BY <2>1, <2>3
  <2>5. QED
    BY <2>1, <2>2, <2>3, <2>4
<1>5. LinesOrdered' /\ OnlyArrived'
  BY <1>1, <1>3, <1>4 DEF LinesOrdered, OnlyArrived
<1>6. /\ TimersHold(delays'.none, FALSE, arrived', Lines')
      /\ TimersHold(delays'.two, TRUE, arrived', Lines')
  BY <1>2, <1>3 DEF TimersHold
<1>7. QueueTypes' /\ NoneStranded' /\ ReturnedIsOld'
  BY <1>1, <1>2, <1>3 DEF QueueInv, QueueTypes, NoneStranded, ReturnedIsOld
<1>8. QED
  BY <1>5, <1>6, <1>7 DEF QueueInv

LEMMA QueueInvStep == QueueInv /\ [QueueNext]_queueVars => QueueInv'
<1> SUFFICES ASSUME QueueInv, [QueueNext]_queueVars PROVE QueueInv'
  OBVIOUS
<1>1. ASSUME UNCHANGED <<arrived, isNew, given, delays, queue, debouncing, heardBy>>
      PROVE  QueueInv'
  BY <1>1, StoreInv DEF QueueInv, QueueTypes, ReturnedIsOld
<1>2. CASE Hook
  BY <1>1, <1>2 DEF Hook, storeVars
<1>3. CASE MessageAdded
  BY <1>3, MessageAddedInv
<1>4. ASSUME NEW d \in {"none", "two"}, DelayEnds(d) PROVE QueueInv'
  BY <1>4, DelayEndsInv
<1>5. ASSUME NEW w \in Waiter, NEW once \in BOOLEAN, WaitNewMessages(w, once) PROVE QueueInv'
  BY <1>1, <1>5 DEF WaitNewMessages, storeVars
<1>6. CASE Flush
  BY <1>6, DebouncerEndsInv DEF Flush
<1>7. ASSUME NEW me \in BOOLEAN, NEW notices \in BOOLEAN, NEW useCount \in BOOLEAN,
             GetUnreadMessages(me, notices, useCount)
      PROVE  QueueInv'
  BY <1>7, GetUnreadInv
<1>8. ASSUME NEW me \in BOOLEAN, NEW notices \in BOOLEAN, GetUnreadInChat(me, notices)
      PROVE  QueueInv'
  BY <1>8, GetUnreadInv DEF GetUnreadInChat
<1>9. ASSUME NEW count \in {0, -1}, ReadOnPhone(count) PROVE QueueInv'
  BY <1>1, <1>9 DEF ReadOnPhone
<1>10. CASE PageReloads
  BY <1>10, PageReloadsInv
<1>11. CASE UNCHANGED queueVars
  BY <1>1, <1>11 DEF queueVars, storeVars
<1>12. QED
  BY <1>2, <1>3, <1>4, <1>5, <1>6, <1>7, <1>8, <1>9, <1>10, <1>11 DEF QueueNext

LEMMA QueueInvImplies == QueueInv => QueueIsSound
<1> SUFFICES ASSUME QueueInv PROVE HandedOverOnce
  BY DEF QueueIsSound, QueueInv
<1>1. ASSUME NEW w \in Waiter
      PROVE  Ordered(heardBy[w]) /\ DOMAIN heardBy[w] = 1 .. Len(heardBy[w])
  <2>1. /\ heardBy[w] \in Seq(Nat) /\ queue \in Seq(Nat)
        /\ Lines[w] = heardBy[w] \o queue /\ Ordered(Lines[w])
    BY LineFacts
  <2>2. Ordered(heardBy[w])
    BY <2>1, Prefixes
  <2>3. QED
    BY <2>1, <2>2, LenProperties
<1>2. QED
  BY <1>1 DEF HandedOverOnce, Ordered

\* Whatever batches fail, callers come late and pages reload: nobody is handed a message
\* twice or out of order, and nothing is left in the queue without a timer
\* (lib/wapi/listeners/init-listeners.js, functions/get-unread-messages.js).
THEOREM QueueSound == QueueSpec => []QueueIsSound
BY QueueInvImplies, QueueInvInit, QueueInvStep, PTL DEF QueueSpec

-----------------------------------------------------------------------------
(* The dashboard.  Its numbers add up because rows are finitely many and each *)
(* has one status, one direction and one age.                                *)

DashboardInv ==
  /\ ownerOf \in [Holding -> Owner \cup {Unowned}] /\ rowState \in [Holding -> RowStatus]
  /\ IsFiniteSet(mails)
  /\ mails \subseteq [session : Holding, sender : Person, fromMe : BOOLEAN, age : Int, id : Nat]
  /\ listed \subseteq [session : Holding, person : Person]
  /\ opened \subseteq [session : Holding, chat : Person]

LEMMA DashboardInvInit == DashboardInit => DashboardInv
BY FS_EmptySet DEF DashboardInit, DashboardInv, RowStatus

\* One more message.
LEMMA OneMoreMail ==
  ASSUME DashboardInv, NEW n \in Holding, NEW who \in Person, NEW mine \in BOOLEAN, NEW age \in Int
  PROVE  /\ IsFiniteSet(mails \cup {MessageRow(n, who, mine, age)})
         /\ MessageRow(n, who, mine, age) \in
              [session : Holding, sender : Person, fromMe : BOOLEAN, age : Int, id : Nat]
<1>1. IsFiniteSet(mails) /\ Cardinality(mails) \in Nat
  BY FS_CardinalityType DEF DashboardInv
<1>2. MessageRow(n, who, mine, age) \in
        [session : Holding, sender : Person, fromMe : BOOLEAN, age : Int, id : Nat]
  BY <1>1 DEF MessageRow
<1>3. QED
  BY <1>1, <1>2, FS_AddElement

LEMMA DashboardInvStep == DashboardInv /\ [DashboardNext]_dashboardVars => DashboardInv'
<1> SUFFICES ASSUME DashboardInv, [DashboardNext]_dashboardVars PROVE DashboardInv'
  OBVIOUS
<1>1. ASSUME NEW n \in Holding, NEW o \in Owner \cup {Unowned}, SetOwner(n, o) PROVE DashboardInv'
  BY <1>1 DEF SetOwner, DashboardInv
<1>2. ASSUME NEW n \in Holding, NEW s \in RowStatus, StatusChanges(n, s) PROVE DashboardInv'
  BY <1>2 DEF StatusChanges, DashboardInv
<1>3. ASSUME NEW n \in Holding, NEW who \in Person, MailReceived(n, who) PROVE DashboardInv'
  <2> DEFINE row == MessageRow(n, who, FALSE, Seconds)
  <2>1. IsFiniteSet(mails \cup {row}) /\ row \in
          [session : Holding, sender : Person, fromMe : BOOLEAN, age : Int, id : Nat]
    <3>1. {TRUE, FALSE} \subseteq BOOLEAN /\ {Seconds, 0} \subseteq Int
      BY DEF Seconds
    <3>2. QED
      BY <3>1, OneMoreMail
  <2>2. /\ mails' = mails \cup {row} /\ listed' = listed \cup {[session |-> n, person |-> who]}
        /\ opened' = opened \cup {[session |-> n, chat |-> who]} /\ UNCHANGED <<ownerOf, rowState>>
    BY <1>3 DEF MailReceived
  <2> HIDE DEF row
  <2>3. QED
    BY <2>1, <2>2 DEF DashboardInv
<1>4. ASSUME NEW n \in Holding, NEW host \in Person, NEW age \in {Seconds, 0}, MailSent(n, host, age)
      PROVE  DashboardInv'
  <2> DEFINE row == MessageRow(n, host, TRUE, age)
  <2>1. IsFiniteSet(mails \cup {row}) /\ row \in
          [session : Holding, sender : Person, fromMe : BOOLEAN, age : Int, id : Nat]
    <3>1. {TRUE, FALSE} \subseteq BOOLEAN /\ {Seconds, 0} \subseteq Int
      BY DEF Seconds
    <3>2. QED
      BY <3>1, OneMoreMail
  <2>2. mails' = mails \cup {row} /\ UNCHANGED <<ownerOf, rowState, listed, opened>>
    BY <1>4 DEF MailSent
  <2> HIDE DEF row
  <2>3. QED
    BY <2>1, <2>2 DEF DashboardInv
<1>5. CASE TimePasses
  <2> DEFINE Older(m) == [m EXCEPT !.age = Aged(@)]
             f == [m \in mails |-> Older(m)]
  <2>1. mails' = {Older(m) : m \in mails} /\ UNCHANGED <<ownerOf, rowState, listed, opened>>
    BY <1>5 DEF TimePasses
  <2>2. f \in Surjection(mails, mails')
    BY <2>1 DEF Surjection
  <2>3. IsFiniteSet(mails')
    BY <2>2, FS_Surjection DEF DashboardInv
  <2>4. ASSUME NEW m \in mails
        PROVE  Older(m) \in
                 [session : Holding, sender : Person, fromMe : BOOLEAN, age : Int, id : Nat]
    BY DEF DashboardInv, Aged
  <2>5. QED
    BY <2>1, <2>3, <2>4 DEF DashboardInv
<1>6. CASE UNCHANGED dashboardVars
  BY <1>6 DEF dashboardVars, DashboardInv
<1>7. QED
  BY <1>1, <1>2, <1>3, <1>4, <1>5, <1>6 DEF DashboardNext

Splits(S, A, B) == A \cup B = S /\ A \cap B = {}

\* A total that is split in two.
LEMMA SplitTotal ==
  ASSUME NEW S, IsFiniteSet(S), NEW A, NEW B, Splits(S, A, B)
  PROVE  /\ Cardinality(S) = Cardinality(A) + Cardinality(B)
         /\ Cardinality(A) \in Nat /\ Cardinality(B) \in Nat /\ IsFiniteSet(A) /\ IsFiniteSet(B)
<1> USE DEF Splits
<1>1. IsFiniteSet(A) /\ IsFiniteSet(B)
  <2>1. A \in SUBSET S /\ B \in SUBSET S
    OBVIOUS
  <2>2. QED
    BY <2>1, FS_Subset
<1>2. Cardinality(A) \in Nat /\ Cardinality(B) \in Nat
  BY <1>1, FS_CardinalityType
<1>3. Cardinality(A \cup B) = Cardinality(A) + Cardinality(B) - Cardinality(A \cap B)
  BY <1>1, FS_Union
<1>4. Cardinality(A \cup B) = Cardinality(S) /\ Cardinality(A \cap B) = 0
  BY FS_EmptySet
<1>5. QED
  BY <1>1, <1>2, <1>3, <1>4

WithStatus(S, f, statuses) == {n \in S : f[n] \in statuses}

AgedOn(S, d) == {m \in S : m.age = d}
AgedFrom(S, d) == {m \in S : m.age \in d .. 7}
Sent(S) == {m \in S : m.fromMe}
Received(S) == {m \in S : ~m.fromMe}

\* The sessions by status.
LEMMA OneStatusOff ==
  ASSUME NEW S, NEW f, NEW T, NEW R, NEW s, Splits(T, {s}, R), IsFiniteSet(WithStatus(S, f, T))
  PROVE  /\ Cardinality(WithStatus(S, f, T))
              = Cardinality(WithStatus(S, f, {s})) + Cardinality(WithStatus(S, f, R))
         /\ Cardinality(WithStatus(S, f, {s})) \in Nat
         /\ Cardinality(WithStatus(S, f, R)) \in Nat
         /\ IsFiniteSet(WithStatus(S, f, R))
<1>1. Splits(WithStatus(S, f, T), WithStatus(S, f, {s}), WithStatus(S, f, R))
  BY DEF Splits, WithStatus
<1>2. QED
  BY <1>1, SplitTotal

LEMMA StatusesSplit ==
  ASSUME NEW S, IsFiniteSet(S), NEW f, \A n \in S : f[n] \in RowStatus
  PROVE  Cardinality(WithStatus(S, f, {"connected"})) + Cardinality(WithStatus(S, f, {"disconnected"}))
           + Cardinality(WithStatus(S, f, {"connecting"})) + Cardinality(WithStatus(S, f, {"qr_code"}))
           + Cardinality(WithStatus(S, f, {"error"})) = Cardinality(S)
<1> DEFINE five == {"connected", "disconnected", "connecting", "qr_code", "error"}
           four == {"disconnected", "connecting", "qr_code", "error"}
           three == {"connecting", "qr_code", "error"}
           two == {"qr_code", "error"}
           one == {"error"}
<1>1. WithStatus(S, f, five) = S
  BY DEF WithStatus, RowStatus
<1>2. IsFiniteSet(WithStatus(S, f, five))
  BY <1>1
<1>3. /\ Splits(five, {"connected"}, four) /\ Splits(four, {"disconnected"}, three)
      /\ Splits(three, {"connecting"}, two) /\ Splits(two, {"qr_code"}, one)
  BY DEF Splits
<1> HIDE DEF five, four, three, two, one
<1>4. /\ Cardinality(WithStatus(S, f, five))
           = Cardinality(WithStatus(S, f, {"connected"})) + Cardinality(WithStatus(S, f, four))
      /\ Cardinality(WithStatus(S, f, {"connected"})) \in Nat
      /\ Cardinality(WithStatus(S, f, four)) \in Nat
      /\ IsFiniteSet(WithStatus(S, f, four))
  BY <1>2, <1>3, OneStatusOff
<1>5. /\ Cardinality(WithStatus(S, f, four))
           = Cardinality(WithStatus(S, f, {"disconnected"})) + Cardinality(WithStatus(S, f, three))
      /\ Cardinality(WithStatus(S, f, {"disconnected"})) \in Nat
      /\ Cardinality(WithStatus(S, f, three)) \in Nat /\ IsFiniteSet(WithStatus(S, f, three))
  BY <1>3, <1>4, OneStatusOff
<1>6. /\ Cardinality(WithStatus(S, f, three))
           = Cardinality(WithStatus(S, f, {"connecting"})) + Cardinality(WithStatus(S, f, two))
      /\ Cardinality(WithStatus(S, f, {"connecting"})) \in Nat
      /\ Cardinality(WithStatus(S, f, two)) \in Nat /\ IsFiniteSet(WithStatus(S, f, two))
  BY <1>3, <1>5, OneStatusOff
<1>7. /\ Cardinality(WithStatus(S, f, two))
           = Cardinality(WithStatus(S, f, {"qr_code"})) + Cardinality(WithStatus(S, f, one))
      /\ Cardinality(WithStatus(S, f, {"qr_code"})) \in Nat
      /\ Cardinality(WithStatus(S, f, one)) \in Nat /\ IsFiniteSet(WithStatus(S, f, one))
  BY <1>3, <1>6, OneStatusOff
<1>8. QED
  BY <1>1, <1>4, <1>5, <1>6, <1>7 DEF one

LEMMA DirectionsSplit ==
  ASSUME NEW S, IsFiniteSet(S), \A m \in S : m.fromMe \in BOOLEAN
  PROVE  /\ Cardinality(S) = Cardinality(Sent(S)) + Cardinality(Received(S))
         /\ Cardinality(S) \in Nat
<1>1. Splits(S, Sent(S), Received(S))
  BY DEF Splits, Sent, Received
<1>2. QED
  BY <1>1, SplitTotal, FS_CardinalityType

\* The messages of one day, and the later ones.
LEMMA OneDayOff ==
  ASSUME NEW S, \A m \in S : m.fromMe \in BOOLEAN, NEW d \in 0 .. 7, IsFiniteSet(AgedFrom(S, d))
  PROVE  LET n == Cardinality(Sent(AgedOn(S, d))) + Cardinality(Received(AgedOn(S, d))) IN
         /\ Cardinality(AgedFrom(S, d)) = n + Cardinality(AgedFrom(S, d + 1))
         /\ n \in Nat /\ Cardinality(AgedFrom(S, d + 1)) \in Nat /\ IsFiniteSet(AgedFrom(S, d + 1))
<1>1. Splits(AgedFrom(S, d), AgedOn(S, d), AgedFrom(S, d + 1))
  BY DEF Splits, AgedOn, AgedFrom
<1>2. /\ Cardinality(AgedFrom(S, d)) = Cardinality(AgedOn(S, d)) + Cardinality(AgedFrom(S, d + 1))
      /\ IsFiniteSet(AgedOn(S, d)) /\ IsFiniteSet(AgedFrom(S, d + 1))
      /\ Cardinality(AgedFrom(S, d + 1)) \in Nat
  BY <1>1, SplitTotal
<1>3. \A m \in AgedOn(S, d) : m.fromMe \in BOOLEAN
  BY DEF AgedOn
<1>4. /\ Cardinality(AgedOn(S, d))
           = Cardinality(Sent(AgedOn(S, d))) + Cardinality(Received(AgedOn(S, d)))
      /\ Cardinality(AgedOn(S, d)) \in Nat
  BY <1>2, <1>3, DirectionsSplit
<1>5. QED
  BY <1>2, <1>4

\* The messages of a week by day and direction.
LEMMA DaysSplit ==
  ASSUME NEW S, IsFiniteSet(S), \A m \in S : m.age \in 0 .. 7 /\ m.fromMe \in BOOLEAN
  PROVE  LET Day(d) == Cardinality(Sent(AgedOn(S, d))) + Cardinality(Received(AgedOn(S, d))) IN
         Cardinality(S) = Day(0) + Day(1) + Day(2) + Day(3) + Day(4) + Day(5) + Day(6) + Day(7)
<1> DEFINE n == [d \in 0 .. 7 |-> Cardinality(Sent(AgedOn(S, d))) + Cardinality(Received(AgedOn(S, d)))]
           from == [d \in 0 .. 8 |-> Cardinality(AgedFrom(S, d))]
<1>1. ASSUME NEW d \in 0 .. 7, IsFiniteSet(AgedFrom(S, d))
      PROVE  /\ from[d] = n[d] + from[d + 1] /\ n[d] \in Nat /\ from[d + 1] \in Nat
             /\ IsFiniteSet(AgedFrom(S, d + 1))
  BY <1>1, OneDayOff
<1>2. AgedFrom(S, 0) = S /\ AgedFrom(S, 8) = {}
  BY DEF AgedFrom
<1>3. from[0] = Cardinality(S) /\ from[8] = 0
  BY <1>2, FS_EmptySet
<1>4. \A d \in {0, 1, 2, 3, 4, 5, 6, 7} :
        n[d] = Cardinality(Sent(AgedOn(S, d))) + Cardinality(Received(AgedOn(S, d)))
  OBVIOUS
<1> HIDE DEF n, from
<1>5. from[0] = n[0] + from[1] /\ n[0] \in Nat /\ from[1] \in Nat /\ IsFiniteSet(AgedFrom(S, 1))
  BY <1>1, <1>2
<1>6. from[1] = n[1] + from[2] /\ n[1] \in Nat /\ from[2] \in Nat /\ IsFiniteSet(AgedFrom(S, 2))
  BY <1>1, <1>5
<1>7. from[2] = n[2] + from[3] /\ n[2] \in Nat /\ from[3] \in Nat /\ IsFiniteSet(AgedFrom(S, 3))
  BY <1>1, <1>6
<1>8. from[3] = n[3] + from[4] /\ n[3] \in Nat /\ from[4] \in Nat /\ IsFiniteSet(AgedFrom(S, 4))
  BY <1>1, <1>7
<1>9. from[4] = n[4] + from[5] /\ n[4] \in Nat /\ from[5] \in Nat /\ IsFiniteSet(AgedFrom(S, 5))
  BY <1>1, <1>8
<1>10. from[5] = n[5] + from[6] /\ n[5] \in Nat /\ from[6] \in Nat /\ IsFiniteSet(AgedFrom(S, 6))
  BY <1>1, <1>9
<1>11. from[6] = n[6] + from[7] /\ n[6] \in Nat /\ from[7] \in Nat /\ IsFiniteSet(AgedFrom(S, 7))
  BY <1>1, <1>10
<1>12. from[7] = n[7] + from[8] /\ n[7] \in Nat
  BY <1>1, <1>11
<1>13. Cardinality(S) = n[0] + n[1] + n[2] + n[3] + n[4] + n[5] + n[6] + n[7]
  BY <1>3, <1>5, <1>6, <1>7, <1>8, <1>9, <1>10, <1>11, <1>12
<1>14. QED
  BY <1>4, <1>13

\* No message and no session is counted twice, or not at all, whatever rows there are
\* (services/analytics.service.ts).
THEOREM DashboardTotals == DashboardSpec => []DashboardAddsUp
<1>1. DashboardInv => DashboardAddsUp
  <2> SUFFICES ASSUME DashboardInv, NEW o \in Owner
               PROVE  LET stats == SessionStats(o)
                          Day(d) == MessageTrends(o, 7)[d][TRUE] + MessageTrends(o, 7)[d][FALSE] IN
                      /\ MessageStats(o).sent + MessageStats(o).received = Overview(o).messages
                      /\ stats["connected"] + stats["disconnected"] + stats["connecting"]
                           + stats["qr_code"] + stats["error"] = Overview(o).sessions
                      /\ stats["connected"] = TenantStats(o).active
                      /\ MessageStats(o).week = Day(0) + Day(1) + Day(2) + Day(3) + Day(4) + Day(5)
                                                + Day(6) + Day(7)
    BY DEF DashboardAddsUp
  <2>1. IsFiniteSet(Messages(o)) /\ IsFiniteSet(Since(o, 7)) /\ IsFiniteSet(Sessions(o))
    <3>1. Messages(o) \in SUBSET mails /\ Since(o, 7) \in SUBSET mails /\ Sessions(o) \in SUBSET Holding
      BY DEF Messages, Since, Sessions
    <3>2. QED
      BY <3>1, FS_Subset, DashboardAssumption DEF DashboardInv
  <2>2. /\ \A m \in Messages(o) : m.fromMe \in BOOLEAN
        /\ \A m \in Since(o, 7) : m.age \in 0 .. 7 /\ m.fromMe \in BOOLEAN
        /\ \A n \in Sessions(o) : rowState[n] \in RowStatus
    BY DEF Messages, Since, Sessions, DashboardInv
  <2>3. MessageStats(o).sent + MessageStats(o).received = Overview(o).messages
    <3>1. /\ MessageStats(o).sent = Cardinality(Sent(Messages(o)))
          /\ MessageStats(o).received = Cardinality(Received(Messages(o)))
          /\ Overview(o).messages = Cardinality(Messages(o))
      BY DEF MessageStats, Overview, Sent, Received
    <3>2. QED
      BY <2>1, <2>2, <3>1, DirectionsSplit
  <2>4. SessionStats(o)["connected"] = TenantStats(o).active
    BY DEF SessionStats, TenantStats, RowStatus
  <2>5. SessionStats(o)["connected"] + SessionStats(o)["disconnected"]
          + SessionStats(o)["connecting"] + SessionStats(o)["qr_code"] + SessionStats(o)["error"]
          = Overview(o).sessions
    <3>1. \A s \in RowStatus :
            SessionStats(o)[s] = Cardinality(WithStatus(Sessions(o), rowState, {s}))
      <4>1. \A s : {n \in Sessions(o) : rowState[n] = s} = WithStatus(Sessions(o), rowState, {s})
        BY DEF WithStatus
      <4>2. QED
        BY <4>1 DEF SessionStats
    <3>2. Overview(o).sessions = Cardinality(Sessions(o))
      BY DEF Overview
    <3>3. {"connected", "disconnected", "connecting", "qr_code", "error"} \subseteq RowStatus
      BY DEF RowStatus
    <3>4. QED
      BY <2>1, <2>2, <3>1, <3>2, <3>3, StatusesSplit
  <2>6. LET Day(d) == MessageTrends(o, 7)[d][TRUE] + MessageTrends(o, 7)[d][FALSE] IN
        MessageStats(o).week = Day(0) + Day(1) + Day(2) + Day(3) + Day(4) + Day(5) + Day(6) + Day(7)
    <3>1. \A d \in 0 .. 7, b \in BOOLEAN :
            MessageTrends(o, 7)[d][b] = Cardinality({m \in Since(o, 7) : m.age = d /\ m.fromMe = b})
      BY DEF MessageTrends
    <3> DEFINE On(d) == AgedOn(Since(o, 7), d)
    <3>4. \A d : /\ {m \in Since(o, 7) : m.age = d /\ m.fromMe = TRUE} = Sent(On(d))
                /\ {m \in Since(o, 7) : m.age = d /\ m.fromMe = FALSE} = Received(On(d))
      BY <2>2 DEF AgedOn, Sent, Received
    <3>5. \A d \in 0 .. 7 : /\ MessageTrends(o, 7)[d][TRUE] = Cardinality(Sent(On(d)))
                           /\ MessageTrends(o, 7)[d][FALSE] = Cardinality(Received(On(d)))
      BY <3>1, <3>4
    <3>2. MessageStats(o).week = Cardinality(Since(o, 7))
      BY DEF MessageStats
    <3>3. {0, 1, 2, 3, 4, 5, 6, 7} \subseteq 0 .. 7
      OBVIOUS
    <3>6. QED
      BY <2>1, <2>2, <3>2, <3>3, <3>5, DaysSplit
  <2>7. QED
    BY <2>3, <2>4, <2>5, <2>6
<1>2. QED
  BY <1>1, DashboardInvInit, DashboardInvStep, PTL DEF DashboardSpec

\* What happens to the sessions of other tenants changes no number of a tenant.
THEOREM OthersUncounted == DashboardSpec => OthersDoNotCount
<1>1. DashboardInv /\ DashboardInv' =>
        [\A o \in Owner :
           (/\ \A n \in Holding :
                 ownerOf[n] = o \/ ownerOf'[n] = o => UNCHANGED <<ownerOf[n], rowState[n]>>
            /\ {m \in mails' : ownerOf'[m.session] = o} = {m \in mails : ownerOf[m.session] = o}
            /\ {c \in listed' : ownerOf'[c.session] = o} = {c \in listed : ownerOf[c.session] = o}
            /\ {c \in opened' : ownerOf'[c.session] = o} = {c \in opened : ownerOf[c.session] = o})
           => UNCHANGED <<Overview(o), MessageStats(o), SessionStats(o), HourlyActivity(o)>>
        ]_dashboardVars
  <2> SUFFICES ASSUME DashboardInv, DashboardInv', NEW o \in Owner,
                      \A n \in Holding :
                        ownerOf[n] = o \/ ownerOf'[n] = o => UNCHANGED <<ownerOf[n], rowState[n]>>,
                      {m \in mails' : ownerOf'[m.session] = o} = {m \in mails : ownerOf[m.session] = o},
                      {c \in listed' : ownerOf'[c.session] = o} = {c \in listed : ownerOf[c.session] = o},
                      {c \in opened' : ownerOf'[c.session] = o} = {c \in opened : ownerOf[c.session] = o}
               PROVE  UNCHANGED <<Overview(o), MessageStats(o), SessionStats(o), HourlyActivity(o)>>
    OBVIOUS
  <2>1. Sessions(o)' = Sessions(o) /\ \A n \in Sessions(o) : rowState'[n] = rowState[n]
    BY DEF Sessions
  <2>2. Messages(o)' = Messages(o)
    <3>1. Messages(o) = {m \in mails : ownerOf[m.session] = o}
      BY DEF Messages, Sessions, DashboardInv
    <3>2. Messages(o)' = {m \in mails' : ownerOf'[m.session] = o}
      BY DEF Messages, Sessions, DashboardInv
    <3>3. QED
      BY <3>1, <3>2
  <2>3. {c \in listed' : c.session \in Sessions(o)'} = {c \in listed : c.session \in Sessions(o)}
    <3>1. {c \in listed : c.session \in Sessions(o)} = {c \in listed : ownerOf[c.session] = o}
      BY DEF Sessions, DashboardInv
    <3>2. {c \in listed' : c.session \in Sessions(o)'} = {c \in listed' : ownerOf'[c.session] = o}
      BY DEF Sessions, DashboardInv
    <3>3. QED
      BY <3>1, <3>2
  <2>4. {c \in opened' : c.session \in Sessions(o)'} = {c \in opened : c.session \in Sessions(o)}
    <3>1. {c \in opened : c.session \in Sessions(o)} = {c \in opened : ownerOf[c.session] = o}
      BY DEF Sessions, DashboardInv
    <3>2. {c \in opened' : c.session \in Sessions(o)'} = {c \in opened' : ownerOf'[c.session] = o}
      BY DEF Sessions, DashboardInv
    <3>3. QED
      BY <3>1, <3>2
  <2>5. \A s : {n \in Sessions(o)' : rowState'[n] = s} = {n \in Sessions(o) : rowState[n] = s}
    BY <2>1
  <2>6. \A d : Since(o, d)' = Since(o, d)
    BY <2>2 DEF Since
  <2>7. Overview(o)' = Overview(o)
    BY <2>1, <2>2, <2>3, <2>4, <2>5 DEF Overview
  <2>8. MessageStats(o)' = MessageStats(o)
    BY <2>2, <2>6 DEF MessageStats
  <2>9. SessionStats(o)' = SessionStats(o)
    BY <2>1, <2>5 DEF SessionStats
  <2>10. HourlyActivity(o)' = HourlyActivity(o)
    BY <2>6 DEF HourlyActivity
  <2>11. QED
    BY <2>7, <2>8, <2>9, <2>10
<1>2. QED
  BY <1>1, DashboardInvInit, DashboardInvStep, PTL DEF DashboardSpec, OthersDoNotCount
=============================================================================
