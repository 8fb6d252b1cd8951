----------------------------- MODULE ServerData -----------------------------
(***************************************************************************)
(* The database file and its handle through the life of the server: the    *)
(* migrations run at every start (config/migrations.ts), the backups       *)
(* (services/backup.service.ts), the restore that closes the handle under  *)
(* the running process, and the ends of the process (server.ts).           *)
(*                                                                         *)
(* Migration 001 holds two ALTER TABLE, which cannot be repeated, and is   *)
(* no transaction.  A backup is a row of the table `backups` and a file;   *)
(* the copy holds the table as it was when it was taken.                   *)
(***************************************************************************)
EXTENDS Naturals

CONSTANTS
  Backup,      \* bound: the backups that are made, each once
  MaxCrashes   \* bound: crashes

ASSUME ServerDataAssumption == MaxCrashes \in Nat /\ "none" \notin Backup

VARIABLES
  phase,         \* "down", "exec1", "record1", "exec2", "record2", "up", "stopping"
  schema,        \* changes of migration 001: "old", "altered" or "new"; or the
                 \* database file is "broken"
  presence,      \* whether the tables of migration 002 exist
  recorded,      \* rows of the table `migrations`
  dbOpen,        \* whether the handle every module shares is open
  backupRunning, \* BackupService.isBackupRunning
  job,           \* the backup being made: its id, stage and options
  table,         \* rows of `backups`: status and the file file_path names
  files,         \* files of each backup
  whole,         \* backups that were copied to the end
  copied,        \* the table inside the copy
  made,          \* backups that were begun
  aged,          \* backups older than the retention
  crashes,
  cut,           \* history: backups in the making when the handle or process went
  torn,          \* history: backups whose file was deleted, but not the row
  stuck          \* history: the flag was set and the INSERT failed

dataVars == <<phase, schema, presence, recorded, dbOpen, backupRunning, job,
              table, files, whole, copied, made, aged, crashes, cut, torn, stuck>>
migrationVars == <<schema, presence, recorded>>
fileVars == <<files, whole, copied, made, aged>>

Absent == [status |-> "absent", file |-> "db"]
NoJob == [id |-> "none", stage |-> "none", compress |-> FALSE, scheduled |-> FALSE]

DataInit ==
  /\ phase = "down" /\ schema = "old" /\ presence = FALSE /\ recorded = {}
  /\ dbOpen = FALSE /\ backupRunning = FALSE /\ job = NoJob
  /\ table = [k \in Backup |-> Absent]
  /\ files = [k \in Backup |-> {}]
  /\ whole = {} /\ made = {} /\ aged = {}
  /\ copied = [k \in Backup |-> [j \in Backup |-> Absent]]
  /\ crashes = 0
  /\ cut = {} /\ torn = {} /\ stuck = FALSE

Up == phase \in {"up", "stopping"}

\* The process is gone, and with it the flag and the backup in the making.
ProcessEnds ==
  /\ phase' = "down" /\ dbOpen' = FALSE /\ backupRunning' = FALSE /\ stuck' = FALSE
  /\ job' = NoJob
  /\ cut' = IF job = NoJob THEN cut ELSE cut \cup {job.id}

-----------------------------------------------------------------------------
(* Start-up: runMigrations, synchronous; a crash may hit between any two    *)
(* statements.                                                              *)

Start ==
  /\ phase = "down" /\ schema # "broken"    \* or the process exits at once
  /\ phase' = IF 1 \notin recorded THEN "exec1" ELSE IF 2 \notin recorded THEN "exec2" ELSE "up"
  /\ dbOpen' = TRUE
  /\ UNCHANGED <<migrationVars, fileVars, backupRunning, job, table, crashes, cut, torn, stuck>>

\* Without a record the statements run again; "duplicate column name" makes
\* the process exit.
Migrate1 ==
  /\ phase = "exec1"
  /\ IF schema = "old"
       THEN /\ schema' = "new" /\ phase' = "record1"
            /\ UNCHANGED <<dbOpen, backupRunning, job, cut, stuck>>
       ELSE ProcessEnds /\ UNCHANGED schema
  /\ UNCHANGED <<presence, recorded, fileVars, table, crashes, torn>>

Record1 ==
  /\ phase = "record1"
  /\ recorded' = recorded \cup {1}
  /\ phase' = IF 2 \in recorded THEN "up" ELSE "exec2"
  /\ UNCHANGED <<schema, presence, fileVars, dbOpen, backupRunning, job, table, crashes, cut,
                 torn, stuck>>

\* Mutant: the statements of 002 are not repeatable either.
Migrate2Once ==
  /\ phase = "exec2" /\ ~presence
  /\ presence' = TRUE
  /\ phase' = "record2"
  /\ UNCHANGED <<schema, recorded, fileVars, dbOpen, backupRunning, job, table, crashes, cut,
                 torn, stuck>>

\* Only CREATE ... IF NOT EXISTS
Migrate2 ==
  /\ phase = "exec2"
  /\ presence' = TRUE
  /\ phase' = "record2"
  /\ UNCHANGED <<schema, recorded, fileVars, dbOpen, backupRunning, job, table, crashes, cut,
                 torn, stuck>>

Record2 ==
  /\ phase = "record2"
  /\ recorded' = recorded \cup {2}
  /\ phase' = "up"
  /\ UNCHANGED <<schema, presence, fileVars, dbOpen, backupRunning, job, table, crashes, cut,
                 torn, stuck>>

Crash ==
  /\ phase # "down" /\ crashes < MaxCrashes
  /\ crashes' = crashes + 1
  /\ ProcessEnds
  /\ schema' \in IF phase = "exec1" /\ schema = "old" THEN {"old", "altered"} ELSE {schema}
  /\ UNCHANGED <<presence, recorded, fileVars, table, torn>>

-----------------------------------------------------------------------------
(* Backups.                                                                 *)

\* createBackup up to the await of the copy, from the route or the interval.
\* The INSERT, which is outside the try, fails when the handle is closed or
\* the body names an unknown tenant.
CreateBackup(k, compress, scheduled, tenantKnown) ==
  /\ Up /\ ~backupRunning
  /\ k \notin made
  /\ made' = made \cup {k}
  /\ backupRunning' = TRUE
  /\ IF dbOpen /\ tenantKnown
       THEN /\ table' = [table EXCEPT ![k] = [status |-> "in_progress", file |-> "db"]]
            /\ files' = [files EXCEPT ![k] = {"db"}]
            /\ job' = [id |-> k, stage |-> "copying", compress |-> compress,
                       scheduled |-> scheduled]
            /\ UNCHANGED stuck
       ELSE stuck' = TRUE /\ UNCHANGED <<table, files, job>>
  /\ UNCHANGED <<phase, migrationVars, dbOpen, whole, copied, aged, crashes, cut, torn>>

\* The row gets its final status, unless the handle is closed; the flag is
\* reset in any case.
Settle(status) ==
  /\ backupRunning' = FALSE /\ stuck' = FALSE
  /\ job' = NoJob
  /\ cut' = IF dbOpen THEN cut ELSE cut \cup {job.id}

\* The table once backup k has the status, and the old backups are deleted
\* when `purge` holds.
Updated(k, status, file, purge) ==
  [j \in Backup |->
     IF purge /\ j \in aged THEN Absent
     ELSE IF j = k THEN [status |-> status, file |-> file]
     ELSE table[j]]

\* The files without those the deleted rows name.
Unlinked(f, purge) ==
  [j \in Backup |-> IF purge /\ j \in aged THEN f[j] \ {table[j].file} ELSE f[j]]

\* Neither compressed nor failed: the status is written, and the interval
\* goes on to delete old backups.
Completes(f) ==
  LET purge == dbOpen /\ job.scheduled IN
  /\ Settle("completed")
  /\ table' = IF dbOpen THEN Updated(job.id, "completed", "db", purge) ELSE table
  /\ files' = Unlinked(f, purge)
  /\ UNCHANGED aged

BackupFails(f, file) ==
  /\ Settle("failed")
  /\ table' = IF dbOpen THEN Updated(job.id, "failed", file, FALSE) ELSE table
  /\ files' = f
  /\ UNCHANGED aged

\* The copy ends; it can only succeed while the handle is open.
CopyEnds ==
  /\ job.stage = "copying"
  /\ \/ /\ dbOpen
        /\ whole' = whole \cup {job.id}
        /\ copied' = [copied EXCEPT ![job.id] = table]
        /\ IF job.compress
             THEN /\ job' = [job EXCEPT !.stage = "compressing"]
                  /\ UNCHANGED <<table, files, aged, backupRunning, cut, stuck>>
             ELSE Completes(files)
     \/ /\ \E left \in {{}, {"db"}} : BackupFails([files EXCEPT ![job.id] = left], "db")
        /\ UNCHANGED <<whole, copied>>
  /\ UNCHANGED <<phase, migrationVars, dbOpen, made, crashes, torn>>

\* Mutant: the size is not asked for, and the new path is not written.
CompressEndsUnrenamed ==
  /\ job.stage = "compressing"
  /\ Completes([files EXCEPT ![job.id] = {"gz"}])
  /\ UNCHANGED <<phase, migrationVars, dbOpen, whole, copied, made, crashes, torn>>

\* gzip ends.  Without an error the original is unlinked, and the size of the
\* original, which is asked for next, is not to be had: the backup fails.
\* With an error it goes on with the original.
CompressEnds ==
  /\ job.stage = "compressing"
  /\ \/ BackupFails([files EXCEPT ![job.id] = {"gz"}], "gz")
     \/ \E left \in {{"db"}, {"db", "gz"}} : Completes([files EXCEPT ![job.id] = left])
  /\ UNCHANGED <<phase, migrationVars, dbOpen, whole, copied, made, crashes, torn>>

\* Days pass for a backup that is not in the making.
Age(k) ==
  /\ table[k] # Absent /\ job.id # k /\ k \notin aged
  /\ aged' = aged \cup {k}
  /\ UNCHANGED <<phase, migrationVars, dbOpen, backupRunning, job, table, files, whole, copied,
                 made, crashes, cut, torn, stuck>>

\* DELETE /backups/cleanup
Cleanup ==
  /\ Up /\ dbOpen /\ aged # {}
  /\ table' = [k \in Backup |-> IF k \in aged THEN Absent ELSE table[k]]
  /\ files' = Unlinked(files, TRUE)
  /\ aged' = {}
  /\ UNCHANGED <<phase, migrationVars, dbOpen, backupRunning, job, whole, copied, made,
                 crashes, cut,
                 torn, stuck>>

\* A crash between the deletion of a file and that of its row.
CrashInCleanup(k) ==
  /\ Up /\ dbOpen /\ k \in aged /\ crashes < MaxCrashes
  /\ crashes' = crashes + 1
  /\ files' = [files EXCEPT ![k] = @ \ {table[k].file}]
  /\ torn' = torn \cup {k}
  /\ ProcessEnds
  /\ UNCHANGED <<migrationVars, table, whole, copied, made, aged>>

\* restoreBackup: the handle is closed first, whatever comes after.  The safety
\* copy may fail; the copying may fail half way; the status of the backup is
\* not looked at, so a copy that is not whole may be restored.
Restore(k) ==
  /\ Up /\ dbOpen
  /\ table[k] # Absent /\ table[k].file \in files[k]
  /\ dbOpen' = FALSE
  /\ \/ UNCHANGED <<schema, table, cut, torn>>
     \/ schema' = "broken" /\ UNCHANGED <<table, cut, torn>>
     \/ /\ k \in whole
        /\ table' = copied[k]
        /\ torn' = {j \in Backup : table'[j].file \notin files[j]}
        /\ cut' = cut \cup {j \in Backup : table'[j].status = "in_progress"}
        /\ UNCHANGED schema
  /\ UNCHANGED <<phase, presence, recorded, fileVars, backupRunning, job, crashes, stuck>>

-----------------------------------------------------------------------------
\* SIGTERM, or an uncaught error: the sessions are closed first.
BeginShutdown ==
  /\ phase = "up"
  /\ phase' = "stopping"
  /\ UNCHANGED <<migrationVars, fileVars, dbOpen, backupRunning, job, table, crashes, cut,
                 torn, stuck>>

\* The end of gracefulShutdown, its time limit, or the SIGINT listener of
\* config/database.ts: the handle is closed under a running backup.
Exit ==
  /\ Up
  /\ ProcessEnds
  /\ UNCHANGED <<migrationVars, fileVars, table, crashes, torn>>

\* The steps of a start, and those of a backup under way.
StartSteps == Start \/ Migrate1 \/ Record1 \/ Migrate2 \/ Record2
BackupSteps == CopyEnds \/ CompressEnds

DataNext ==
  \/ StartSteps \/ BackupSteps \/ Crash
  \/ \E k \in Backup, tenantKnown \in BOOLEAN :
       \/ \E compress \in BOOLEAN : CreateBackup(k, compress, FALSE, tenantKnown)
       \/ CreateBackup(k, TRUE, TRUE, TRUE)
  \/ \E k \in Backup : Age(k) \/ CrashInCleanup(k) \/ Restore(k)
  \/ Cleanup \/ BeginShutdown \/ Exit

DataSpec == DataInit /\ [][DataNext]_dataVars

\* The server is started again, and copying and compressing end.
DataFairness ==
  /\ WF_dataVars(StartSteps)
  /\ WF_dataVars(BackupSteps)

-----------------------------------------------------------------------------
DataTypeOK ==
  /\ phase \in {"down", "exec1", "record1", "exec2", "record2", "up", "stopping"}
  /\ schema \in {"old", "altered", "new", "broken"}
  /\ presence \in BOOLEAN /\ dbOpen \in BOOLEAN /\ backupRunning \in BOOLEAN
  /\ recorded \subseteq {1, 2}
  /\ \/ job = NoJob
     \/ job \in [id : Backup, stage : {"copying", "compressing"},
                compress : BOOLEAN, scheduled : BOOLEAN]
  /\ table \in [Backup -> [status : {"absent", "in_progress", "completed", "failed"},
                          file : {"db", "gz"}]]
  /\ files \in [Backup -> SUBSET {"db", "gz"}]
  /\ aged \subseteq made /\ whole \subseteq made /\ made \subseteq Backup
  /\ crashes \in 0 .. MaxCrashes

\* A migration that is on record was carried out to its end, whenever the
\* process crashed: runMigrations records after executing.
RecordedIsApplied ==
  schema # "broken" =>
    /\ 1 \in recorded => schema = "new"
    /\ 2 \in recorded => presence

\* isBackupRunning belongs to a backup in the making, unless the INSERT before
\* the try failed: then no other backup is ever made by this process.
FlagHasOwner == backupRunning => job # NoJob \/ stuck

\* A row says "completed" only if its file is there and holds a whole copy,
\* whatever was compressed, deleted or restored since; but for a crash between
\* the two deletions, and rows a restore brings back.
CompletedIsRestorable ==
  \A k \in Backup :
    table[k].status = "completed" => k \in torn \/ (k \in whole /\ table[k].file \in files[k])

\* A row stays "in_progress" only if the process or the handle went away under
\* the backup; every other end of createBackup is written down.
InProgressHasOwner ==
  \A k \in Backup : table[k].status = "in_progress" => k \in cut \/ job.id = k

\* The server that is down comes up again, whenever it crashed or was stopped;
\* but for a crash inside migration 001, and a restore that failed half way.
ServerComesUp ==
  phase = "down" ~> \/ phase = "up"
                    \/ (schema \in {"altered", "new"} /\ 1 \notin recorded)
                    \/ schema = "broken"

\* A backup that runs ends and lets others run, unless its INSERT failed.
FlagClears == backupRunning ~> ~backupRunning \/ stuck

\* What "Backup completed successfully" promises of a backup whose copy and
\* compression went well (services/backup.service.ts).
CompressedAreCompleted ==
  \A k \in Backup : table[k].file = "gz" /\ k \in whole => table[k].status # "failed"

\* The tables migrations and backups, the schema and the files agree, over crashes,
\* restores and failing statements in any order.
DataIsSound ==
  /\ DataTypeOK
  /\ RecordedIsApplied
  /\ FlagHasOwner
  /\ CompletedIsRestorable
  /\ InProgressHasOwner
=============================================================================
