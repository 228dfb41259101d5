------------------------------ MODULE BackupJobs ------------------------------
(***************************************************************************)
(* The backups: processes that share a lease and one state row, the        *)
(* schedule that looks at the row, the archive that is built, uploaded and *)
(* followed by the rotation, and the recovery of a backup that a process   *)
(* did not live to finish.  One runner a process: a second one is refused  *)
(* by the lease as that of another process is.  What an archive holds, its *)
(* encryption and the signatures of requests are left out; restoring is    *)
(* the subject of RestoreMaintenance.                                      *)
(***************************************************************************)
EXTENDS Integers, Sequences, FiniteSets

CONSTANTS
  Processes,    \* those that run the application
  Nobody,
  Keep,         \* the archives the rotation leaves
  LeaseDies,    \* the lease is a lock of a connection and dies with its process
                \* (PostgreSQL), not a row that runs out (SQLite)
  MaxObjects,   \* bound on the archives there are at a time
  MaxFaults,    \* bound on failures of the bucket and the database
  MaxCrashes    \* bound on processes that die

ASSUME BackupAssumption ==
  Nobody \notin Processes /\ LeaseDies \in BOOLEAN /\ {Keep, MaxObjects} \subseteq Nat \ {0}

VARIABLES
  at,        \* what a process does about the backup
  running,   \* BackupService._running
  status,    \* last_status of the shared row
  reported,  \* last_object_key of the shared row, 0: none or one that an
             \* administrator deleted
  mine,      \* the archive a process uploaded, 0 as before
  doomed,    \* the archives it listed for deletion
  due,       \* the interval since last_finished_at has passed
  lease,     \* who owns the lease backup_execution:run
  bucket,    \* the archives, oldest first
  putOff,    \* the recovery at the start of a process found the lease taken
             \* and left the row alone
  lapsed,    \* a process lost its lease while it ran
  unsaved,   \* a write of the row failed
  faults, crashes

rowVars == <<status, reported, due>>
runVars == <<at, running, mine, doomed>>
faultVars == <<lapsed, unsaved, faults, crashes>>
backupAllVars == <<runVars, rowVars, lease, bucket, putOff, faultVars>>

BackupsInit ==
  /\ at = [p \in Processes |-> "idle"] /\ running = [p \in Processes |-> FALSE]
  /\ status = "idle" /\ reported = 0 /\ due \in BOOLEAN
  /\ mine = [p \in Processes |-> 0]
  /\ doomed = [p \in Processes |-> {}]
  /\ lease = Nobody /\ bucket = <<>> /\ putOff = [p \in Processes |-> FALSE]
  /\ lapsed = FALSE /\ unsaved = FALSE /\ faults = 0 /\ crashes = 0

\* The archives of a sequence, and of a function of processes.
Archives(f) == {f[i] : i \in DOMAIN f}
Goes(p, from, to) == at[p] = from /\ at' = [at EXCEPT ![p] = to]

IntervalPasses ==
  /\ ~due /\ due' = TRUE
  /\ UNCHANGED <<runVars, status, reported, lease, bucket, putOff, faultVars>>

\* The schedule looks at the row, without the lease.
RunScheduledBackupIfNeeded(p) ==
  /\ due /\ ~running[p] /\ status # "running"
  /\ Goes(p, "idle", "asked")
  /\ UNCHANGED <<running, mine, doomed, rowVars, lease, bucket, putOff, faultVars>>

\* An administrator asks for a backup now.
RunManualBackup(p) ==
  /\ Goes(p, "idle", "asked")
  /\ UNCHANGED <<running, mine, doomed, rowVars, lease, bucket, putOff, faultVars>>

Refused(p) ==
  /\ lease # Nobody \/ running[p]
  /\ Goes(p, "asked", "idle")
  /\ UNCHANGED <<running, mine, doomed, rowVars, lease, bucket, putOff, faultVars>>

\* run_backup with the lease in hand, up to the row that says so.
Begin(p) ==
  /\ lease = Nobody /\ ~running[p]
  /\ Goes(p, "asked", "build") /\ lease' = p
  /\ running' = [running EXCEPT ![p] = TRUE]
  /\ status' = "running"
  /\ UNCHANGED <<mine, doomed, reported, due, bucket, putOff, faultVars>>

\* The row cannot be written: the flag of the process is set already and
\* nothing resets it.
BeginUnsaved(p) ==
  /\ lease = Nobody /\ ~running[p] /\ faults < MaxFaults
  /\ Goes(p, "asked", "idle")
  /\ running' = [running EXCEPT ![p] = TRUE]
  /\ faults' = faults + 1 /\ unsaved' = TRUE
  /\ UNCHANGED <<mine, doomed, rowVars, lease, bucket, putOff, lapsed, crashes>>

\* A part of the archive cannot be had, or the bucket cannot be reached.
BuildFails(p) ==
  /\ faults < MaxFaults /\ faults' = faults + 1
  /\ at[p] \in {"build", "rotate"} /\ at' = [at EXCEPT ![p] = "failed"]
  /\ UNCHANGED <<running, mine, doomed, rowVars, lease, bucket, putOff,
                 lapsed, unsaved, crashes>>

Unused == (1..MaxObjects) \ (Archives(bucket) \cup {reported} \cup Archives(mine))

\* The archive arrives, though the answer to the upload may not.
Upload(p) ==
  /\ at[p] = "build" /\ Unused # {}
  /\ LET key == CHOOSE k \in Unused : \A other \in Unused : k <= other
     IN  /\ bucket' = Append(bucket, key)
         /\ mine' = [mine EXCEPT ![p] = key]
  /\ at' = [at EXCEPT ![p] = "list"]
  /\ UNCHANGED <<running, doomed, rowVars, lease, putOff, faultVars>>

\* Mutant: one archive more is outdated.
OutdatedByOne == {bucket[i] : i \in {j \in DOMAIN bucket : j <= Len(bucket) - Keep + 1}}

\* items[keep:] of a list that begins with the newest.
Outdated == {bucket[i] : i \in {j \in DOMAIN bucket : j <= Len(bucket) - Keep}}

\* delete_object: the archive is gone, if it was there.
Without(key) ==
  IF key \notin Archives(bucket) THEN bucket
  ELSE LET i == CHOOSE i \in DOMAIN bucket : bucket[i] = key
       IN  SubSeq(bucket, 1, i - 1) \o SubSeq(bucket, i + 1, Len(bucket))

ApplyRotation(p) ==
  /\ Goes(p, "list", "rotate")
  /\ doomed' = [doomed EXCEPT ![p] = Outdated]
  /\ UNCHANGED <<running, mine, rowVars, lease, bucket, putOff, faultVars>>

DeleteObject(p) ==
  /\ at[p] = "rotate"
  /\ \E key \in doomed[p] :
       /\ doomed' = [doomed EXCEPT ![p] = @ \ {key}]
       /\ bucket' = Without(key)
  /\ UNCHANGED <<at, running, mine, rowVars, lease, putOff, faultVars>>

\* The end is written, and counts for the schedule; failing (BuildFails), an
\* error is written instead, with the key that was there when the backup began
\* and still is unless the lease was lost; failing again (EndUnsaved), the row
\* stays as it is.
Finished(p, verdict, key) ==
  /\ status' = verdict /\ reported' = key /\ due' = FALSE
  /\ running' = [running EXCEPT ![p] = FALSE]
  /\ UNCHANGED <<lease, bucket, putOff, faultVars>>

RecordSuccess(p) ==
  /\ doomed[p] = {} /\ Goes(p, "rotate", "release")
  /\ Finished(p, "success", mine[p])
  /\ UNCHANGED <<mine, doomed>>

RecordError(p) ==
  /\ Goes(p, "failed", "release")
  /\ Finished(p, "error", reported)
  /\ UNCHANGED <<mine, doomed>>

EndUnsaved(p) ==
  /\ at[p] = "failed" /\ at' = [at EXCEPT ![p] = "release"]
  /\ faults > 0 /\ unsaved' = TRUE
  /\ running' = [running EXCEPT ![p] = FALSE]
  /\ UNCHANGED <<mine, doomed, rowVars, lease, bucket, putOff, lapsed, faults, crashes>>

Freed(p) ==
  /\ mine' = [mine EXCEPT ![p] = 0]
  /\ doomed' = [doomed EXCEPT ![p] = {}]

ReleaseLease(p) ==
  /\ Goes(p, "release", "idle")
  /\ lease' = IF lease = p THEN Nobody ELSE lease
  /\ Freed(p)
  /\ UNCHANGED <<running, rowVars, bucket, putOff, faultVars>>

\* A process dies.
ProcessDies(p) ==
  /\ at[p] # "down" /\ crashes < MaxCrashes /\ crashes' = crashes + 1
  /\ at' = [at EXCEPT ![p] = "down"] /\ running' = [running EXCEPT ![p] = FALSE]
  /\ Freed(p)
  /\ lease' = IF LeaseDies /\ lease = p THEN Nobody ELSE lease
  /\ UNCHANGED <<rowVars, bucket, putOff, lapsed, unsaved, faults>>

\* The lease runs out: its owner is dead, or an error ended its heartbeat.
LeaseRunsOut ==
  /\ lease # Nobody /\ lease' = Nobody
  /\ \/ at[lease] \in {"down", "idle", "asked"} /\ UNCHANGED <<lapsed, faults>>
     \/ /\ at[lease] \notin {"down", "idle", "asked"}
        /\ faults < MaxFaults /\ faults' = faults + 1 /\ lapsed' = TRUE
  /\ UNCHANGED <<runVars, rowVars, bucket, putOff, unsaved, crashes>>

\* _recover_interrupted_execution when a process starts, with the lease or not
\* at all.
RecoverInterruptedExecution(p) ==
  /\ Goes(p, "down", "idle")
  /\ putOff' = [putOff EXCEPT ![p] = lease # Nobody]
  /\ IF lease = Nobody /\ status = "running"
     THEN status' = "error" /\ due' = FALSE /\ UNCHANGED reported
     ELSE UNCHANGED rowVars
  /\ UNCHANGED <<running, mine, doomed, lease, bucket, faultVars>>

\* An administrator deletes an archive.
DeleteBackup ==
  /\ \E i \in DOMAIN bucket :
       LET Cleared(key) == IF key = bucket[i] THEN 0 ELSE key
       IN  /\ bucket' = Without(bucket[i])
           /\ reported' = Cleared(reported) /\ mine' = [p \in Processes |-> Cleared(mine[p])]
           /\ doomed' = [p \in Processes |-> doomed[p] \ {bucket[i]}]
  /\ UNCHANGED <<at, running, status, due, lease, putOff, faultVars>>

BackupStep(p) ==
  \/ RunScheduledBackupIfNeeded(p) \/ Refused(p) \/ Begin(p) \/ Upload(p) \/ ApplyRotation(p)
  \/ DeleteObject(p) \/ RecordSuccess(p) \/ RecordError(p) \/ ReleaseLease(p)
  \/ RecoverInterruptedExecution(p)

BackupsNext ==
  \/ IntervalPasses \/ LeaseRunsOut \/ DeleteBackup
  \/ \E p \in Processes :
       BackupStep(p) \/ RunManualBackup(p) \/ BeginUnsaved(p) \/ BuildFails(p) \/ EndUnsaved(p)
       \/ ProcessDies(p)

BackupsSpec == BackupsInit /\ [][BackupsNext]_backupAllVars

\* A live process goes on, and a dead one is started again.
BackupsFairSpec ==
  BackupsSpec /\ \A p \in Processes : WF_backupAllVars(BackupStep(p))

-----------------------------------------------------------------------------
BackupsTypeOK ==
  /\ at \in [Processes -> {"down", "idle", "asked", "build", "list", "rotate", "failed", "release"}]
  /\ running \in [Processes -> BOOLEAN] /\ putOff \in [Processes -> BOOLEAN]
  /\ status \in {"idle", "running", "success", "error"}
  /\ {reported} \cup Archives(mine) \subseteq 0..MaxObjects
  /\ (UNION {doomed[p] : p \in Processes}) \cup Archives(bucket) \subseteq 1..MaxObjects
  /\ lease \in Processes \cup {Nobody}

\* A backup that is reported as a success is in the bucket unless an
\* administrator deleted it: neither its own rotation nor the backup of another
\* process takes it away, as long as no lease was lost (run_backup).
ReportedBackupExists ==
  status = "success" /\ ~lapsed => reported \in Archives(bucket) \cup {0}

\* A process is in the middle of a backup.
Working(p) == at[p] \notin {"down", "idle", "asked"}

\* Two processes back up at once only after a lease was lost under its owner:
\* dead processes, late recoveries and manual backups do not bring it about
\* (the run_lock of run_backup).
OneBackupAtATime ==
  ~lapsed => \A p, q \in Processes : Working(p) /\ Working(q) => p = q

\* The schedule never stops for good: a backup that was cut off by the death of
\* its process does not keep the row running (_recover_interrupted_execution).
SchedulesGoOn == []<>(~due \/ unsaved \/ lapsed \/ faults > 0)

\* When the recovery of an interrupted backup is put off because the lease is
\* taken, another process runs a backup (_recover_interrupted_execution).
PutOffForAnother ==
  \A p \in Processes : putOff[p] =>
    \/ status # "running"
    \/ \E other \in Processes \ {p} : Working(other)
=============================================================================
