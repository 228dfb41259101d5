------------------------- MODULE RestoreMaintenance -------------------------
(***************************************************************************)
(* A backup is restored into the running process: the maintenance boundary *)
(* of api/app.py stops the background threads, the registration, the image *)
(* queue, the push and backup schedulers, services/backup_service.py       *)
(* replaces the two databases and the files, and on success everything is  *)
(* started again.  Requests are turned away while a restore is active, but those   *)
(* admitted before go on, and so does what they started.                   *)
(*                                                                         *)
(* One process; other replicas appear as refusals.  The image queue is     *)
(* running, draining or stopped here; its threads are WorkerLifecycle's.   *)
(* Starting a service again after an aborted restore does not fail.        *)
(***************************************************************************)
EXTENDS Naturals, FiniteSets

CONSTANTS
  Background,   \* the threads that only watch the stop event
  MaxRestores,  \* bound: restores in the life of the database
  MaxOpenClaims     \* bound: jobs in hand

ASSUME MaintenanceAssumption ==
  IsFiniteSet(Background) /\ MaxRestores \in Nat /\ MaxOpenClaims \in Nat \ {0}

VARIABLES
  restore,      \* what the restore does
  restoring,    \* BackupService._restore_active
  halted,       \* _BackupRestoreMaintenance._stopped
  stopSignal,   \* the stop event of the background threads
  background,   \* background threads alive
  registration, \* its runner: running, closing (told to stop) or stopped
  registering,  \* a registration is on its way
  enabled,      \* registration is switched on
  scheduler,    \* the auto scheduler: sleeping, looking or gone
  queue,        \* the worker of the image queue
  inHand,       \* claims
  push,         \* the gallery push service runs
  backups,      \* the backup scheduler thread runs
  backup,       \* a backup is being made
  revive,       \* what a failing maintenance has to start again
  dump,         \* history: queue database holds leases of a restored dump
  marker,       \* the marker file of a restored queue
  unmarked,     \* history: the process died between the dump and its marker
  restores

maintenanceVars ==
  <<restore, restoring, halted, stopSignal, background, registration, registering,
    enabled, scheduler, queue, inHand, push, backups, backup, revive,
    dump, marker, unmarked, restores>>

boundary == <<restore, restoring, halted, stopSignal, revive, restores>>
threads == <<background, scheduler>>
registrationVars == <<registration, registering, enabled>>
queueVars == <<queue, inHand>>
pushAndBackups == <<push, backups, backup>>
restoredData == <<dump, marker, unmarked>>

Replacing == {"queueDb", "marker", "appDb", "files"}

MaintenanceTypeOK ==
  /\ restore \in {"idle", "registration", "queue", "push", "join", "undo", "check",
                  "guard", "after"} \cup Replacing
  /\ {restoring, halted, stopSignal, registering, enabled, push, backups, backup,
      dump, marker, unmarked} \subseteq BOOLEAN
  /\ background \subseteq Background
  /\ registration \in {"running", "closing", "stopped"}
  /\ scheduler \in {"sleeping", "looking", "gone"}
  /\ queue \in {"running", "draining", "stopped"}
  /\ inHand \in 0..MaxOpenClaims
  /\ revive \subseteq {"registration", "queue", "backups"}
  /\ restores \in 0..MaxRestores

\* The lifespan starts the queue, the background threads and the backups;
\* the auto scheduler resumes a registration that is switched on.
MaintenanceInit ==
  /\ restore = "idle" /\ restoring = FALSE /\ halted = FALSE /\ stopSignal = FALSE
  /\ background = Background /\ scheduler = "sleeping"
  /\ registration = "stopped" /\ registering = FALSE /\ enabled \in BOOLEAN
  /\ queue = "running" /\ inHand = 0
  /\ push = TRUE /\ backups = TRUE /\ backup = FALSE
  /\ revive = {}
  /\ dump = FALSE /\ marker = FALSE /\ unmarked = FALSE /\ restores = 0

-----------------------------------------------------------------------------
(* What runs beside a restore *)

ClaimJob ==
  /\ queue = "running" /\ inHand < MaxOpenClaims
  /\ inHand' = inHand + 1
  /\ UNCHANGED <<boundary, threads, registrationVars, pushAndBackups, restoredData,
                 queue>>

FinishJob ==
  /\ inHand > 0
  /\ inHand' = inHand - 1
  /\ UNCHANGED <<boundary, threads, registrationVars, pushAndBackups, restoredData,
                 queue>>

\* should_submit_registration refuses during a restore.
BeginRegistration ==
  /\ registration = "running" /\ ~registering /\ ~restoring
  /\ registering' = TRUE
  /\ UNCHANGED <<boundary, threads, queueVars, pushAndBackups, restoredData,
                 registration, enabled>>

\* A registration ends; without one the runner that was told to stop ends.
EndRegistration ==
  /\ \/ registering /\ registering' = FALSE /\ UNCHANGED registration
     \/ /\ registration = "closing" /\ ~registering
        /\ registration' = "stopped" /\ UNCHANGED registering
  /\ UNCHANGED <<boundary, threads, queueVars, pushAndBackups, restoredData, enabled>>

\* The administrator starts or stops the registration.  A runner that is
\* closing is left alone by a start.
SwitchRegistration ==
  /\ ~restoring
  /\ \/ /\ registration # "closing"
        /\ enabled' = TRUE /\ registration' = "running"
     \/ /\ enabled' = FALSE
        /\ registration' = IF registration = "running" THEN "closing" ELSE registration
  /\ UNCHANGED <<boundary, threads, queueVars, pushAndBackups, restoredData,
                 registering>>

\* A turn of the auto scheduler begins, and acts on what it finds at its end.
SchedulerLooks ==
  /\ scheduler = "sleeping" /\ ~stopSignal
  /\ scheduler' = "looking"
  /\ UNCHANGED <<boundary, registrationVars, queueVars, pushAndBackups, restoredData,
                 background>>

SchedulerActs ==
  /\ scheduler = "looking"
  /\ scheduler' = "sleeping"
  /\ registration' = IF enabled /\ registration = "stopped" THEN "running"
                     ELSE IF ~enabled /\ registration = "running" THEN "closing"
                     ELSE registration
  /\ UNCHANGED <<boundary, queueVars, pushAndBackups, restoredData, background,
                 registering, enabled>>

\* A thread sees the stop event and ends.
ThreadEnds ==
  /\ stopSignal
  /\ \/ \E t \in background : background' = background \ {t} /\ UNCHANGED scheduler
     \/ scheduler = "sleeping" /\ scheduler' = "gone" /\ UNCHANGED background
  /\ UNCHANGED <<boundary, registrationVars, queueVars, pushAndBackups, restoredData>>

\* run_backup, from its scheduler or a request: not during a restore.
StartBackup ==
  /\ ~backup /\ ~restoring
  /\ backup' = TRUE
  /\ UNCHANGED <<boundary, threads, registrationVars, queueVars, restoredData, push,
                 backups>>

\* _run_backup_once: dumps and files, upload, rotation; or an error.
FinishBackup ==
  /\ backup
  /\ backup' = FALSE
  /\ UNCHANGED <<boundary, threads, registrationVars, queueVars, restoredData, push,
                 backups>>

-----------------------------------------------------------------------------
(* The maintenance: stop everything, or start it again *)

\* _restore_scope and the head of _BackupRestoreMaintenance.stop: a process
\* that was stopped by an earlier restore is not stopped again.
BeginRestore ==
  /\ restore = "idle" /\ restores < MaxRestores
  /\ restores' = restores + 1
  /\ restoring' = TRUE /\ halted' = TRUE
  /\ restore' = IF halted THEN "check" ELSE "registration"
  /\ stopSignal' = (stopSignal \/ ~halted)
  /\ revive' = {}
  /\ UNCHANGED <<threads, registrationVars, queueVars, pushAndBackups, restoredData>>

\* RegisterService.shutdown, then the wait for its runner.
ShutRegistration ==
  /\ restore = "registration"
  /\ \/ /\ registration = "running"
        /\ registration' = "closing" /\ UNCHANGED <<restore, revive>>
     \/ /\ registration = "stopped"
        /\ restore' = "queue" /\ revive' = {"registration"} /\ UNCHANGED registration
     \/ /\ registration = "closing" /\ registering  \* the timeout
        /\ restore' = "undo" /\ UNCHANGED <<registration, revive>>
  /\ UNCHANGED <<threads, queueVars, pushAndBackups, restoredData, restoring, halted,
                 stopSignal, registering, enabled, restores>>

\* ImageTaskService.stop: the claims in hand end in time, or the dispatcher is
\* resumed and the restore gives up.
StopQueue ==
  /\ restore = "queue"
  /\ \/ /\ queue = "running"
        /\ queue' = "draining" /\ UNCHANGED <<restore, revive>>
     \/ /\ queue # "running" /\ inHand = 0
        /\ queue' = "stopped" /\ restore' = "push" /\ revive' = revive \cup {"queue"}
     \/ /\ queue = "draining" /\ inHand > 0
        /\ queue' = "running" /\ restore' = "undo" /\ UNCHANGED revive
  /\ UNCHANGED <<threads, registrationVars, pushAndBackups, restoredData, restoring,
                 halted, stopSignal, inHand, restores>>

\* The push service is stopped for good, the backup scheduler is not.
StopPushAndBackups ==
  /\ restore = "push"
  /\ push' = FALSE /\ backups' = FALSE
  /\ restore' = "join" /\ revive' = revive \cup {"backups"}
  /\ UNCHANGED <<threads, registrationVars, queueVars, restoredData, restoring,
                 halted, stopSignal, backup, restores>>

JoinThreads ==
  /\ restore = "join"
  /\ \/ background = {} /\ scheduler = "gone" /\ restore' = "check"
     \/ (background # {} \/ scheduler # "gone") /\ restore' = "undo"
  /\ UNCHANGED <<threads, registrationVars, queueVars, pushAndBackups, restoredData,
                 restoring, halted, stopSignal, revive, restores>>

\* start of the image queue: leases of a restored dump are reclaimed when the
\* marker, or the restore itself, says so.
QueueStarts(now) ==
  /\ queue' = "running"
  /\ dump' = (dump /\ ~(now \/ marker))
  /\ marker' = FALSE

\* RegisterService.start switches the registration on.
RegistrationStarts ==
  /\ enabled' = TRUE
  /\ registration' = IF registration = "closing" THEN registration ELSE "running"

\* The end of a failing stop: the event is cleared, what was stopped and can
\* be started is started.
UndoStop ==
  /\ restore = "undo"
  /\ restore' = "idle" /\ restoring' = FALSE /\ halted' = FALSE /\ stopSignal' = FALSE
  /\ IF "registration" \in revive THEN RegistrationStarts
     ELSE UNCHANGED <<enabled, registration>>
  /\ IF "queue" \in revive THEN QueueStarts(FALSE)
     ELSE UNCHANGED <<queue, dump, marker>>
  /\ backups' = (backups \/ "backups" \in revive)
  /\ UNCHANGED <<threads, registering, inHand, push, backup, revive,
                 unmarked, restores>>

-----------------------------------------------------------------------------
(* The restore itself *)

\* An error: the process stays as it is, stopped.
RestoreFails ==
  /\ restore \in {"check", "guard"} \cup (Replacing \ {"marker"})
  /\ restore' = "idle" /\ restoring' = FALSE
  /\ UNCHANGED <<threads, registrationVars, queueVars, pushAndBackups, restoredData,
                 halted, stopSignal, revive, restores>>

\* restore_backup: not beside a backup; then download, decrypt, unpack and
\* check the archive.
FetchArchive ==
  /\ restore = "check" /\ ~backup
  /\ restore' = "guard"
  /\ UNCHANGED <<threads, registrationVars, queueVars, pushAndBackups, restoredData,
                 restoring, halted, stopSignal, revive, restores>>

\* _guard_image_queue_restore; the archive may come without a queue.
GuardQueue ==
  /\ restore = "guard" /\ queue = "stopped" /\ inHand = 0
  /\ restore' \in {"queueDb", "appDb"}
  /\ UNCHANGED <<threads, registrationVars, queueVars, pushAndBackups, restoredData,
                 restoring, halted, stopSignal, revive, restores>>

\* pg_restore in one transaction.
ReplaceQueueDb ==
  /\ restore = "queueDb"
  /\ restore' = "marker" /\ dump' = TRUE
  /\ UNCHANGED <<threads, registrationVars, queueVars, pushAndBackups, restoring,
                 halted, stopSignal, revive, marker, unmarked,
                 restores>>

\* Mutant: no marker is left.
LeaveNoMarker ==
  /\ restore = "marker"
  /\ restore' = "appDb"
  /\ UNCHANGED <<threads, registrationVars, queueVars, pushAndBackups, restoredData,
                 restoring, halted, stopSignal, revive, restores>>

LeaveMarker ==
  /\ restore = "marker"
  /\ restore' = "appDb" /\ marker' = TRUE
  /\ UNCHANGED <<threads, registrationVars, queueVars, pushAndBackups, restoring,
                 halted, stopSignal, revive, dump, unmarked,
                 restores>>

ReplaceAppDb ==
  /\ restore = "appDb"
  /\ restore' = "files"
  /\ UNCHANGED <<threads, registrationVars, queueVars, pushAndBackups, restoredData,
                 restoring, halted, stopSignal, revive, restores>>

ReplaceFiles ==
  /\ restore = "files"
  /\ restore' = "after"
  /\ UNCHANGED <<threads, registrationVars, queueVars, pushAndBackups, restoredData,
                 restoring, halted, stopSignal, revive, restores>>

\* _finish_backup_restore_maintenance: if the queue does not start nothing
\* else does.  Live threads are not joined by new ones.
FinishMaintenance ==
  /\ restore = "after"
  /\ restore' = "idle" /\ restoring' = FALSE
  /\ \/ /\ QueueStarts(TRUE) /\ RegistrationStarts
        /\ push' = TRUE /\ backups' = TRUE /\ halted' = FALSE /\ stopSignal' = FALSE
        /\ IF background = {} /\ scheduler = "gone"
           THEN background' = Background /\ scheduler' = "sleeping"
           ELSE UNCHANGED <<threads>>
     \/ UNCHANGED <<threads, halted, stopSignal, registration, enabled, queue, push,
                    backups, dump, marker>>
  /\ UNCHANGED <<registering, inHand, backup, revive, unmarked, restores>>

\* The process dies, or is restarted by its administrator.
RestartProcess ==
  /\ restore' = "idle" /\ restoring' = FALSE /\ halted' = FALSE /\ stopSignal' = FALSE
  /\ background' = Background /\ scheduler' = "sleeping"
  /\ registration' = "stopped" /\ registering' = FALSE
  /\ inHand' = 0 /\ push' = TRUE /\ backups' = TRUE /\ backup' = FALSE
  /\ revive' = {}
  /\ unmarked' = (dump /\ (unmarked \/ restore = "marker"))
  /\ QueueStarts(FALSE)
  /\ UNCHANGED <<enabled, restores>>

MaintenanceNext ==
  \/ ClaimJob \/ FinishJob \/ BeginRegistration \/ EndRegistration
  \/ SwitchRegistration \/ SchedulerLooks \/ SchedulerActs \/ ThreadEnds
  \/ StartBackup \/ FinishBackup
  \/ BeginRestore \/ ShutRegistration \/ StopQueue \/ StopPushAndBackups \/ JoinThreads
  \/ UndoStop \/ RestoreFails \/ FetchArchive \/ GuardQueue \/ ReplaceQueueDb
  \/ LeaveMarker \/ ReplaceAppDb \/ ReplaceFiles \/ FinishMaintenance
  \/ RestartProcess

MaintenanceSpec == MaintenanceInit /\ [][MaintenanceNext]_maintenanceVars

-----------------------------------------------------------------------------
(* Properties *)

\* While data is replaced no job is in hand, none can be claimed and no backup
\* reads, also when the restore trusts an earlier one to have stopped the
\* process (_prepare_backup_restore_maintenance, _guard_image_queue_restore).
ReplacedWhileQuiet ==
  restore \in Replacing => queue = "stopped" /\ inHand = 0 /\ ~backup

\* A running queue does not take the leases of a restored dump for live ones,
\* however the restore went on, unless the process died between the dump and
\* its marker (mark_queue_restore_needs_reclaim, ImageRecovery.recover).
RestoredLeasesReclaimed == queue = "running" /\ dump => unmarked

\* A restore replaces data while the rest is quiet, and its leases are reclaimed.
RestoreIsSafe == ReplacedWhileQuiet /\ RestoredLeasesReclaimed
=============================================================================
