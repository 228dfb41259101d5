---------------------------- MODULE EditableFiles -----------------------------
(***************************************************************************)
(* One editable file task (services/editable_file_task_service.py and      *)
(* services/storage/editable_file_task_repository.py): its row, the        *)
(* directories its export is staged in and published to, and the thread    *)
(* that runs it, while clients submit it again and delete it, files cannot *)
(* be removed, threads cannot start, the database fails and the process    *)
(* starts again.                                                           *)
(***************************************************************************)
EXTENDS Naturals

CONSTANTS
  Clients,      \* requests that submit the task
  MaxStorages,  \* bound: times the task is created
  MaxRestarts,  \* bound: restarts
  MaxFaults     \* bound: failures of the database, threads that cannot start

ASSUME EditableAssumption == MaxStorages \in Nat /\ MaxRestarts \in Nat /\ MaxFaults \in Nat

VARIABLES
  fileRow,         \* the row of the task
  storages,    \* storage identifiers given out
  staged,      \* storages with a staging directory
  published,   \* storages with an output directory
  inflight,    \* the task is in _inflight
  thread,      \* the thread that runs it
  submits,     \* client -> it is about to start the task
  lost,        \* history: the task was queued for a thread that had ended
  stranded,    \* history: a thread could not start, or not record a step of it
  restarts, faults

editableVars == <<fileRow, storages, staged, published, inflight, thread, submits, lost,
                  stranded, restarts, faults>>
fileDisk == <<staged, published>>
editableBounds == <<storages, restarts, faults>>

NoTask == [status |-> "none", pending |-> FALSE, storage |-> 0]
NoThread == [at |-> "none", storage |-> 0, moved |-> FALSE]
Unfinished == {"queued", "running"}
Terminal == {"success", "error"}

EditableTypeOK ==
  /\ fileRow.status \in {"none"} \cup Unfinished \cup Terminal
  /\ fileRow.storage <= storages
  /\ staged \subseteq 1..MaxStorages /\ published \subseteq 1..MaxStorages
  /\ thread.at \in {"none", "begin", "running", "exporting", "exported", "moved",
                  "failing", "failed", "ending"}

EditableInit ==
  /\ fileRow = NoTask
  /\ storages = 0 /\ staged = {} /\ published = {}
  /\ inflight = FALSE /\ thread = NoThread
  /\ submits = [c \in Clients |-> FALSE]
  /\ lost = FALSE /\ stranded = FALSE
  /\ restarts = 0 /\ faults = 0

-----------------------------------------------------------------------------
(* Clients *)

\* _submit creates the row, or queues again one that failed or has no thread.
SubmitFile(c) ==
  /\ ~submits[c]
  /\ \/ /\ fileRow.status = "none" /\ storages < MaxStorages
        /\ storages' = storages + 1
        /\ fileRow' = [status |-> "queued", pending |-> FALSE, storage |-> storages + 1]
     \/ /\ fileRow.status = "error" \/ (fileRow.status \in Unfinished /\ ~inflight)
        /\ fileRow' = [fileRow EXCEPT !.status = "queued"]
        /\ UNCHANGED storages
  /\ submits' = [submits EXCEPT ![c] = TRUE]
  /\ UNCHANGED <<fileDisk, inflight, thread, lost, stranded, restarts, faults>>

Fault == faults < MaxFaults /\ faults' = faults + 1

\* _start_task: not when the task is held in flight; where the thread cannot be
\* started the request fails and the task stays in flight.
StartTask(c) ==
  /\ submits[c]
  /\ submits' = [submits EXCEPT ![c] = FALSE]
  /\ inflight' = TRUE
  /\ lost' = IF inflight THEN lost \/ thread.at = "ending" ELSE FALSE
  /\ \/ inflight /\ UNCHANGED <<thread, stranded, faults>>
     \/ ~inflight /\ thread' = [NoThread EXCEPT !.at = "begin"] /\ UNCHANGED <<stranded, faults>>
     \/ ~inflight /\ Fault /\ stranded' = TRUE /\ UNCHANGED thread
  /\ UNCHANGED <<fileRow, fileDisk, storages, restarts>>

\* Mutant: a task is deleted whatever it does.
DeletesAnything(status) == status # "none"

Deletable(status) == status \in Terminal

\* delete_task marks the row, removes the files and then the row; it ends where
\* the files cannot be removed or the process does.
DeleteTask ==
  /\ Deletable(fileRow.status)
  /\ \/ /\ fileRow' = NoTask
        /\ staged' = staged \ {fileRow.storage}
        /\ published' = published \ {fileRow.storage}
     \/ /\ fileRow' = [fileRow EXCEPT !.pending = TRUE]
        /\ staged' \in {staged, staged \ {fileRow.storage}}
        /\ published' \in {published, published \ {fileRow.storage}}
  /\ UNCHANGED <<inflight, thread, submits, lost, stranded, editableBounds>>

-----------------------------------------------------------------------------
(* The thread: _run_task *)

ThreadGoes(at) == thread' = [thread EXCEPT !.at = at]

\* EditableFileTaskRepository.update of the row, if there is one
RowRecorded(status) ==
  fileRow' = IF fileRow.status = "none" THEN fileRow ELSE [fileRow EXCEPT !.status = status]

\* An error here is outside the try: the thread is gone, the task stays in flight.
MarkRunning ==
  /\ thread.at = "begin"
  /\ \/ RowRecorded("running") /\ ThreadGoes("running") /\ UNCHANGED <<stranded, faults>>
     \/ Fault /\ stranded' = TRUE /\ thread' = NoThread /\ UNCHANGED fileRow
  /\ UNCHANGED <<fileDisk, inflight, submits, lost, storages, restarts>>

\* An account is chosen, the row read and an old staging directory removed.
Prepare ==
  /\ thread.at = "running"
  /\ \/ /\ fileRow.status # "none"
        /\ thread' = [thread EXCEPT !.at = "exporting", !.storage = fileRow.storage]
        /\ staged' = staged \ {fileRow.storage}
     \/ fileRow.status = "none" /\ ThreadGoes("ending") /\ UNCHANGED staged
     \/ ThreadGoes("failing") /\ UNCHANGED staged
  /\ UNCHANGED <<fileRow, published, inflight, submits, lost, stranded, editableBounds>>

\* The export writes the staging directory, perhaps not all of it.
Export ==
  /\ thread.at = "exporting"
  /\ staged' = staged \cup {thread.storage}
  /\ \E next \in {"exported", "failing"} : ThreadGoes(next)
  /\ UNCHANGED <<fileRow, published, inflight, submits, lost, stranded, editableBounds>>

\* _publish_files renames it unless there is an output directory already.
PublishFiles ==
  /\ thread.at = "exported"
  /\ IF thread.storage \in published
     THEN ThreadGoes("failing") /\ UNCHANGED fileDisk
     ELSE /\ staged' = staged \ {thread.storage}
          /\ published' = published \cup {thread.storage}
          /\ thread' = [thread EXCEPT !.at = "moved", !.moved = TRUE]
  /\ UNCHANGED <<fileRow, inflight, submits, lost, stranded, editableBounds>>

RecordSuccess ==
  /\ thread.at = "moved"
  /\ \/ RowRecorded("success") /\ ThreadGoes("ending") /\ UNCHANGED faults
     \/ Fault /\ ThreadGoes("failing") /\ UNCHANGED fileRow
  /\ UNCHANGED <<fileDisk, inflight, submits, lost, stranded, storages, restarts>>

\* What was staged or published by this run is removed, if it can be, ...
CleanUp ==
  /\ thread.at = "failing"
  /\ staged' \in {staged, staged \ {thread.storage}}
  /\ published' \in IF thread.moved THEN {published, published \ {thread.storage}} ELSE {published}
  /\ ThreadGoes("failed")
  /\ UNCHANGED <<fileRow, inflight, submits, lost, stranded, editableBounds>>

\* ... and then the error recorded.
RecordError ==
  /\ thread.at = "failed"
  /\ \/ RowRecorded("error") /\ UNCHANGED <<stranded, faults>>
     \/ Fault /\ stranded' = TRUE /\ UNCHANGED fileRow
  /\ ThreadGoes("ending")
  /\ UNCHANGED <<fileDisk, inflight, submits, lost, storages, restarts>>

\* The task leaves _inflight.
EndRun ==
  /\ thread.at = "ending"
  /\ thread' = NoThread /\ inflight' = FALSE
  /\ UNCHANGED <<fileRow, fileDisk, submits, lost, stranded, editableBounds>>

-----------------------------------------------------------------------------
(* The service starts again *)

\* _recover_pending_deletions_locked: files that can now be removed, and the row
PendingDeleted ==
  \/ /\ fileRow.pending
     /\ fileRow' = NoTask
     /\ staged' = staged \ {fileRow.storage}
     /\ published' = published \ {fileRow.storage}
     /\ inflight' = FALSE /\ thread' = NoThread

\* _recover_unfinished_locked: its files are removed, if they can be, and it is
\* started again, or failed when its request cannot be.  (Where the thread cannot
\* be started here, the process does not start.)
UnfinishedResumed ==
  /\ fileRow.status \in Unfinished
  /\ staged' \in {staged, staged \ {fileRow.storage}}
  /\ published' \in {published, published \ {fileRow.storage}}
  /\ \/ fileRow' = [fileRow EXCEPT !.status = "queued"] /\ inflight' = TRUE
        /\ thread' = [NoThread EXCEPT !.at = "begin"]
     \/ fileRow' = [fileRow EXCEPT !.status = "error"] /\ inflight' = FALSE /\ thread' = NoThread

Restart ==
  /\ restarts < MaxRestarts
  /\ restarts' = restarts + 1
  /\ submits' = [c \in Clients |-> FALSE]
  /\ lost' = FALSE /\ stranded' = FALSE
  /\ \/ PendingDeleted \/ UnfinishedResumed
     \/ /\ fileRow.status \notin Unfinished
        /\ inflight' = FALSE /\ thread' = NoThread
        /\ UNCHANGED <<fileRow, fileDisk>>
  /\ UNCHANGED <<storages, faults>>

EditableNext ==
  \/ \E c \in Clients : SubmitFile(c) \/ StartTask(c)
  \/ DeleteTask
  \/ MarkRunning \/ Prepare \/ Export \/ PublishFiles \/ RecordSuccess
  \/ CleanUp \/ RecordError \/ EndRun
  \/ Restart

EditableSpec == EditableInit /\ [][EditableNext]_editableVars

-----------------------------------------------------------------------------
(* Properties *)

\* Whatever fails and whenever the task is deleted, submitted again or the
\* process restarted: a task that succeeded has its files until it is deleted,
\* there are no files of a task that is gone, and an unfinished task has a thread
\* or a request about to start one -- unless it was queued for a thread that had
\* already ended, its thread could not start, or a step of it could not be recorded
\* (_start_task, _run_task, delete_task, _recover_pending_deletions_locked).
FilesFollowTasks ==
  /\ fileRow.status = "success" /\ ~fileRow.pending => fileRow.storage \in published
  /\ staged \cup published \subseteq {fileRow.storage}
  /\ fileRow.status \in Unfinished /\ ~lost /\ ~stranded =>
       thread.at # "none" \/ \E c \in Clients : submits[c]
=============================================================================
