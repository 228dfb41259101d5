--------------------------- MODULE ImageDelivery ----------------------------
(***************************************************************************)
(* What happens to a finished image: clients read and acknowledge it, a    *)
(* result whose file is lost is made again or failed, its use of quota is  *)
(* charged to the account, files without a valid row are swept, and the    *)
(* whole task is removed when it is old.  One task with its jobs; the      *)
(* queue that works a job off is module ImageQueue, here it is one worker  *)
(* that writes a file and then commits.  Final files are named by their    *)
(* content, so the file made again has the path of the file it replaces.   *)
(***************************************************************************)
EXTENDS Integers, FiniteSets

CONSTANTS ResultJobs,                  \* the image jobs of the task
          Readers,               \* requests of clients, and the reconciler
          Rebuildable,           \* jobs with URLs or a conversation to resume
          MaxLosses,             \* bound: files lost or deleted in the gallery
          MaxAccountingAttempts  \* MAX_QUOTA_ACCOUNTING_ATTEMPTS

ASSUME DeliveryAssumption ==
  /\ Rebuildable \subseteq ResultJobs
  /\ MaxLosses \in Nat
  /\ MaxAccountingAttempts \in Nat \ {0}
  /\ {"claim", "dispatcher"} \cap Readers = {}

VARIABLES jobs,       \* ImageJob rows; {} -> the task is gone
          finalRow,   \* artifact row of the final image: none, ready, invalid
          finalFile,  \* its file exists
          stageFile,  \* a downloaded or upscaled file of the job exists
          delivery,   \* delivery_status and the age of response_attempted_at
          taskAge,    \* whether completed_at is past the retention
          writing,    \* jobs whose worker has written the file, not the row
          reader,     \* what each request works on
          recording,  \* a charge between the account row and the job row
          charged,    \* account side: times the result was charged
          seenKeys,   \* account side: idempotency keys of recorded results
          sweep,      \* cleanup_invalid_artifacts: the row it works on
          purge,      \* the dispatcher's removal of terminal tasks
          losses      \* history, for the bound

deliveryVars == <<jobs, finalRow, finalFile, stageFile, delivery, taskAge,
                  writing, reader, recording, charged, seenKeys, sweep, purge,
                  losses>>

JobRow == [status : {"queued", "success", "failed"}, payload : BOOLEAN,
           consumed : BOOLEAN, accounted : BOOLEAN,
           attempts : 0..MaxAccountingAttempts]
Recorders == Readers \cup {"claim", "dispatcher"}
IdleReader == [pc |-> "idle", use |-> "get", items |-> {}, rows |-> <<>>,
               pending |-> FALSE, verified |-> {}, failed |-> {}, item |-> {}]
NotRecording == [job |-> {}, known |-> FALSE]

TaskExists == jobs # <<>>
\* _aggregate_task, for a task nobody canceled
Succeeded == {j \in DOMAIN jobs : jobs[j].status = "success"}
TaskTerminal == TaskExists /\ \A j \in ResultJobs : jobs[j].status # "queued"
TaskStatus == IF Succeeded = ResultJobs THEN "success"
              ELSE IF TaskTerminal THEN "failed" ELSE "active"
\* the items of TaskSnapshot.data
Data == {j \in Succeeded : jobs[j].payload}
Unaccounted(j) == TaskExists /\ jobs[j].consumed /\ ~jobs[j].accounted
\* list_unaccounted_quota_jobs_for_task, list_unaccounted_terminal_quota_jobs
Chargeable == {j \in ResultJobs : /\ Unaccounted(j)
                                  /\ jobs[j].attempts < MaxAccountingAttempts
                                  /\ jobs[j].status # "queued"}

DeliveryInit ==
  /\ jobs = [j \in ResultJobs |-> [status |-> "queued", payload |-> FALSE,
                             consumed |-> FALSE, accounted |-> FALSE,
                             attempts |-> 0]]
  /\ finalRow = [j \in ResultJobs |-> "none"]
  /\ finalFile = [j \in ResultJobs |-> FALSE]
  /\ stageFile = [j \in ResultJobs |-> FALSE]
  /\ delivery = [status |-> "pending", age |-> "none"]
  /\ taskAge = "none"
  /\ writing = {}
  /\ reader = [r \in Readers |-> IdleReader]
  /\ recording = [a \in Recorders |-> NotRecording]
  /\ charged = [j \in ResultJobs |-> 0]
  /\ seenKeys = {}
  /\ sweep = {}
  /\ purge = "idle"
  /\ losses = 0

AgeOfTask(rows) ==
  IF \A j \in ResultJobs : rows[j].status # "queued" THEN "fresh" ELSE "none"

(***************************************************************************)
(* The worker: the file first, then the row in one transaction with the    *)
(* job; a stale claim leaves the file.                                     *)
(***************************************************************************)
PersistFinal(j) ==
  /\ TaskExists /\ jobs[j].status = "queued" /\ j \notin writing
  /\ finalFile' = [finalFile EXCEPT ![j] = TRUE]
  /\ stageFile' = [stageFile EXCEPT ![j] = TRUE]
  /\ writing' = writing \cup {j}
  /\ UNCHANGED <<jobs, finalRow, delivery, taskAge, reader, recording, charged,
                 seenKeys, sweep, purge, losses>>

\* complete_job; then _record_claim_account_result, which goes on in Record
CompleteJob(j) ==
  /\ TaskExists /\ j \in writing
  /\ jobs' = [jobs EXCEPT ![j].status = "success", ![j].payload = TRUE,
                          ![j].consumed = TRUE]
  /\ finalRow' = [finalRow EXCEPT ![j] = "ready"]
  /\ taskAge' = AgeOfTask(jobs')
  /\ writing' = writing \ {j}
  /\ recording' = IF jobs[j].accounted \/ recording["claim"] # NotRecording
                    THEN recording
                    ELSE [recording EXCEPT !["claim"] =
                                             [job |-> {j}, known |-> FALSE]]
  /\ UNCHANGED <<finalFile, stageFile, delivery, reader, charged, seenKeys,
                 sweep, purge, losses>>

\* the claim ends without a commit: retried later, or failed for good
WorkerStops(j) ==
  /\ TaskExists /\ jobs[j].status = "queued"
  /\ writing' = writing \ {j}
  /\ \/ j \in writing /\ UNCHANGED <<jobs, taskAge>>
     \/ /\ jobs' = [jobs EXCEPT ![j].status = "failed"]
        /\ taskAge' = AgeOfTask(jobs')
  /\ UNCHANGED <<finalRow, finalFile, stageFile, delivery, reader, recording,
                 charged, seenKeys, sweep, purge, losses>>

(***************************************************************************)
(* Charging the account: look up, record on the account row, mark the job. *)
(***************************************************************************)
\* _reconcile_unaccounted_quotas takes the next job of its list
Reconcile(j) ==
  /\ j \in Chargeable
  /\ recording["dispatcher"] = NotRecording
  /\ recording' = [recording EXCEPT !["dispatcher"] = [job |-> {j}, known |-> FALSE]]
  /\ UNCHANGED <<jobs, finalRow, finalFile, stageFile, delivery, taskAge,
                 writing, reader, charged, seenKeys, sweep, purge, losses>>

\* _record_image_result: the keys it has recorded already
ExistingKeys == seenKeys

\* record_managed_image_result of the account service
Record(a, j) ==
  /\ recording[a] = [job |-> {j}, known |-> FALSE]
  /\ charged' = [charged EXCEPT ![j] = IF j \in ExistingKeys THEN @ ELSE @ + 1]
  /\ seenKeys' = seenKeys \cup {j}
  /\ recording' = [recording EXCEPT ![a].known = TRUE]
  /\ UNCHANGED <<jobs, finalRow, finalFile, stageFile, delivery, taskAge,
                 writing, reader, sweep, purge, losses>>

\* the account is gone, or its row could not be saved:
\* record_quota_accounting_failure (the counter is only compared with the
\* limit, so the model stops it there)
RecordFails(a, j) ==
  /\ recording[a] = [job |-> {j}, known |-> FALSE]
  /\ recording' = [recording EXCEPT ![a] = NotRecording]
  /\ IF Unaccounted(j) /\ jobs[j].attempts < MaxAccountingAttempts
       THEN jobs' = [jobs EXCEPT ![j].attempts = @ + 1]
       ELSE UNCHANGED jobs
  /\ UNCHANGED <<finalRow, finalFile, stageFile, delivery, taskAge, writing,
                 reader, charged, seenKeys, sweep, purge, losses>>

\* "if recorded"
RecordingOf(a, j) == recording[a] = [job |-> {j}, known |-> TRUE]

\* mark_quota_accounted
MarkAccounted(a, j) ==
  /\ RecordingOf(a, j)
  /\ recording' = [recording EXCEPT ![a] = NotRecording]
  /\ IF Unaccounted(j) THEN jobs' = [jobs EXCEPT ![j].accounted = TRUE]
                       ELSE UNCHANGED jobs
  /\ UNCHANGED <<finalRow, finalFile, stageFile, delivery, taskAge, writing,
                 reader, charged, seenKeys, sweep, purge, losses>>

(***************************************************************************)
(* A request: get and list mark the response attempted, acknowledge ends   *)
(* the delivery, reconcile_unaccounted_delivery_results only verifies.     *)
(***************************************************************************)
HasDeliverableResult == TaskTerminal /\ Data # {}

\* get_task: the snapshot the whole request works on
Ask(r, use) ==
  /\ reader[r].pc = "idle" /\ HasDeliverableResult
  /\ use = "reconcile" => Chargeable # {}
  /\ reader' = [reader EXCEPT ![r] = [IdleReader EXCEPT
       !.pc = "list", !.use = use, !.items = Data,
       !.pending = (delivery.status = "pending")]]
  /\ UNCHANGED <<jobs, finalRow, finalFile, stageFile, delivery, taskAge,
                 writing, recording, charged, seenKeys, sweep, purge, losses>>

\* artifact_history
ListRows(r) ==
  /\ reader[r].pc = "list"
  /\ reader' = [reader EXCEPT ![r].rows = finalRow, ![r].pc = "check"]
  /\ UNCHANGED <<jobs, finalRow, finalFile, stageFile, delivery, taskAge,
                 writing, recording, charged, seenKeys, sweep, purge, losses>>

\* read_result_artifact reads the rows anew and then the file
Readable(j) == TaskExists /\ finalRow[j] = "ready" /\ finalFile[j]

CheckReadable(r, j) ==
  /\ reader[r].pc = "check" /\ j \in reader[r].items
  /\ reader[r].rows[j] # "none" /\ Readable(j)
  /\ reader' = [reader EXCEPT ![r].items = @ \ {j}, ![r].verified = @ \cup {j}]
  /\ UNCHANGED <<jobs, finalRow, finalFile, stageFile, delivery, taskAge,
                 writing, recording, charged, seenKeys, sweep, purge, losses>>

\* The local stage file, the URLs or the conversation the job can resume from
Recoverable(j) == stageFile[j] \/ j \in Rebuildable

\* fail_undeliverable_result: changes a job that is still successful
FailUndeliverable(j) ==
  IF j \in Succeeded
    THEN /\ jobs' = [jobs EXCEPT ![j].status = "failed", ![j].payload = FALSE]
         /\ finalRow' = [finalRow EXCEPT ![j] = IF @ = "ready" THEN "invalid" ELSE @]
         /\ taskAge' = AgeOfTask(jobs')
    ELSE UNCHANGED <<jobs, finalRow, taskAge>>

\* No row, a file that is lost with nothing to make it from, or a returned
\* URL the verifier cannot reach.
CheckFails(r, j) ==
  /\ reader[r].pc = "check" /\ j \in reader[r].items /\ TaskExists
  /\ \/ reader[r].rows[j] = "none"
     \/ reader[r].rows[j] # "none" /\ ~Readable(j) /\ ~Recoverable(j)
     \/ reader[r].rows[j] # "none" /\ Readable(j) /\ reader[r].pending
  /\ FailUndeliverable(j)
  /\ reader' = [reader EXCEPT ![r].items = @ \ {j}, ![r].failed = @ \cup {j}]
  /\ UNCHANGED <<finalFile, stageFile, delivery, writing, recording, charged,
                 seenKeys, sweep, purge, losses>>

\* Mutant: the delivery is cleared, which is no status.
NoDelivery == [status |-> "none", age |-> "none"]
\* requeue_undeliverable_result: response_attempted_at, delivery_acked_at
ResetDelivery == [status |-> "pending", age |-> "none"]

\* requeue_undeliverable_result; a job no longer successful is left alone
CheckRequeues(r, j) ==
  /\ reader[r].pc = "check" /\ j \in reader[r].items /\ TaskExists
  /\ reader[r].rows[j] # "none" /\ ~Readable(j) /\ Recoverable(j)
  /\ IF j \in Succeeded
       THEN /\ jobs' = [jobs EXCEPT ![j].status = "queued", ![j].payload = FALSE]
            /\ finalRow' = [finalRow EXCEPT ![j] = IF @ = "none" THEN @ ELSE "invalid"]
            /\ delivery' = ResetDelivery
            /\ taskAge' = "none"
       ELSE UNCHANGED <<jobs, finalRow, delivery, taskAge>>
  /\ reader' = [reader EXCEPT ![r].pc = "protect", ![r].item = {j}]
  /\ UNCHANGED <<finalFile, stageFile, writing, recording, charged, seenKeys,
                 sweep, purge, losses>>

\* _discard_requeued_artifacts, the rows it must keep
ProtectRequeued(r, j) ==
  /\ reader[r].pc = "protect" /\ reader[r].item = {j}
  /\ reader' = [reader EXCEPT ![r] =
       IF finalRow[j] = "ready" THEN IdleReader ELSE [@ EXCEPT !.pc = "discard"]]
  /\ UNCHANGED <<jobs, finalRow, finalFile, stageFile, delivery, taskAge,
                 writing, recording, charged, seenKeys, sweep, purge, losses>>

\* _discard_requeued_artifacts, the files; the request answers "recovering"
DiscardRequeued(r, j) ==
  /\ reader[r].pc = "discard" /\ reader[r].item = {j}
  /\ finalFile' = [finalFile EXCEPT ![j] = FALSE]
  /\ reader' = [reader EXCEPT ![r] = IdleReader]
  /\ UNCHANGED <<jobs, finalRow, stageFile, delivery, taskAge, writing,
                 recording, charged, seenKeys, sweep, purge, losses>>

\* _record_task_quota_accounting, the next job of the request
ChargeRead(r, j) ==
  /\ reader[r].pc = "check" /\ reader[r].items = {}
  /\ recording[r] = NotRecording
  /\ j \in Chargeable
  /\ reader[r].failed # {} => j \in reader[r].verified \cup reader[r].failed
  /\ recording' = [recording EXCEPT ![r] = [job |-> {j}, known |-> FALSE]]
  /\ reader' = [reader EXCEPT ![r].pc = "charge"]
  /\ UNCHANGED <<jobs, finalRow, finalFile, stageFile, delivery, taskAge,
                 writing, charged, seenKeys, sweep, purge, losses>>

Checked(r) == /\ reader[r].pc \in {"check", "charge"}
              /\ reader[r].items = {} /\ recording[r] = NotRecording

\* _mark_response_attempted_for_deliverable_result, by the snapshot; the
\* repository then takes any delivery that is not acknowledged
MarkResponseAttempted(r) ==
  /\ Checked(r) /\ reader[r].use = "get" /\ TaskExists
  /\ reader[r].pending /\ reader[r].verified # {}
  /\ delivery' = IF delivery.status = "acked" THEN delivery
                 ELSE [status |-> "attempted",
                       age |-> IF delivery.age = "none" THEN "fresh" ELSE delivery.age]
  /\ reader' = [reader EXCEPT ![r] = IdleReader]
  /\ UNCHANGED <<jobs, finalRow, finalFile, stageFile, taskAge, writing,
                 recording, charged, seenKeys, sweep, purge, losses>>

\* acknowledge: what the row must have at this moment
ResultAvailable ==
  /\ TaskTerminal
  /\ TaskStatus = "success" => Data = ResultJobs
  /\ TaskStatus = "failed" => Data # {}

Acknowledge(r) ==
  /\ Checked(r) /\ reader[r].use = "ack" /\ ResultAvailable
  /\ delivery' = [delivery EXCEPT !.status = "acked"]
  /\ reader' = [reader EXCEPT ![r] = IdleReader]
  /\ UNCHANGED <<jobs, finalRow, finalFile, stageFile, taskAge, writing,
                 recording, charged, seenKeys, sweep, purge, losses>>

\* The other ends: nothing to mark, a conflict, the task is gone, or the
\* process stops at any step.
EndRequest(r) ==
  /\ reader[r].pc # "idle"
  /\ reader' = [reader EXCEPT ![r] = IdleReader]
  /\ recording' = [recording EXCEPT ![r] = NotRecording]
  /\ UNCHANGED <<jobs, finalRow, finalFile, stageFile, delivery, taskAge,
                 writing, charged, seenKeys, sweep, purge, losses>>

\* The worker process stops: its half-made charges are dropped
WorkerCrash ==
  /\ \E a \in {"claim", "dispatcher"} : recording[a] # NotRecording
  /\ losses < MaxLosses /\ losses' = losses + 1
  /\ recording' = [a \in Recorders |->
       IF a \in Readers THEN recording[a] ELSE NotRecording]
  /\ purge' = "idle" /\ sweep' = {}
  /\ UNCHANGED <<jobs, finalRow, finalFile, stageFile, delivery, taskAge,
                 writing, reader, charged, seenKeys>>

(***************************************************************************)
(* Sweeps and removal.                                                     *)
(***************************************************************************)
\* list_invalid_artifacts, one row of the list
ListInvalid(j) ==
  /\ sweep = {} /\ finalRow[j] = "invalid"
  /\ sweep' = {<<j, "listed">>}
  /\ UNCHANGED <<jobs, finalRow, finalFile, stageFile, delivery, taskAge,
                 writing, reader, recording, charged, seenKeys, purge, losses>>

DiscardInvalid(j) ==
  /\ sweep = {<<j, "listed">>}
  /\ finalFile' = [finalFile EXCEPT ![j] = FALSE]
  /\ sweep' = {<<j, "discarded">>}
  /\ UNCHANGED <<jobs, finalRow, stageFile, delivery, taskAge, writing, reader,
                 recording, charged, seenKeys, purge, losses>>

\* Mutant: the row goes whatever its status has become.
WasListed(j) == TRUE
\* remove_invalid_artifacts: "status == INVALID" at the time of the delete
StillInvalid(j) == finalRow[j] = "invalid"

RemoveInvalidRow(j) ==
  /\ sweep = {<<j, "discarded">>}
  /\ finalRow' = IF StillInvalid(j) THEN [finalRow EXCEPT ![j] = "none"] ELSE finalRow
  /\ sweep' = {}
  /\ UNCHANGED <<jobs, finalFile, stageFile, delivery, taskAge, writing,
                 reader, recording, charged, seenKeys, purge, losses>>

\* jobs that keep their task: consumed, and not accounted
OpenCharges == {j \in ResultJobs : Unaccounted(j)}

\* purge_terminal_tasks: delivery_finished and success_retention_finished
PurgeSelect ==
  /\ purge = "idle" /\ TaskTerminal /\ taskAge = "old" /\ OpenCharges = {}
  /\ \/ delivery.status = "acked"
     \/ delivery.status = "attempted" /\ delivery.age = "old"
     \/ TaskStatus = "failed" /\ Succeeded = {}
  /\ purge' = "selected"
  /\ UNCHANGED <<jobs, finalRow, finalFile, stageFile, delivery, taskAge,
                 writing, reader, recording, charged, seenKeys, sweep, losses>>

\* terminal_cleanup_callback; on an error the dispatcher tries again later
PurgeDiscard ==
  /\ purge = "selected"
  /\ \/ /\ finalFile' = [j \in ResultJobs |-> finalFile[j] /\ finalRow[j] = "none"]
        /\ stageFile' = [j \in ResultJobs |-> FALSE]
        /\ purge' = "discarded"
     \/ purge' = "idle" /\ UNCHANGED <<finalFile, stageFile>>
  /\ UNCHANGED <<jobs, finalRow, delivery, taskAge, writing, reader, recording,
                 charged, seenKeys, sweep, losses>>

\* finalize_terminal_tasks: the rows of the ids that were selected
Finalize ==
  /\ purge = "discarded"
  /\ jobs' = <<>>
  /\ finalRow' = [j \in ResultJobs |-> "none"]
  /\ taskAge' = "none"
  /\ purge' = "idle"
  /\ writing' = {}
  /\ UNCHANGED <<finalFile, stageFile, delivery, reader, recording, charged,
                 seenKeys, sweep, losses>>

\* delete_public_final_artifact and the file, from the gallery
DeleteFromGallery(j) ==
  /\ TaskTerminal /\ j \in Succeeded /\ finalRow[j] = "ready"
  /\ losses < MaxLosses /\ losses' = losses + 1
  /\ jobs' = [jobs EXCEPT ![j].payload = FALSE]
  /\ finalRow' = [finalRow EXCEPT ![j] = "none"]
  /\ finalFile' = [finalFile EXCEPT ![j] = FALSE]
  /\ UNCHANGED <<stageFile, delivery, taskAge, writing, reader, recording,
                 charged, seenKeys, sweep, purge>>

\* The environment: a file is lost, and time passes
LoseFile(j) ==
  /\ losses < MaxLosses /\ losses' = losses + 1
  /\ finalFile[j]
  /\ finalFile' = [finalFile EXCEPT ![j] = FALSE]
  /\ stageFile' \in {stageFile, [stageFile EXCEPT ![j] = FALSE]}
  /\ UNCHANGED <<jobs, finalRow, delivery, taskAge, writing, reader, recording,
                 charged, seenKeys, sweep, purge>>

Grow ==
  /\ \/ taskAge = "fresh" \/ delivery.age = "fresh"
  /\ taskAge' = IF taskAge = "fresh" THEN "old" ELSE taskAge
  /\ delivery' = IF delivery.age = "fresh" THEN [delivery EXCEPT !.age = "old"]
                 ELSE delivery
  /\ UNCHANGED <<jobs, finalRow, finalFile, stageFile, writing, reader,
                 recording, charged, seenKeys, sweep, purge, losses>>

ReaderStep(r) ==
  \/ \E use \in {"get", "ack", "reconcile"} : Ask(r, use)
  \/ ListRows(r)
  \/ \E j \in ResultJobs : \/ CheckReadable(r, j) \/ CheckFails(r, j)
                           \/ CheckRequeues(r, j) \/ ProtectRequeued(r, j)
                           \/ DiscardRequeued(r, j) \/ ChargeRead(r, j)
  \/ MarkResponseAttempted(r) \/ Acknowledge(r) \/ EndRequest(r)
Charge(a) ==
  \E j \in ResultJobs : Record(a, j) \/ RecordFails(a, j) \/ MarkAccounted(a, j)

DeliveryNext ==
  \/ \E j \in ResultJobs : PersistFinal(j) \/ CompleteJob(j) \/ WorkerStops(j)
  \/ \E j \in ResultJobs : Reconcile(j)
  \/ \E a \in Recorders : Charge(a)
  \/ \E r \in Readers : ReaderStep(r)
  \/ \E j \in ResultJobs : \/ ListInvalid(j) \/ DiscardInvalid(j)
                           \/ RemoveInvalidRow(j) \/ DeleteFromGallery(j) \/ LoseFile(j)
  \/ PurgeSelect \/ PurgeDiscard \/ Finalize
  \/ Grow \/ WorkerCrash

(***************************************************************************)
(* The dispatcher comes back to unaccounted jobs; nothing else is promised.*)
(***************************************************************************)
DeliverySpec == DeliveryInit /\ [][DeliveryNext]_deliveryVars

(***************************************************************************)
(* Properties.                                                             *)
(***************************************************************************)
\* Every variable keeps to its type: rows, files, the work in progress of
\* requests and sweeps.
DeliveryTypeOK ==
  /\ jobs = <<>> \/ jobs \in [ResultJobs -> JobRow]
  /\ finalRow \in [ResultJobs -> {"none", "ready", "invalid"}]
  /\ finalFile \in [ResultJobs -> BOOLEAN] /\ stageFile \in [ResultJobs -> BOOLEAN]
  /\ delivery.status \in {"pending", "attempted", "acked"}
  /\ delivery.age \in {"none", "fresh", "old"} /\ taskAge \in {"none", "fresh", "old"}
  /\ writing \subseteq ResultJobs /\ seenKeys \subseteq ResultJobs
  /\ \A r \in Readers : reader[r].items \subseteq ResultJobs
  /\ \A a \in Recorders : recording[a].job \subseteq ResultJobs
  /\ charged \in [ResultJobs -> Nat]

\* A result is charged to its account at most once, however often it is read,
\* reconciled and made again, and whoever stops between the account row and
\* the job row (_record_claim_account_result, _record_task_quota_accounting).
ChargedOnce == \A j \in ResultJobs : charged[j] <= 1

\* A job row is marked accounted only for a charge the account has.
AccountedWereCharged ==
  TaskExists => \A j \in ResultJobs : jobs[j].accounted => charged[j] = 1

\* A delivery stays acknowledged only while the task is finished: making a
\* result again opens its delivery again (requeue_undeliverable_result
\* against acknowledge of a client that holds an older snapshot).
AcknowledgedIsTerminal ==
  TaskExists /\ delivery.status = "acked" => TaskTerminal

\* A valid row is never swept: a job that succeeds again while the sweep
\* deletes the file of its old row keeps the row, by which the loss of the
\* file is noticed and repaired (cleanup_invalid_artifacts).
SweepKeepsValidRows ==
  [][\A j \in ResultJobs : sweep = {<<j, "discarded">>} /\ finalRow[j] = "ready"
                       => finalRow'[j] = "ready" \/ sweep' = sweep \/ jobs' = <<>>]_deliveryVars

\* A task is removed only with its charges written: what an account owes is
\* never lost with the row (purge_terminal_tasks selects, the rows go later).
RemovedWereCharged ==
  [][TaskExists /\ jobs' = <<>> =>
       \A j \in ResultJobs : jobs[j].consumed => jobs[j].accounted]_deliveryVars

\* Results are charged once and removed, swept and acknowledged only as their
\* state allows.
ResultsAreAccounted ==
  /\ [](ChargedOnce /\ AccountedWereCharged /\ AcknowledgedIsTerminal)
  /\ SweepKeepsValidRows /\ RemovedWereCharged
=============================================================================
