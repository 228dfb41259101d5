----------------------------- MODULE ImageQueue -----------------------------
(***************************************************************************)
(* The durable image queue: the rows that ImageQueueRepository keeps in    *)
(* PostgreSQL (jobs, tasks, account leases, recovery artifacts), the claim *)
(* threads of the worker processes that execute jobs against them, the     *)
(* recovery sweeps, and the operations that API callers run concurrently.  *)
(*                                                                         *)
(* Every action below is one database transaction of the repository (the   *)
(* rows it touches are locked FOR UPDATE), or one step of a claim thread   *)
(* between two transactions.  Time is abstract: a lease is fresh, expired  *)
(* (lease_expires_at has passed) or overdue (its heartbeat is also older   *)
(* than the longest runtime of a claim), and a waiting job is due or not.  *)
(* The lease token of the code is a fresh UUID per claim; here the pair    *)
(* (owner, version) stands for it, since each claim increments version.    *)
(***************************************************************************)
EXTENDS Integers, FiniteSets

CONSTANTS
  Tasks,           (* image tasks, all of them already enqueued             *)
  Jobs,            (* image jobs, one per requested image                   *)
  TaskOf,          (* the task each job belongs to                          *)
  Workers,         (* worker processes, by worker_id                        *)
  Accounts,        (* upstream accounts                                     *)
  Slots,           (* slot numbers of an account (its image concurrency)    *)
  GenerateBudget,  (* attempts allowed in each stage group                  *)
  DownloadBudget,
  SaveBudget,
  Failures,        (* failure classes an execution may end in               *)
  Disruptions,     (* kinds of disturbance the environment may inject ...   *)
  MaxDisruptions,  (* ... and how many of them in a behaviour               *)
  None             (* SQL NULL                                              *)

FailureClasses == {"transient", "account", "hard", "timeout"}

\* Of these, "cancel" and "missing" are not counted: a task is cancelled once,
\* and a missing file costs the job an attempt.
DisruptionKinds ==
  {"crash", "pause", "gate", "strand", "drop", "resume", "undeliverable",
   "expire", "gone", "adopt", "cancel", "missing"}

ASSUME QueueAssumption ==
  /\ TaskOf \in [Jobs -> Tasks]
  /\ \A t \in Tasks : \E j \in Jobs : TaskOf[j] = t
  /\ GenerateBudget \in Nat /\ DownloadBudget \in Nat /\ SaveBudget \in Nat
  /\ Failures \subseteq FailureClasses
  /\ Disruptions \subseteq DisruptionKinds
  /\ MaxDisruptions \in Nat
  /\ None \notin Workers \cup Accounts \cup [account : Accounts, slot : Slots, version : Nat]

VARIABLES
  status,          (* image_jobs: status                                    *)
  stage,           (* image_jobs: stage                                     *)
  owner,           (* image_jobs: lease_owner                               *)
  version,         (* image_jobs: lease_version                             *)
  timer,           (* image_jobs: lease_expires_at and heartbeat_at         *)
  account,         (* image_jobs: account_id                                *)
  conv,            (* image_jobs: the account whose upstream conversation   *)
                   (* (conversation_id, file_ids, sediment_ids) is recorded *)
  urls,            (* image_jobs: image_urls is not empty                   *)
  consumed,        (* image_jobs: quota_consumed                            *)
  attempts,        (* image_jobs: the three attempt counters                *)
  error,           (* image_jobs: error_code, by class                      *)
  due,             (* image_jobs: available_at has passed                   *)
  ready,           (* image_task_artifacts: kinds with a READY row          *)
  accountLease,    (* image_account_leases: the row of each job             *)
  taskStatus,      (* image_tasks: status                                   *)
  cancelRequested, (* image_tasks: cancel_requested                         *)
  completed,       (* image_tasks: completed_at is set                      *)
  process,         (* what each worker process is doing                     *)
  plan,            (* the rows a starting process listed for recovery, with *)
                   (* the stage it decided to send each one back to         *)
  adoptable,       (* jobs the local-recovery sweep has listed              *)
  fresh,           (* workers whose worker-state heartbeat is recent        *)
  claims,          (* the claims held by the threads of the live processes  *)
  disruptions      (* disturbances injected so far                          *)

leaseVars == <<owner, version, timer, account, accountLease>>
checkpointVars == <<conv, urls, consumed, ready>>
retryVars == <<attempts, error, due>>
taskVars == <<taskStatus, cancelRequested, completed>>
bootVars == <<process, plan, adoptable>>
workerVars == <<bootVars, fresh, claims>>
vars == <<status, stage, leaseVars, checkpointVars, retryVars, taskVars,
          workerVars, disruptions>>

-----------------------------------------------------------------------------
(* Status sets and row types.                                              *)

WaitingStatuses == {"queued", "retry_wait"}
ActiveStatuses == {"leased", "running"}
TerminalJobStatuses == {"success", "failed", "canceled"}
JobStatuses == WaitingStatuses \cup ActiveStatuses \cup TerminalJobStatuses

\* Stages a generation claim may start from; the others are recovery stages.
GenerationStages == {"queued", "leased", "generating"}
DownloadStages == {"resolving", "downloading"}
SaveStages == {"transforming", "saving"}
Stages == GenerationStages \cup DownloadStages \cup SaveStages
            \cup TerminalJobStatuses

TerminalTaskStatuses == {"success", "failed", "canceled"}
TaskStatuses == {"queued", "running", "saving", "retrying"}
                  \cup TerminalTaskStatuses

ArtifactKinds == {"downloaded", "upscaled", "final"}

\* error_code by what the code tells apart: "transient" is retried and makes a
\* generating job change its account, "account" (verify_account) makes a
\* recovering one change it too, "hard" is never retried, "timeout" is
\* image_claim_timeout, "expired" is queue_timeout, and "lost" stands for the
\* codes that leave a job without a way to its result.
AttemptGroups == {"generate", "download", "save"}

ErrorClasses == FailureClasses \cup {"none", "expired", "lost"}

Timers == {"fresh", "expired", "overdue"}

AccountLeases == [account : Accounts, slot : Slots, version : Nat]

\* A claim is what claim_next_job returned to one thread.  have is the most
\* advanced image the thread holds in memory, committed is execute_claim's
\* result_commit_started, slotted says whether account_slot is a real slot.
Phases == {"claimed", "running", "cleared", "formatting", "settling", "stranded"}
Verdicts == {"none", "release", "retry", "timeout", "fail"}
Claims ==
  [job : Jobs, version : Nat, worker : Workers, slotted : BOOLEAN,
   phase : Phases, have : ArtifactKinds \cup {"nothing"},
   committed : BOOLEAN, verdict : Verdicts, failure : FailureClasses]

\* down: not running; booting: start() has swept expired leases; recovering: it
\* has listed the checkpoints to requeue; up: dispatcher and heartbeat run.
ProcessStates == {"down", "booting", "recovering", "up"}

JobsOf(t) == {j \in Jobs : TaskOf[j] = t}
Waiting(j) == status[j] \in WaitingStatuses
Active(j) == status[j] \in ActiveStatuses
Settled(j) == status[j] \in TerminalJobStatuses
Terminal(t) == taskStatus[t] \in TerminalTaskStatuses
Canceling(j) == cancelRequested[TaskOf[j]]

\* Mutant: the lease version is not compared.
FencedByOwner(c) == owner[c.job] = c.worker

\* _claimed_job: the row still carries the id, token, version and owner that
\* the claim was given.
Fenced(c) == owner[c.job] = c.worker /\ version[c.job] = c.version

Init ==
  /\ status = [j \in Jobs |-> "queued"]
  /\ stage = [j \in Jobs |-> "queued"]
  /\ owner = [j \in Jobs |-> None]
  /\ version = [j \in Jobs |-> 0]
  /\ timer = [j \in Jobs |-> "fresh"]
  /\ account = [j \in Jobs |-> None]
  /\ conv = [j \in Jobs |-> None]
  /\ urls = [j \in Jobs |-> FALSE]
  /\ consumed = [j \in Jobs |-> FALSE]
  /\ attempts = [j \in Jobs |-> [g \in AttemptGroups |-> 0]]
  /\ error = [j \in Jobs |-> "none"]
  /\ due = [j \in Jobs |-> TRUE]
  /\ ready = [j \in Jobs |-> {}]
  /\ accountLease = [j \in Jobs |-> None]
  /\ taskStatus = [t \in Tasks |-> "queued"]
  /\ cancelRequested = [t \in Tasks |-> FALSE]
  /\ completed = [t \in Tasks |-> FALSE]
  /\ process = [w \in Workers |-> "up"]
  /\ plan = [w \in Workers |-> {}]
  /\ adoptable = {}
  /\ fresh = Workers
  /\ claims = {}
  /\ disruptions = 0

-----------------------------------------------------------------------------
(* What the transactions share.                                            *)

\* A disturbance of the environment; the behaviours examined have at most
\* MaxDisruptions of them.
Disturb(kind) ==
  /\ kind \in Disruptions
  /\ disruptions < MaxDisruptions
  /\ disruptions' = disruptions + 1

Group(sg) == IF sg \in DownloadStages THEN "download"
             ELSE IF sg \in SaveStages THEN "save" ELSE "generate"

Budget(g) == CASE g = "generate" -> GenerateBudget
               [] g = "download" -> DownloadBudget
               [] g = "save"     -> SaveBudget

\* should_switch_claimed_account: every retryable failure makes a generating
\* job leave its account, a recovering job only leaves an account to verify.
ShouldSwitch(sg, e) ==
  IF sg \in DownloadStages \cup SaveStages THEN e = "account"
  ELSE e \in {"transient", "account", "timeout"}

\* Mutant: the first failed image fails the task.
AggregatedStatusFailFast(t, cancel, st, sg) ==
  LET js == JobsOf(t) IN
  IF \E j \in js : st[j] = "failed" THEN "failed"
  ELSE IF \A j \in js : st[j] \in TerminalJobStatuses THEN
    IF cancel THEN "canceled" ELSE "success"
  ELSE "running"

\* _aggregate_task: the status of task t given cancel_requested and the
\* statuses st and stages sg of all jobs.
AggregatedStatus(t, cancel, st, sg) ==
  LET js == JobsOf(t) IN
  IF \A j \in js : st[j] \in TerminalJobStatuses THEN
    IF cancel THEN "canceled"
    ELSE IF \A j \in js : st[j] = "success" THEN "success" ELSE "failed"
  ELSE IF \E j \in js : sg[j] \in SaveStages THEN "saving"
  ELSE IF \E j \in js : st[j] = "retry_wait" THEN "retrying"
  ELSE IF \E j \in js : st[j] \in ActiveStatuses THEN "running"
  ELSE "queued"

\* _aggregate_task: whether completed_at is set, given that it was.
AggregatedCompletion(t, cancel, st, was) ==
  LET js == JobsOf(t) IN
  IF \A j \in js : st[j] \in TerminalJobStatuses THEN TRUE
  ELSE IF cancel \/ \E j \in js : st[j] = "failed" THEN FALSE
  ELSE was

Aggregate(ts, st, sg) ==
  /\ taskStatus' = [t \in Tasks |->
       IF t \in ts THEN AggregatedStatus(t, cancelRequested[t], st, sg)
       ELSE taskStatus[t]]
  /\ completed' = [t \in Tasks |->
       IF t \in ts
       THEN AggregatedCompletion(t, cancelRequested[t], st, completed[t])
       ELSE completed[t]]

\* Resumption clears completed_at before it aggregates.
Reopen(t, st, sg) ==
  /\ taskStatus' = [taskStatus EXCEPT
       ![t] = AggregatedStatus(t, cancelRequested[t], st, sg)]
  /\ completed' = [completed EXCEPT
       ![t] = AggregatedCompletion(t, cancelRequested[t], st, FALSE)]

\* Move job j to status st and stage sg and aggregate its task.
MoveJob(j, st, sg) ==
  /\ status' = [status EXCEPT ![j] = st]
  /\ stage' = [stage EXCEPT ![j] = sg]
  /\ Aggregate({TaskOf[j]}, status', stage')

\* The slot row of job j that carries the token and version of a claim.
ReleasedSlot(j, v) ==
  [accountLease EXCEPT ![j] =
     IF @ # None /\ @.version = v THEN None ELSE @]

\* Mutant: the account slot is forgotten.
EndLeaseKeepingSlot(j, v) ==
  /\ owner' = [owner EXCEPT ![j] = None]
  /\ timer' = [timer EXCEPT ![j] = "fresh"]
  /\ UNCHANGED <<version, account, accountLease>>

\* lease_owner, lease_token, lease_expires_at, heartbeat_at := NULL, and
\* _release_account_lease for a claim of version v.
EndLease(j, v) ==
  /\ owner' = [owner EXCEPT ![j] = None]
  /\ timer' = [timer EXCEPT ![j] = "fresh"]
  /\ accountLease' = ReleasedSlot(j, v)
  /\ UNCHANGED <<version, account>>

Replace(c, d) == claims' = (claims \ {c}) \cup {d}
Drop(c) == claims' = claims \ {c}

\* ensure_active raises once a cancel is requested, unless the claim has begun
\* to commit a result (result_commit_started).
StopRequested(c) == Canceling(c.job) /\ ~c.committed

-----------------------------------------------------------------------------
(* claim_next_job: a dispatcher takes a waiting job.                        *)

\* The artifacts of an earlier attempt let it skip the account: slot -1.
LocalRecovery(j) == stage[j] \notin GenerationStages /\ ready[j] # {}

\* Mutant: any recovery may do without the account.
AccountlessWithoutUrls(j, candidates) ==
  account[j] = None \/ account[j] \notin candidates

\* Signed URLs are downloaded without the account they came from when that
\* account is not a candidate or must be left: slot -2.
AccountlessRecovery(j, candidates) ==
  /\ urls[j]
  /\ account[j] = None \/ account[j] \notin candidates \/ error[j] = "account"

\* A remote checkpoint binds the job to the account it is stored under.
Bound(j) ==
  /\ conv[j] # None \/ urls[j]
  /\ account[j] # None
  /\ ~ShouldSwitch(stage[j], error[j])

EligibleAccounts(j, candidates) ==
  IF Bound(j) THEN candidates \cap {account[j]}
  ELSE IF /\ ShouldSwitch(stage[j], error[j])
          /\ account[j] # None
          /\ Cardinality(candidates) > 1
       THEN candidates \ {account[j]}
       ELSE candidates

SlotFree(a, s) ==
  \A k \in Jobs : accountLease[k] # None =>
    ~(accountLease[k].account = a /\ accountLease[k].slot = s)

\* Mutant: retry_wait is not selected.
ClaimableQueued(j) == status[j] = "queued" /\ due[j] /\ ~Canceling(j)

Claimable(j) == Waiting(j) /\ due[j] /\ ~Canceling(j)

NewClaim(w, j, slotted) ==
  [job |-> j, version |-> version[j] + 1, worker |-> w, slotted |-> slotted,
   phase |-> "claimed", have |-> "nothing", committed |-> consumed[j],
   verdict |-> "none", failure |-> "hard"]

\* The guarded UPDATE, and what follows it in the transaction.  slot is the
\* slot row inserted before it, or None.
TakeJob(w, j, slot) ==
  /\ status' = [status EXCEPT ![j] = "leased"]
  /\ stage' = [stage EXCEPT ![j] = IF @ = "queued" THEN "leased" ELSE @]
  /\ owner' = [owner EXCEPT ![j] = w]
  /\ version' = [version EXCEPT ![j] = @ + 1]
  /\ timer' = [timer EXCEPT ![j] = "fresh"]
  /\ account' = IF slot = None THEN account
                ELSE [account EXCEPT ![j] = slot.account]
  /\ accountLease' = [accountLease EXCEPT ![j] = slot]
  /\ attempts' = [attempts EXCEPT ![j][Group(stage[j])] = @ + 1]
  /\ taskStatus' = [taskStatus EXCEPT ![TaskOf[j]] = "running"]
  /\ claims' = claims \cup {NewClaim(w, j, slot # None)}
  /\ UNCHANGED <<checkpointVars, error, due, cancelRequested, completed,
                 bootVars, fresh, disruptions>>

\* With every artifact file in place, or with the files of a local recovery
\* missing (local_artifact_available), which leaves the remote checkpoint.
ClaimLocal(w, j) == LocalRecovery(j) /\ TakeJob(w, j, None)

ClaimRemote(w, j) ==
  /\ LocalRecovery(j) => "missing" \in Disruptions
  /\ \E candidates \in SUBSET Accounts :
       IF AccountlessRecovery(j, candidates) THEN TakeJob(w, j, None)
       ELSE \E a \in EligibleAccounts(j, candidates), s \in Slots :
              /\ SlotFree(a, s)
              /\ TakeJob(w, j, [account |-> a, slot |-> s,
                                version |-> version[j] + 1])

ClaimNextJob(w, j) ==
  /\ process[w] = "up"
  /\ Claimable(j)
  /\ ClaimLocal(w, j) \/ ClaimRemote(w, j)

\* The account a checkpoint needs is not a candidate and the job has not
\* changed for recovery_account_timeout_seconds: recovery_account_unavailable.
FailUnrecoverable(w, j) ==
  /\ process[w] = "up"
  /\ Claimable(j)
  /\ ~LocalRecovery(j) /\ ~urls[j]
  /\ Bound(j)
  /\ Disturb("gone")
  /\ MoveJob(j, "failed", "failed")
  /\ error' = [error EXCEPT ![j] = "lost"]
  /\ accountLease' = [accountLease EXCEPT ![j] = None]
  /\ UNCHANGED <<owner, version, timer, account, checkpointVars, attempts, due,
                 cancelRequested, workerVars>>

-----------------------------------------------------------------------------
(* release_claim: a claim goes back to the queue.                           *)

ReleasedStage(j) ==
  IF stage[j] \in {"queued", "leased"} THEN "queued"
  ELSE IF stage[j] = "saving" THEN "saving"
  ELSE IF urls[j] THEN "downloading"
  ELSE IF conv[j] # None THEN "resolving"
  ELSE IF stage[j] \in {"generating", "transforming"} THEN stage[j]
  ELSE "queued"

\* refund_occupancy_claim_attempt
Refunded(j) ==
  [attempts EXCEPT ![j][Group(stage[j])] = IF @ > 0 THEN @ - 1 ELSE 0]

\* Mutant: a claim released after a cancel is queued like any other.
ReleaseClaimToQueue(c, refund) ==
  /\ Fenced(c)
  /\ MoveJob(c.job, "queued", ReleasedStage(c.job))
  /\ attempts' = IF refund THEN Refunded(c.job) ELSE attempts
  /\ due' = [due EXCEPT ![c.job] = TRUE]
  /\ EndLease(c.job, c.version)
  /\ Drop(c)
  /\ UNCHANGED <<checkpointVars, error, cancelRequested, bootVars, fresh>>

ReleaseClaim(c, refund) ==
  LET j == c.job IN
  /\ Fenced(c)
  /\ IF Canceling(j)
     THEN MoveJob(j, "canceled", "canceled") /\ UNCHANGED <<attempts, due>>
     ELSE /\ MoveJob(j, "queued", ReleasedStage(j))
          /\ attempts' = IF refund THEN Refunded(j) ELSE attempts
          /\ due' = [due EXCEPT ![j] = TRUE]
  /\ EndLease(j, c.version)
  /\ Drop(c)
  /\ UNCHANGED <<checkpointVars, error, cancelRequested, bootVars, fresh>>

\* The occupancy gate or the recovery pool closed after the claim was planned.
GateClosed(c) ==
  /\ c.phase = "claimed"
  /\ Disturb("gate")
  /\ ReleaseClaim(c, TRUE)

\* The release of GateClosed and the failure handling after it both failed.
Strand(c) ==
  /\ c.phase = "claimed"
  /\ Disturb("strand")
  /\ Replace(c, [c EXCEPT !.phase = "stranded"])
  /\ UNCHANGED <<status, stage, leaseVars, checkpointVars, retryVars, taskVars,
                 bootVars, fresh>>

\* _run_claim finds the task cancelled before it executes anything.
ReleaseCanceled(c) ==
  /\ c.phase = "claimed"
  /\ StopRequested(c)
  /\ ReleaseClaim(c, FALSE)
  /\ UNCHANGED disruptions

-----------------------------------------------------------------------------
(* execute_claim: the claim thread.  Between two of its transactions it     *)
(* calls the upstream service, the disk or the upscaler; any of these may   *)
(* fail (Raise), and every transaction is fenced.                           *)

\* Whether the thread may write: ensure_active has let it pass since its last
\* write, or returns at once because the claim commits a result.
Running(c) ==
  /\ c.phase = "cleared" \/ (c.phase = "running" /\ c.committed)
  /\ Fenced(c)
Formatting(c) == c.phase = "formatting" /\ Fenced(c)

\* ensure_active: is_cancel_requested is read in a transaction of its own, so a
\* cancel may still come between it and the write it allows.
EnsureActive(c) ==
  /\ c.phase = "running" /\ Fenced(c)
  /\ ~c.committed /\ ~StopRequested(c)
  /\ Replace(c, [c EXCEPT !.phase = "cleared"])
  /\ UNCHANGED <<status, stage, leaseVars, checkpointVars, retryVars, taskVars,
                 bootVars, fresh, disruptions>>

\* The image a claim resumes from, given the artifacts found on disk.
Resumable(j, found) ==
  IF stage[j] = "saving" /\ "final" \in found THEN "final"
  ELSE IF "upscaled" \in found THEN "upscaled"
  ELSE IF "downloaded" \in found THEN "downloaded"
  ELSE "nothing"

\* Mutant: a file on disk is believed although no image was ever downloaded.
FilesFoundUnchecked(j, found) ==
  \/ found = ready[j] /\ UNCHANGED disruptions
  \/ \E k \in ArtifactKinds : found = ready[j] \cup {k} /\ Disturb("adopt")

\* The files on disk: those of the READY rows, fewer if some are missing, or
\* one more that a process wrote and died before recording.
FilesFound(j, found) ==
  \/ found = ready[j] /\ UNCHANGED disruptions
  \/ /\ "missing" \in Disruptions
     /\ found \subseteq ready[j] /\ found # ready[j]
     /\ UNCHANGED disruptions
  \/ /\ urls[j]
     /\ \E k \in ArtifactKinds \ ready[j] : found = ready[j] \cup {k}
     /\ Disturb("adopt")

\* A slotless claim that finds nothing invalidates the rows of the artifacts
\* and is retried (LocalArtifactRecoveryUnavailable); another one goes on, and
\* records what it found.
StartExecution(c) ==
  LET j == c.job IN
  /\ c.phase = "claimed"
  /\ Fenced(c)
  /\ ~StopRequested(c)
  /\ \E found \in SUBSET ArtifactKinds :
       /\ FilesFound(j, found)
       /\ LET have == Resumable(j, found) IN
          IF ~c.slotted /\ have = "nothing" /\ ready[j] # {}
          THEN /\ ready' = [ready EXCEPT ![j] = {}]
               /\ Replace(c, [c EXCEPT !.phase = "settling",
                                       !.verdict = "retry",
                                       !.failure = "transient"])
          ELSE /\ ready' = [ready EXCEPT ![j] =
                    IF have \in {"downloaded", "upscaled"} THEN @ \cup {have}
                    ELSE @]
               /\ Replace(c, [c EXCEPT !.phase = "running", !.have = have,
                                       !.committed = @ \/ have = "final"])
  /\ UNCHANGED <<status, stage, leaseVars, conv, urls, consumed, retryVars,
                 taskVars, bootVars, fresh>>

\* checkpoint_job: progress to stage sg.  A new attempt group is charged, and
\* the account slot is given back once the image is downloaded.
Checkpoint(c, sg) ==
  LET j == c.job
      g == Group(sg) IN
  /\ status' = [status EXCEPT ![j] = "running"]
  /\ stage' = [stage EXCEPT ![j] = sg]
  /\ attempts' = IF g # Group(stage[j]) /\ g # "generate"
                 THEN [attempts EXCEPT ![j][g] = @ + 1]
                 ELSE attempts
  /\ accountLease' = IF sg \in SaveStages THEN ReleasedSlot(j, c.version)
                     ELSE accountLease
  /\ Aggregate({TaskOf[j]}, status', stage')
  /\ UNCHANGED <<owner, version, timer, account, ready, error, due,
                 cancelRequested, bootVars, fresh, disruptions>>
  /\ Replace(c, [c EXCEPT !.phase = IF @ = "cleared" THEN "running" ELSE @])

\* Mutant: recorded URLs do not keep a claim from a new conversation.
CheckpointGeneratingAgain(c) ==
  /\ Running(c) /\ c.have = "nothing"
  /\ conv[c.job] = None /\ status[c.job] = "leased"
  /\ Checkpoint(c, "generating")
  /\ UNCHANGED <<conv, urls, consumed>>

\* Nothing to resume from: a new conversation is about to start.
CheckpointGenerating(c) ==
  /\ Running(c) /\ c.have = "nothing"
  /\ conv[c.job] = None /\ ~urls[c.job] /\ status[c.job] = "leased"
  /\ Checkpoint(c, "generating")
  /\ UNCHANGED <<conv, urls, consumed>>

\* The conversation exists upstream: its id is recorded, under the account
\* that the claim runs on.
CheckpointResolving(c) ==
  LET j == c.job IN
  /\ Running(c) /\ c.have = "nothing"
  /\ ~urls[j]
  /\ \/ status[j] = "running" /\ stage[j] = "generating"
     \/ conv[j] # None /\ status[j] = "leased"
  /\ Checkpoint(c, "resolving")
  /\ conv' = [conv EXCEPT ![j] = IF @ = None THEN account[j] ELSE @]
  /\ UNCHANGED <<urls, consumed>>

\* The image exists upstream: its URLs are recorded and the quota is spent.
CheckpointDownloading(c) ==
  LET j == c.job IN
  /\ Running(c) /\ c.have = "nothing"
  /\ \/ status[j] = "running" /\ stage[j] = "resolving"
     \/ urls[j] /\ status[j] = "leased"
  /\ Checkpoint(c, "downloading")
  /\ urls' = [urls EXCEPT ![j] = TRUE]
  /\ consumed' = [consumed EXCEPT ![j] = TRUE]
  /\ UNCHANGED conv

\* format_result, mark_quota_consumed: from here a cancel no longer stops it.
BeginCommit(c) ==
  LET j == c.job IN
  /\ Running(c)
  /\ \/ c.have = "nothing" /\ status[j] = "running" /\ stage[j] = "downloading"
     \/ c.have = "downloaded"
  /\ consumed' = [consumed EXCEPT ![j] = TRUE]
  /\ Replace(c, [c EXCEPT !.phase = "formatting", !.committed = TRUE])
  /\ UNCHANGED <<status, stage, leaseVars, conv, urls, ready, retryVars,
                 taskVars, bootVars, fresh, disruptions>>

\* record_artifact
RecordArtifact(c, kind) ==
  /\ ready' = [ready EXCEPT ![c.job] = @ \cup {kind}]
  /\ Replace(c, [c EXCEPT !.have = kind])
  /\ UNCHANGED <<status, stage, leaseVars, conv, urls, consumed, retryVars,
                 taskVars, bootVars, fresh, disruptions>>

StoreDownloaded(c) ==
  Formatting(c) /\ c.have = "nothing" /\ RecordArtifact(c, "downloaded")

CheckpointTransforming(c) ==
  /\ Formatting(c) /\ c.have = "downloaded"
  /\ status[c.job] = "leased" \/ stage[c.job] = "downloading"
  /\ Checkpoint(c, "transforming")
  /\ UNCHANGED <<conv, urls, consumed>>

StoreUpscaled(c) ==
  /\ Formatting(c) /\ c.have = "downloaded"
  /\ status[c.job] = "running" /\ stage[c.job] = "transforming"
  /\ RecordArtifact(c, "upscaled")

CheckpointSaving(c) ==
  /\ Formatting(c) \/ Running(c)
  /\ c.have = "upscaled"
  /\ Checkpoint(c, "saving")
  /\ UNCHANGED <<conv, urls, consumed>>

\* complete_job: the final artifact is on disk and becomes the result.
CompleteJob(c) ==
  LET j == c.job IN
  /\ Formatting(c) \/ Running(c)
  /\ \/ c.have = "final"
     \/ c.have = "upscaled" /\ status[j] = "running" /\ stage[j] = "saving"
  /\ IF Canceling(j) /\ taskStatus[TaskOf[j]] = "canceled" /\ ~consumed[j]
     THEN /\ MoveJob(j, "canceled", "canceled")
          /\ UNCHANGED <<consumed, ready, error>>
     ELSE /\ MoveJob(j, "success", "success")
          /\ consumed' = [consumed EXCEPT ![j] = TRUE]
          /\ ready' = [ready EXCEPT ![j] = @ \cup {"final"}]
          /\ error' = [error EXCEPT ![j] = "none"]
  /\ EndLease(j, c.version)
  /\ Drop(c)
  /\ UNCHANGED <<conv, urls, attempts, due, cancelRequested, bootVars, fresh,
                 disruptions>>

-----------------------------------------------------------------------------
(* _handle_claim_exception: the row is read, a verdict follows from it, and *)
(* a second transaction carries it out.                                     *)

\* RetryPolicy.decision: attempts left in the stage group, and not a hard
\* failure.
Retryable(j, f) ==
  f # "hard" /\ attempts[j][Group(stage[j])] < Budget(Group(stage[j]))

VerdictOn(j, f) ==
  IF Canceling(j) /\ ~consumed[j] THEN "release"
  ELSE IF /\ f = "timeout"
          /\ consumed[j] \/ stage[j] \in DownloadStages \cup SaveStages
       THEN "timeout"
  ELSE IF Retryable(j, f) THEN "retry" ELSE "fail"

\* A claim fails in any way before it formats a result, already when it is not
\* started or could not be released.  A requested cancel fails it as a local
\* error, and a claim that commits is past the runtime guard and the upstream.
MayRaise(c, f) ==
  \/ /\ c.phase \in {"claimed", "running"}
     /\ f \in Failures
     /\ f = "timeout" => ~c.committed
  \/ c.phase = "running" /\ StopRequested(c) /\ f = "hard"
  \/ c.phase = "formatting" /\ f \in Failures \cap {"transient", "hard"}

Raise(c, f) ==
  /\ Fenced(c)
  /\ MayRaise(c, f)
  /\ Replace(c, [c EXCEPT !.phase = "settling", !.failure = f,
                          !.verdict = VerdictOn(c.job, f)])
  /\ UNCHANGED <<status, stage, leaseVars, checkpointVars, retryVars, taskVars,
                 bootVars, fresh, disruptions>>

Settling(c, verdict) ==
  c.phase = "settling" /\ c.verdict = verdict /\ Fenced(c)

SettleRelease(c) ==
  /\ Settling(c, "release")
  /\ ReleaseClaim(c, FALSE)
  /\ UNCHANGED disruptions

\* schedule_retry
SettleRetry(c) ==
  LET j == c.job IN
  /\ Settling(c, "retry")
  /\ MoveJob(j, "retry_wait", stage[j])
  /\ error' = [error EXCEPT ![j] = c.failure]
  /\ due' = [due EXCEPT ![j] = FALSE]
  /\ conv' = [conv EXCEPT ![j] =
                IF ShouldSwitch(stage[j], c.failure) THEN None ELSE @]
  /\ EndLease(j, c.version)
  /\ Drop(c)
  /\ UNCHANGED <<urls, consumed, ready, attempts, cancelRequested, bootVars,
                 fresh, disruptions>>

\* fail_job, and fail_timed_out_claim
SettleFailure(c) ==
  LET j == c.job IN
  /\ Settling(c, "fail") \/ Settling(c, "timeout")
  /\ MoveJob(j, "failed", "failed")
  /\ error' = [error EXCEPT ![j] = c.failure]
  /\ due' = [due EXCEPT ![j] = @ \/ c.verdict = "timeout"]
  /\ EndLease(j, c.version)
  /\ Drop(c)
  /\ UNCHANGED <<checkpointVars, attempts, cancelRequested, bootVars, fresh,
                 disruptions>>

\* Every fenced write of a claim that lost its row fails, and the thread ends.
LoseClaim(c) ==
  /\ ~Fenced(c)
  /\ c.phase # "stranded"
  /\ Drop(c)
  /\ UNCHANGED <<status, stage, leaseVars, checkpointVars, retryVars, taskVars,
                 bootVars, fresh, disruptions>>

\* The database fails while a verdict is carried out: the future ends with an
\* exception, the claim is reaped, and the row keeps its lease.
GiveUp(c) ==
  /\ c.phase = "settling" /\ Fenced(c)
  /\ Disturb("drop")
  /\ Drop(c)
  /\ UNCHANGED <<status, stage, leaseVars, checkpointVars, retryVars, taskVars,
                 bootVars, fresh>>

-----------------------------------------------------------------------------
(* Leases, heartbeats and the sweeps of the workers.                        *)

Beating(w) ==
  {c \in claims : c.worker = w /\ c.phase # "claimed" /\ Fenced(c)}

\* _heartbeat_loop: the worker-state row, then the leases of every claim in
\* flight (overdue and stranded ones included).
Heartbeat(w) ==
  /\ process[w] = "up"
  /\ fresh' = fresh \cup {w}
  /\ timer' = [j \in Jobs |->
       IF \E c \in Beating(w) : c.job = j /\ Active(j) THEN "fresh"
       ELSE timer[j]]
  /\ UNCHANGED <<status, stage, owner, version, account, accountLease,
                 checkpointVars, retryVars, taskVars, bootVars, claims,
                 disruptions>>

\* Time passes for the lease of job j.  The heartbeat of a running process
\* keeps a held lease fresh unless the process is paused.
Held(j) == \E c \in claims : c.job = j /\ Fenced(c)

LeaseExpires(j) ==
  /\ Active(j)
  /\ timer[j] # "overdue"
  /\ IF Held(j) THEN Disturb("pause") ELSE UNCHANGED disruptions
  /\ timer' = [timer EXCEPT ![j] = IF @ = "fresh" THEN "expired" ELSE "overdue"]
  /\ UNCHANGED <<status, stage, owner, version, account, accountLease,
                 checkpointVars, retryVars, taskVars, workerVars>>

\* No heartbeat of worker w for twice the lease time.
WorkerGoesStale(w) ==
  /\ w \in fresh
  /\ IF process[w] = "up" THEN Disturb("pause") ELSE UNCHANGED disruptions
  /\ fresh' = fresh \ {w}
  /\ UNCHANGED <<status, stage, leaseVars, checkpointVars, retryVars, taskVars,
                 bootVars, claims>>

\* reclaim_expired_leases, swept by worker w: the leases that ran out and whose
\* owner is silent, or that are older than any claim may run.
Protected(w, j) == \E c \in claims : c.worker = w /\ c.job = j /\ Fenced(c)

\* Mutant: a lease of a worker that beats is never swept.
ReclaimableOfSilent(w) ==
  {j \in Jobs : /\ Active(j) /\ timer[j] # "fresh"
                /\ ~Protected(w, j) /\ owner[j] \notin fresh}

Reclaimable(w) ==
  {j \in Jobs : /\ Active(j)
                /\ timer[j] # "fresh"
                /\ ~Protected(w, j)
                /\ owner[j] \notin fresh \/ timer[j] = "overdue"}

\* Mutant: the status column is taken for the stage.
ReclaimedStageFromStatus(j) ==
  IF stage[j] = "saving" THEN "saving"
  ELSE IF urls[j] THEN "downloading" ELSE status[j]

ReclaimedStage(j) ==
  IF stage[j] = "saving" THEN "saving"
  ELSE IF urls[j] THEN "downloading"
  ELSE IF conv[j] # None THEN "resolving"
  ELSE "generating"

SweepLeases(js) ==
  /\ status' = [j \in Jobs |->
       IF j \notin js THEN status[j]
       ELSE IF Canceling(j) THEN "canceled" ELSE "queued"]
  /\ stage' = [j \in Jobs |->
       IF j \notin js THEN stage[j]
       ELSE IF Canceling(j) THEN "canceled" ELSE ReclaimedStage(j)]
  /\ owner' = [j \in Jobs |-> IF j \in js THEN None ELSE owner[j]]
  /\ version' = [j \in Jobs |-> IF j \in js THEN version[j] + 1 ELSE version[j]]
  /\ timer' = [j \in Jobs |-> IF j \in js THEN "fresh" ELSE timer[j]]
  /\ accountLease' = [j \in Jobs |-> IF j \in js THEN None ELSE accountLease[j]]
  /\ due' = [j \in Jobs |-> due[j] \/ (j \in js /\ ~Canceling(j))]
  /\ Aggregate({TaskOf[j] : j \in js}, status', stage')
  /\ UNCHANGED <<account, checkpointVars, attempts, error, cancelRequested>>

ReclaimLeases(w) ==
  /\ process[w] = "up"
  /\ Reclaimable(w) # {}
  /\ SweepLeases(Reclaimable(w))
  /\ UNCHANGED <<workerVars, disruptions>>

-----------------------------------------------------------------------------
(* Crash and restart of a worker process.                                   *)

Crash(w) ==
  /\ process[w] # "down"
  /\ Disturb("crash")
  /\ process' = [process EXCEPT ![w] = "down"]
  /\ plan' = [plan EXCEPT ![w] = {}]
  /\ claims' = {c \in claims : c.worker # w}
  /\ UNCHANGED <<status, stage, leaseVars, checkpointVars, retryVars, taskVars,
                 adoptable, fresh>>

\* start(): recover() first reclaims what expired ...
Boot(w) ==
  /\ process[w] = "down"
  /\ process' = [process EXCEPT ![w] = "booting"]
  /\ SweepLeases(Reclaimable(w))
  /\ UNCHANGED <<plan, adoptable, fresh, claims, disruptions>>

RecoveryStage(j) ==
  IF stage[j] = "saving" THEN "saving"
  ELSE IF urls[j] THEN "downloading"
  ELSE IF conv[j] # None THEN "resolving"
  ELSE "generating"

\* ... then lists the queued jobs that had progressed ...
ListRecoverable(w) ==
  /\ process[w] = "booting"
  /\ process' = [process EXCEPT ![w] = "recovering"]
  /\ plan' = [plan EXCEPT ![w] =
       {[job |-> j, stage |-> RecoveryStage(j)] :
          j \in {k \in Jobs : status[k] = "queued" /\ stage[k] # "queued"}}]
  /\ UNCHANGED <<status, stage, leaseVars, checkpointVars, retryVars, taskVars,
                 adoptable, fresh, claims, disruptions>>

\* Mutant: the row is not looked at again before it is requeued.
RequeueUnseen(w, r) ==
  /\ process[w] = "recovering"
  /\ r \in plan[w]
  /\ plan' = [plan EXCEPT ![w] = @ \ {r}]
  /\ status' = [status EXCEPT ![r.job] = "queued"]
  /\ stage' = [stage EXCEPT ![r.job] = r.stage]
  /\ due' = [due EXCEPT ![r.job] = TRUE]
  /\ UNCHANGED <<leaseVars, checkpointVars, attempts, error, taskVars, process,
                 adoptable, fresh, claims, disruptions>>

\* ... and, one transaction each, sends them back to the stage it decided on.
RequeueForRecovery(w, r) ==
  /\ process[w] = "recovering"
  /\ r \in plan[w]
  /\ plan' = [plan EXCEPT ![w] = @ \ {r}]
  /\ IF Waiting(r.job) /\ owner[r.job] = None
     THEN /\ status' = [status EXCEPT ![r.job] = "queued"]
          /\ stage' = [stage EXCEPT ![r.job] = r.stage]
          /\ due' = [due EXCEPT ![r.job] = TRUE]
     ELSE UNCHANGED <<status, stage, due>>
  /\ UNCHANGED <<leaseVars, checkpointVars, attempts, error, taskVars, process,
                 adoptable, fresh, claims, disruptions>>

\* The worker registers; an earlier process of its name must have gone silent
\* and its leases must have run out (worker identity conflict).
StartWorker(w) ==
  /\ process[w] = "recovering"
  /\ plan[w] = {}
  /\ w \notin fresh
  /\ \A j \in Jobs : owner[j] = w => timer[j] # "fresh"
  /\ process' = [process EXCEPT ![w] = "up"]
  /\ fresh' = fresh \cup {w}
  /\ UNCHANGED <<status, stage, leaseVars, checkpointVars, retryVars, taskVars,
                 plan, adoptable, claims, disruptions>>

-----------------------------------------------------------------------------
(* What API callers and time do to the rows.                                *)

\* schedule_retry's next_retry_at passes.
BecomeDue(j) ==
  /\ Waiting(j) /\ ~due[j]
  /\ due' = [due EXCEPT ![j] = TRUE]
  /\ UNCHANGED <<status, stage, leaseVars, checkpointVars, attempts, error,
                 taskVars, workerVars, disruptions>>

\* request_cancel: waiting jobs are cancelled, running ones left to notice.
RequestCancel(t) ==
  LET canceled == {j \in JobsOf(t) : Waiting(j)} IN
  /\ "cancel" \in Disruptions
  /\ ~Terminal(t) /\ ~cancelRequested[t]
  /\ cancelRequested' = [cancelRequested EXCEPT ![t] = TRUE]
  /\ status' = [j \in Jobs |-> IF j \in canceled THEN "canceled" ELSE status[j]]
  /\ stage' = [j \in Jobs |-> IF j \in canceled THEN "canceled" ELSE stage[j]]
  /\ taskStatus' = [taskStatus EXCEPT
       ![t] = AggregatedStatus(t, TRUE, status', stage')]
  /\ completed' = [completed EXCEPT
       ![t] = AggregatedCompletion(t, TRUE, status', @)]
  /\ UNCHANGED <<leaseVars, checkpointVars, retryVars, workerVars, disruptions>>

\* expire_pending_tasks: a job waited longer than the pending TTL.
ExpirePending(j) ==
  /\ ~consumed[j]
  /\ \/ status[j] = "queued" /\ stage[j] \in GenerationStages
     \/ status[j] = "retry_wait" /\ due[j]
  /\ ~Terminal(TaskOf[j]) /\ ~completed[TaskOf[j]]
  /\ Disturb("expire")
  /\ MoveJob(j, "failed", "failed")
  /\ error' = [error EXCEPT ![j] = "expired"]
  /\ owner' = [owner EXCEPT ![j] = None]
  /\ timer' = [timer EXCEPT ![j] = "fresh"]
  /\ UNCHANGED <<version, account, accountLease, checkpointVars, attempts, due,
                 cancelRequested, workerVars>>

\* resume_failed_task: failed jobs with a remote checkpoint are queued again.
CheckpointStage(j) == IF urls[j] THEN "downloading" ELSE "resolving"

ResumeFailed(t) ==
  LET resumed == {j \in JobsOf(t) : /\ status[j] = "failed"
                                    /\ urls[j] \/ conv[j] # None} IN
  /\ ~cancelRequested[t]
  /\ resumed # {}
  /\ Disturb("resume")
  /\ status' = [j \in Jobs |-> IF j \in resumed THEN "queued" ELSE status[j]]
  /\ stage' = [j \in Jobs |-> IF j \in resumed THEN CheckpointStage(j) ELSE stage[j]]
  /\ error' = [j \in Jobs |-> IF j \in resumed THEN "none" ELSE error[j]]
  /\ due' = [j \in Jobs |-> due[j] \/ j \in resumed]
  /\ attempts' = [j \in Jobs |-> IF j \in resumed
                                 THEN [attempts[j] EXCEPT !["download"] = 0]
                                 ELSE attempts[j]]
  /\ Reopen(t, status', stage')
  /\ UNCHANGED <<leaseVars, checkpointVars, cancelRequested, workerVars>>

\* A finished task whose image cannot be read is found while it is delivered
\* (_ensure_deliverable_task).  kind is the intermediate image still on disk.
RequeueUndeliverable(j, kind) ==
  LET t == TaskOf[j] IN
  /\ status[j] = "success" /\ Terminal(t)
  /\ kind \in ready[j] \cap {"downloaded", "upscaled"} \/ kind = "nothing"
  /\ kind = "nothing" => urls[j] \/ conv[j] # None
  /\ Disturb("undeliverable")
  /\ status' = [status EXCEPT ![j] = "queued"]
  /\ stage' = [stage EXCEPT ![j] =
       CASE kind = "upscaled"   -> "saving"
         [] kind = "downloaded" -> "transforming"
         [] kind = "nothing"    -> CheckpointStage(j)]
  /\ ready' = [ready EXCEPT ![j] =
       CASE kind = "upscaled"   -> @ \ {"final"}
         [] kind = "downloaded" -> @ \ {"final", "upscaled"}
         [] kind = "nothing"    -> {}]
  /\ error' = [error EXCEPT ![j] = "none"]
  /\ due' = [due EXCEPT ![j] = TRUE]
  /\ Reopen(t, status', stage')
  /\ UNCHANGED <<leaseVars, conv, urls, consumed, attempts, cancelRequested,
                 workerVars>>

\* Its URL cannot be reached, or nothing is left to recover the image from.
FailUndeliverable(j) ==
  /\ status[j] = "success" /\ Terminal(TaskOf[j])
  /\ Disturb("undeliverable")
  /\ MoveJob(j, "failed", "failed")
  /\ error' = [error EXCEPT ![j] = "lost"]
  /\ due' = [due EXCEPT ![j] = TRUE]
  /\ ready' = [ready EXCEPT ![j] = @ \ {"final"}]
  /\ owner' = [owner EXCEPT ![j] = None]
  /\ timer' = [timer EXCEPT ![j] = "fresh"]
  /\ UNCHANGED <<version, account, accountLease, conv, urls, consumed, attempts,
                 cancelRequested, workerVars>>

TimedOut(j) == status[j] = "failed" /\ error[j] = "timeout"

\* adopt_local_recovery_artifacts: the sweep lists the jobs without an artifact
\* that a file on disk could complete ...
ListAdoptable ==
  /\ "adopt" \in Disruptions
  /\ adoptable' = {j \in Jobs : /\ \/ Waiting(j) /\ stage[j] \in DownloadStages \cup SaveStages
                                   \/ TimedOut(j)
                                /\ ~Canceling(j)
                                /\ ready[j] = {}}
  /\ adoptable' # adoptable
  /\ UNCHANGED <<status, stage, leaseVars, checkpointVars, retryVars, taskVars,
                 process, plan, fresh, claims, disruptions>>

\* ... and adopts the file of each, which brings a timed-out job back.
AdoptArtifact(j, kind) ==
  /\ j \in adoptable
  /\ urls[j]
  /\ Waiting(j) \/ TimedOut(j)
  /\ Disturb("adopt")
  /\ adoptable' = adoptable \ {j}
  /\ ready' = [ready EXCEPT ![j] = @ \cup {kind}]
  /\ IF TimedOut(j)
     THEN /\ status' = [status EXCEPT ![j] = "queued"]
          /\ stage' = [stage EXCEPT ![j] =
               IF kind = "downloaded" THEN "transforming" ELSE "saving"]
          /\ due' = [due EXCEPT ![j] = TRUE]
          /\ error' = [error EXCEPT ![j] = "none"]
          /\ Reopen(TaskOf[j], status', stage')
          /\ owner' = [owner EXCEPT ![j] = None]
          /\ timer' = [timer EXCEPT ![j] = "fresh"]
     ELSE UNCHANGED <<status, stage, due, error, taskStatus, completed, owner,
                      timer>>
  /\ UNCHANGED <<version, account, accountLease, conv, urls, consumed, attempts,
                 cancelRequested, process, plan, fresh, claims>>

-----------------------------------------------------------------------------
\* The steps of the thread that holds claim c, besides GateClosed, Strand and
\* GiveUp, which are disturbances.
Execute(c) ==
  \/ StartExecution(c) \/ EnsureActive(c)
  \/ CheckpointGenerating(c) \/ CheckpointResolving(c)
  \/ CheckpointDownloading(c)
  \/ BeginCommit(c) \/ StoreDownloaded(c) \/ CheckpointTransforming(c)
  \/ StoreUpscaled(c) \/ CheckpointSaving(c) \/ CompleteJob(c)

Settle(c) ==
  \/ ReleaseCanceled(c) \/ SettleRelease(c) \/ SettleRetry(c)
  \/ SettleFailure(c) \/ LoseClaim(c)

ClaimStep(j) ==
  \E c \in claims :
    /\ c.job = j
    /\ Execute(c) \/ Settle(c) \/ \E f \in FailureClasses : Raise(c, f)

BootStep(w) ==
  \/ Boot(w) \/ ListRecoverable(w) \/ StartWorker(w)
  \/ \E r \in plan[w] : RequeueForRecovery(w, r)

WorkerStep(w) ==
  \/ Heartbeat(w) \/ ReclaimLeases(w) \/ Crash(w) \/ BootStep(w)
  \/ WorkerGoesStale(w)
  \/ \E j \in Jobs : ClaimNextJob(w, j) \/ FailUnrecoverable(w, j)

JobStep(j) ==
  \/ ClaimStep(j) \/ LeaseExpires(j) \/ BecomeDue(j) \/ ExpirePending(j)
  \/ FailUndeliverable(j)
  \/ \E k \in {"upscaled", "downloaded", "nothing"} : RequeueUndeliverable(j, k)
  \/ \E k \in ArtifactKinds : AdoptArtifact(j, k)

Next ==
  \/ \E w \in Workers : WorkerStep(w)
  \/ \E j \in Jobs : JobStep(j)
  \/ \E c \in claims : GateClosed(c) \/ Strand(c) \/ GiveUp(c)
  \/ \E t \in Tasks : RequestCancel(t) \/ ResumeFailed(t)
  \/ ListAdoptable

Spec == Init /\ [][Next]_vars

\* The scheduling the deployment provides: a thread goes on with its claim (or
\* fails), dispatchers poll, time passes, sweeps run, and a process that died
\* is started again.  No disturbance and no API call is assumed to happen.
Fairness ==
  /\ \A j \in Jobs :
       /\ WF_vars(ClaimStep(j))
       /\ WF_vars(\E w \in Workers : ClaimNextJob(w, j))
       /\ WF_vars(BecomeDue(j))
       /\ WF_vars(~Held(j) /\ LeaseExpires(j))
  /\ \A w \in Workers :
       /\ WF_vars(BootStep(w))
       /\ WF_vars(process[w] # "up" /\ WorkerGoesStale(w))
  /\ WF_vars(\E w \in Workers : ReclaimLeases(w))

FairSpec == Spec /\ Fairness

-----------------------------------------------------------------------------
(* Properties.                                                             *)

\* Every column and every in-memory claim keeps to the values the repository
\* and the worker declare for it.
TypeOK ==
  /\ status \in [Jobs -> JobStatuses]
  /\ stage \in [Jobs -> Stages]
  /\ owner \in [Jobs -> Workers \cup {None}]
  /\ version \in [Jobs -> Nat]
  /\ timer \in [Jobs -> Timers]
  /\ account \in [Jobs -> Accounts \cup {None}]
  /\ conv \in [Jobs -> Accounts \cup {None}]
  /\ urls \in [Jobs -> BOOLEAN]
  /\ consumed \in [Jobs -> BOOLEAN]
  /\ attempts \in [Jobs -> [AttemptGroups -> Nat]]
  /\ error \in [Jobs -> ErrorClasses]
  /\ due \in [Jobs -> BOOLEAN]
  /\ ready \in [Jobs -> SUBSET ArtifactKinds]
  /\ accountLease \in [Jobs -> AccountLeases \cup {None}]
  /\ taskStatus \in [Tasks -> TaskStatuses]
  /\ cancelRequested \in [Tasks -> BOOLEAN]
  /\ completed \in [Tasks -> BOOLEAN]
  /\ process \in [Workers -> ProcessStates]
  /\ plan \in [Workers -> SUBSET [job : Jobs, stage : Stages]]
  /\ adoptable \subseteq Jobs
  /\ fresh \subseteq Workers
  /\ claims \subseteq Claims
  /\ disruptions \in Nat

\* The lease columns agree with the status, so no row is lost: a job has an
\* owner exactly while it is leased or running, and no claim in memory is ahead
\* of its row.  (Every path that ends a lease must clear it: release_claim,
\* schedule_retry, fail_job, fail_timed_out_claim, complete_job and the sweep.)
OwnedIffActive ==
  /\ \A j \in Jobs : owner[j] # None <=> Active(j)
  /\ \A c \in claims : c.version <= version[c.job]

\* Two claim threads never both hold the same job: whatever crashed, paused,
\* was reclaimed or was resumed, at most one claim still passes the fence.
OneClaimPerJob ==
  \A c, d \in claims : c.job = d.job /\ Fenced(c) /\ Fenced(d) => c = d

\* An account slot belongs to one active job, under its current lease version:
\* no slot outlives the lease that took it, and no two jobs share one
\* (image_account_leases, _clear_orphan_account_leases).
SlotsBelongToLeases ==
  \A j \in Jobs : accountLease[j] # None =>
    /\ Active(j)
    /\ accountLease[j].version = version[j]
    /\ accountLease[j].account = account[j]
    /\ \A k \in Jobs \ {j} : accountLease[k] # None =>
         \/ accountLease[k].account # accountLease[j].account
         \/ accountLease[k].slot # accountLease[j].slot

\* A thread that generates or waits for an image upstream holds a slot of the
\* account it uses, and one that post-processes the image has given it back.
SlotHeldWhileUpstream ==
  \A j \in Jobs : status[j] = "running" =>
    /\ stage[j] \in {"generating", "resolving"} => accountLease[j] # None
    /\ stage[j] \in SaveStages => accountLease[j] = None

\* The task row follows its jobs through every interleaving of workers and API
\* calls: terminal exactly when all jobs are, completed_at set exactly then,
\* success only if every image succeeded, canceled only on request.
TaskFollowsJobs ==
  \A t \in Tasks :
    /\ Terminal(t) <=> \A j \in JobsOf(t) : Settled(j)
    /\ completed[t] <=> Terminal(t)
    /\ taskStatus[t] = "success" => \A j \in JobsOf(t) : status[j] = "success"
    /\ taskStatus[t] = "canceled" => cancelRequested[t]

\* Recovery never resumes from something that is not there: an artifact row
\* presupposes recorded URLs, recorded URLs presuppose the spent quota and the
\* other way round, and a claim commits only a paid image.
CheckpointsInOrder ==
  /\ \A j \in Jobs : /\ ready[j] # {} => urls[j]
                     /\ urls[j] <=> consumed[j]
  /\ \A c \in claims : c.committed => consumed[c.job]

\* The worker's own account of the row holds: as long as a claim passes the
\* fence, its job is active, and it formats, settles or saves only what the
\* stage of the row says it may.
ClaimMatchesRow ==
  \A c \in claims : Fenced(c) =>
    /\ Active(c.job)
    /\ c.phase = "claimed" => status[c.job] = "leased"
    /\ c.have \in {"downloaded", "upscaled"} => c.have \in ready[c.job]

\* Without a pause that silences a process, nothing takes a job away from the
\* thread that works on it: not a cancel, a sweep, a restart of another worker,
\* an expiry, nor an operation of the API.
ClaimsKeepTheirRows == \A c \in claims : Fenced(c)

\* Leases are sound: active jobs have an owner, each at most one claim that
\* passes its fence, and account slots belong to leases that are in force.
LeasesAreSound == OwnedIffActive /\ OneClaimPerJob /\ SlotsBelongToLeases

\* A thread that works has behind it what it relies on: the slot it works
\* upstream with, what it remembers of the row, and the row itself.
ClaimsAreBacked == SlotHeldWhileUpstream /\ ClaimMatchesRow /\ ClaimsKeepTheirRows

\* A paid image is never generated again: once the quota of a job is spent, no
\* restart, retry or resume leads it to another generating checkpoint.
PaidNeverRegenerated ==
  [][\A j \in Jobs : consumed[j] =>
       ~(status'[j] = "running" /\ stage'[j] = "generating")]_vars

\* A claim that lost its row never gets it back, even when the same worker
\* takes the same job again (lease_version only grows).
LostClaimsStayLost ==
  [][\A c \in claims : ~Fenced(c) => ~Fenced(c)']_vars

\* A canceled job stays canceled, whatever listed it before (a starting process,
\* the local-recovery sweep) or resumes its task.
CanceledJobsStay ==
  [][\A j \in Jobs : status[j] = "canceled" => status'[j] = "canceled"]_vars

\* What expire_pending_tasks announces: expiry only touches jobs that never
\* started real work, and leaves what got past generating to recovery.
ExpirySparesStartedWork ==
  [][\A j \in Jobs : error[j] # "expired" /\ error'[j] = "expired" =>
       stage[j] \in GenerationStages]_vars

\* The refinement: a job is held by the owner of an active row, and a ticket is
\* what the fence compares.
Checkpoints == [conv : Accounts \cup {None}, urls : BOOLEAN, consumed : BOOLEAN,
                ready : SUBSET ArtifactKinds]
holder == [j \in Jobs |-> IF Active(j) THEN owner[j] ELSE None]
closed == [j \in Jobs |-> Settled(j)]
record == [j \in Jobs |-> [conv |-> conv[j], urls |-> urls[j],
                           consumed |-> consumed[j], ready |-> ready[j]]]
TicketOf(c) == [job |-> c.job, worker |-> c.worker, term |-> c.version]
tickets == {TicketOf(c) : c \in claims}

Ownership == INSTANCE JobOwnership WITH
  term <- version, Records <- Checkpoints,
  Blank <- [conv |-> None, urls |-> FALSE, consumed |-> FALSE, ready |-> {}]

\* The queue is a lock with fencing tickets: while a job is held, only the claim
\* of its current version records a checkpoint, gives it back or settles it;
\* callers, sweeps and starting workers touch only jobs nobody holds or whose
\* lease they end, and a claim that was lost stays so.
OwnershipHolds == Ownership!Spec /\ LostClaimsStayLost

\* Every account slot that is taken is given back, crashes included.
SlotsAreFreed ==
  \A j \in Jobs : accountLease[j] # None ~> accountLease[j] = None

\* Every task settles, again and again, however often it is resumed.
TasksSettle == \A t \in Tasks : []<>Terminal(t)

\* A cancelled task becomes terminal.
CancelSettles == \A t \in Tasks : cancelRequested[t] ~> Terminal(t)
=============================================================================
