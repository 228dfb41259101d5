# Verification of gptimage2api

This directory holds TLA+ models of the program in `../src`, the TLC runs that
check them on small instances, and TLAPS proofs of their most important
properties for instances of every size.  `PROJECT.json` maps every definition
to the lines it models; this file explains the models.

1. The system  2. The models  3. The runs  4. The proofs  5. Findings
6. What is not modelled, and the plan

## 1. The system

gptimage2api is one Python process per container (FastAPI under uvicorn,
restarted by the container runtime: `docker-compose.yml:8`, `restart:
unless-stopped`).  Several such processes may share one PostgreSQL database.
An API caller submits an image task; the task is split into one job per image;
jobs wait in database tables; worker threads claim them, drive an upstream
conversation with one of a pool of accounts, store the image, and complete the
job.  Everything that must survive a crash is in the tables, and every process
runs the same sweeps over them.  Around this core live the services that keep
the accounts (their credentials, registration, checks, imports), the user
(keys, quota), the results (delivery, storage, call records, statistics) and
the installation itself (settings, proxies, prompts, backups, restores,
clean-up).

### Components

| Component | Source (`src/services/`) | State it keeps | Operations | Interacts with | Module |
|---|---|---|---|---|---|
| Image queue rows | `image_queue/repository.py`, `models.py`, `types.py` | tasks, jobs, account leases, artifacts, worker states | claim, checkpoint, settle, heartbeat, reclaim, cancel, expire, resume, adopt | everything, through transactions with row locks | `ImageQueue` |
| Claim execution | `image_task_service.py` (`execute_claim`), `protocol/conversation.py` | what a thread holds in memory: image, commit flag, conversations it opened | resume, checkpoint, store, complete, clean up upstream | queue rows, files, upstream | `ImageQueue`, `ImageGeneration` |
| Queue worker | `image_queue/worker.py` | futures, claims in flight, stranded claims, threads | dispatch, run, heartbeat, drain, stop, start | queue rows, gates, restore | `ImageQueue`, `WorkerLifecycle` |
| Startup recovery | `image_queue/recovery.py` | the rows it has listed | reclaim, list, requeue | queue rows while others run | `ImageQueue` |
| Admission and gates | `image_queue/resource_controller.py`, `scheduler.py` | latches, readings, failure window | probe, decide, record a failure | worker, submission, registration | `ResourceGate` |
| Idempotent submission | `image_queue/idempotency.py`, `repository.py:915`, `protocol/durable_image.py` | keys, aliases, input files | submit, replay, sweep files | queue rows | `Submission` |
| Delivery and accounting | `image_delivery.py`, `image_task_service.py`, `worker.py:1729` | delivery status, response marks, quota marks | read, acknowledge, make again, fail, charge, purge | queue rows, files, account pool | `ImageDelivery` |
| User quota | `quota_service.py` | usage, reservations of a day | reserve, share, commit, cancel, reconcile | submission | `UserQuota` |
| Account pool | `account_service.py` | account rows, views of processes, exchanges in flight | exchange, merge and save, charge, mark, remove | worker, requests, other processes | `AccountCredentials` |
| Account verification | `account_service.py:3935` ff. | pending checks of rejected accounts | report, check, apply, clean up | account pool | `AccountVerification` |
| Account operations | `account_service.py:5000`, `account_processing.py` | batch jobs and their reports | start, work, report, prune | account pool | `AccountOperations` |
| Remote imports | `account_import_job.py`, `sub2api_service.py`, `cpa_service.py` | one job per source | reserve, work, fail, delete, recover | account pool | `ImportJobs` |
| Registration | `register_service.py`, `register_config_store.py`, `register/` | runtime lease, mailboxes, pending accounts | run, register, verify, hand over, release | account pool | `AccountRegistration`, `RegistrationRunner`, `MailboxCodes` |
| Bounded task runner | `bounded_task_runner.py` | reservations, queue and threads per run, counters | reserve, commit, run, close, drain, open again | registration, genbox push | `BoundedTaskRunner` |
| Proxy groups | `proxy_service.py`, `proxy_management_service.py` | groups, references, slots of nodes | edit, delete, acquire, wait, release | image requests, imports | `ProxyGroups` |
| User keys | `auth_service.py` | keys in the database, views of processes | edit, authenticate, note the use | API requests | `AuthKeys` |
| Image storage | `image_storage_service.py` | items, tombstones, local files, WebDAV copies | save, delete, synchronise, list | queue results, gallery | `ImageStorage` |
| Editable file tasks | `editable_file_task_service.py` | a second task table, staged and published files | submit, run, publish, delete, recover | upstream | `EditableFiles` |
| Call records | `call_record_service.py`, `log_service.py` | one record per call | append, finalize, delete | image tasks, dashboard | `ImageCalls` |
| Dashboard projection | `dashboard_metrics_service.py`, `storage/call_record_repository.py` | hourly counts, cursor | synchronise, rebuild, degrade | call records | `DashboardProjection` |
| Backups | `backup_service.py` | lease, shared status row, archives | schedule, run, rotate, recover | restore | `BackupJobs` |
| Restore | `backup_service.py`, `api/app.py` | maintenance scope | stop all, replace, start again, give up | every service | `RestoreMaintenance` |
| Retention cleanup | `retention_cleanup_service.py`, `storage/coordination_repository.py` | leader and run leases, wake revision | lead, wait, run, notify | settings, call records, images | `RetentionCleanup` |
| Prompt library | `prompt_library_service.py` | snapshot in memory and database, settings | refresh, store, adopt, switch sources | registry upstream | `PromptLibrary` |
| Retry policy, failure classes | `image_queue/retry_policy.py`, `image_failure.py` | none | classify, budget | worker | classes in `ImageQueue` |
| The rest | translation of protocols, HTTP routes, OAuth login, self update, genbox push, utilities, web console, deployment | little or none | - | - | not modelled, see 6 |

### What is hard

* **Leases and time.** A claim is a lease; a paused process may write after the
  sweep has given its job away.  Every write is fenced by owner, token and
  version (`_claimed_job`).  The same question returns at the runtime lease of
  the registration, the leases of the coordination table and the backup lease.
* **Crash between writes.** An image is paid for, downloaded, saved and charged
  in separate transactions and two stores.  Recovery decides from a few columns
  where to resume, and a wrong decision pays twice or resumes from nothing.
  Files and their rows are written, renamed and deleted in steps.
* **Stale reads.** Startup recovery, local adoption, sweeps of files, checks of
  accounts, authentication and every save of a merged view read in one
  transaction and act in another.
* **Several parties, one obligation.** The end of a task and its submission
  both finalize a record; claim, dispatcher and reader all charge a result;
  first holder, sharer and restart all settle a reservation.
* **Scarce resources returned on many paths**: account slots, proxy slots,
  reserved mailboxes, units of a bounded runner.
* **Starting and stopping.** A restore, a usurped identity, a drain and a crash
  stop the same threads in different ways, and starts overlap them.

`PROJECT.json` lists these hazards at the lines where they bite, with the
property that would catch each, or the reason none does.

### What makes each component correct

| Component | Properties |
|---|---|
| Image queue | `LeasesAreSound`, `OwnershipHolds`: a job has an owner iff it is active, at most one claim passes the fence, slots belong to current leases, the queue is a lock with fencing tickets; `TaskFollowsJobs`, `CanceledJobsStay`; `SlotsAreFreed`, `TasksSettle`, `CancelSettles` |
| Claim execution | `CheckpointsInOrder`, `ClaimsAreBacked`, `PaidNeverRegenerated`; `ConversationsAreKept` |
| Queue worker | `ClaimsAreAttended` |
| Gates, submission, quota | `SubmissionsAreSafe`, `QuotaIsSafe`, `OpensAfterCalm`; `ServicesSettle` |
| Delivery and accounting | `ResultsAreAccounted` |
| Accounts | `CredentialsAreKept`, `ChecksJudgeTheirReport`, `OperationsReport`, `ImportsAreSafe` |
| Registration | `RegistrationHolds`, `LostRunsStop`, `CodesAreOwn` |
| Runner | `RunnerIsSound`, `ClosingEnds` |
| Proxies, keys | `ProxyRoutesHold`, `KeysHold` |
| Files and storage | `FilesFollowTasks`, `OldDeletesSpareNewVersions` |
| Records and statistics | `CallsAgree`, `CallsAreProjected` |
| Backups, restore, retention, prompts | `ReportedBackupExists`, `OneBackupAtATime`, `RestoreIsSafe`, `SettingsAreApplied`, `LibraryIsWhole` |

Each is stated, with the code it is about, above its definition.

## 2. The models

Each component has a module of its own, parameterised by CONSTANTS.  The
`MC...` modules give them finite instances for TLC; the `..._proofs` modules
extend them and hold the theorems.

| Module | Role |
|---|---|
| `ImageQueue` | the queue rows, the claim threads, crash and recovery, API callers |
| `JobOwnership` | the abstract specification that `ImageQueue` implements: a lock with fencing tickets for each job |
| `MCImageQueue` | instances and symmetry of `ImageQueue` (runs `crash`, `api`, `siblings`, `cancel_wedge`, `expiry`) |
| `ImageQueueLease_proofs` | types, leases, fences, and the refinement of `JobOwnership` |
| `ImageQueueClaims_proofs` | checkpoints and recovery; what claims in memory know about their rows; tasks and jobs, cancellation |
| `BoundedTaskRunner`, `MCBoundedTaskRunner`, `BoundedTaskRunner_proofs` | the thread pool with bounded admission, its instances (run `runner`), its proofs |
| `ImageGeneration`, `ImageDelivery`, `ImageStorage`, `EditableFiles`, `ImageCalls`, `RestoreMaintenance`, `WorkerLifecycle`, `DashboardProjection`, `RetentionCleanup`, `PromptLibrary` | ten parts of the image side |
| `MCImageParts` | their instances (run `images`) |
| `ImageResults_proofs`, `ImageParts_proofs` | the proofs of the library, the delivery, the conversations, the call records and their projection; of the other five, and of all together |
| `AccountCredentials`, `AccountVerification`, `AccountOperations`, `AccountRegistration`, `RegistrationRunner`, `MailboxCodes`, `ProxyGroups`, `AuthKeys` | eight parts around the accounts |
| `MCAccountParts` | their instances (run `accounts`) |
| `AccountCredentials_proofs`, `AccountParts_proofs` | the proofs of the credentials; of the other seven, and of all together |
| `Submission`, `UserQuota`, `ImportJobs`, `ResourceGate`, `BackupJobs` | five services that must come to an end |
| `MCServiceParts`, `ServiceParts_proofs` | their instances (run `services`) and the proofs of all five |

The parts share no variables.  Where one needs another, it holds the other's
side in the coarsest form that can disturb it, and its header says so: the
queue is one worker that writes a file and then commits in `ImageDelivery`,
a row with a fence in `ImageGeneration`, three states in `RestoreMaintenance`.
Image jobs never run on a bounded runner
(`docs/requirements/0001-gptimage2api-integration.md:104`).

### ImageQueue: state

The variables `status` to `completed` are columns, named after them.  `claims`
is the set of claims that threads hold in memory: what `claim_next_job`
returned (job, version, worker, whether it has a slot) and the local state of
`execute_claim` (`have`, the most advanced image in hand; `committed`, its
`result_commit_started`; `phase`, how far it is).  `process`, `plan` and
`adoptable` hold what a starting process and the local-recovery sweep have read
and not yet acted upon, and `fresh` which worker rows have a recent heartbeat.

### ImageQueue: actions

| Code | Actions |
|---|---|
| `claim_next_job` | `ClaimNextJob` (local artifacts, signed URLs without account, or a slot of a candidate account), `FailUnrecoverable` |
| `release_claim` and its callers | `GateClosed`, `ReleaseCanceled`, `SettleRelease` |
| `execute_claim` | `StartExecution`, `EnsureActive`, `CheckpointGenerating`, `CheckpointResolving`, `CheckpointDownloading`, `BeginCommit`, `StoreDownloaded`, `CheckpointTransforming`, `StoreUpscaled`, `CheckpointSaving`, `CompleteJob` |
| `_handle_claim_exception` | `Raise` (the verdict, read in one transaction), then `SettleRelease`, `SettleRetry`, `SettleFailure` (carried out in another), or `GiveUp` |
| `_retain_stranded_claim` | `Strand` |
| `_claimed_job` returning nothing | `LoseClaim` |
| `heartbeat_claims`, `reclaim_expired_leases` | `Heartbeat`, `ReclaimLeases`; time is `LeaseExpires`, `WorkerGoesStale`, `BecomeDue` |
| process crash and `start()` | `Crash`, `Boot`, `ListRecoverable`, `RequeueForRecovery`, `StartWorker` |
| `request_cancel`, `expire_pending_tasks`, `resume_failed_task` | `RequestCancel`, `ExpirePending`, `ResumeFailed` |
| `requeue_undeliverable_result`, `fail_undeliverable_result` | `RequeueUndeliverable`, `FailUndeliverable` |
| `adopt_local_recovery_artifacts` | `ListAdoptable`, `AdoptArtifact` |

Each action is one database transaction or one step of a thread between two.
Transactions lock the rows they touch, so they are atomic; nothing else is:
whatever the code reads in one transaction and uses in another is a variable
of the model and others may act in between.

### Abstractions

* Time has no numbers.  A lease is `fresh`, `expired` or `overdue` (older than
  any claim may run); a waiting job is due or not.  Any timing is possible.
* The lease token is a fresh UUID per claim.  The pair (owner, version) stands
  for it: every claim increments the version.
* Upstream identifiers are merged: `conv` stands for conversation, file and
  sediment ids and names the account they belong to; `urls` is whether image
  URLs are recorded.
* Errors are classes.  The option to retry with another account is on, its
  default.  The order in which due jobs are claimed is left open, and so is
  the set of candidate accounts of each claim.
* The sweep treats all reclaimable rows in one step; expiry takes one job per
  step.  The fallback that resolves URLs again after a failed download repeats
  a checkpoint and is a stutter.
* Unreachable code is kept where it is an `IF` branch (`complete_job`'s cancel
  branch: `TaskFollowsJobs` shows no active job has a terminal task) and left
  out where it would be an action: claims executed in a subprocess
  (`_should_run_claim_in_subprocess` returns False), claiming a job for whose
  foreign artifacts no remote checkpoint exists (artifact rows presuppose
  URLs: `CheckpointsInOrder`), and the deletion of inactive account leases
  (there are none: the theorem `NoSlotOutlivesItsLease`).
* Tasks start enqueued (`Submission`).  Delivery marks and quota accounting do
  not influence the modelled columns (`ImageDelivery`).
* A missing local artifact is retried whatever the attempt budget says
  (`worker.py:1624`); it ends because the rows of the missing artifacts are
  invalidated, after which the job resumes from its remote checkpoint.

### Disturbances

What the environment does wrong is an action guarded by `Disturb(kind)`: kind
must be in `Disruptions` and a behaviour has at most `MaxDisruptions` of them.
The proofs do not depend on the bound.  `crash`: a process dies with its
claims.  `pause`: a process is silent although it runs, so that leases expire
or its worker row goes stale.  `gate`: the gate closes behind a claim.
`drop`: the database fails while a verdict is carried out.  `strand`: a claim
can be neither run nor released.  `gone`: the account of a checkpoint
disappears.  `expire`, `resume`, `undeliverable`, `adopt`: API calls and sweeps
that rewrite rows.  `cancel` (once per task) and `missing` (a recovery file is
gone, which costs the job an attempt) bound themselves.

### BoundedTaskRunner

An action is a critical section of `_lock`, or a step outside it that others
can observe: `queue.get` (`TakeTask`, `PollTimesOut`), the semaphore
(`AcquireSlot`, `Leave`), the callback (between `Begin` and `Finish`), and the
calls of `on_cancel` (`TellNext` by a closing call, `Tell` by a thread).

| State | Code |
|---|---|
| `generation`, `closed`, `mode` | `_generation`, `_closed`, the mode of each `_RunState`; `unborn` before it exists |
| `place`, `run` | the state of each reservation and of the work committed to it, and its `_RunState` |
| `accepted`, `active`, `slots` | `_accepted`, `_active`, the value of `_worker_slots` |
| `unfinished` | `unfinished_tasks` of each queue, what `queue.join` waits for |
| `at`, `task` | the program counter of each thread, and what it popped |
| `caller` | the frame of each closing call: whom it must tell, what it joins |

Abstractions: the queue is a set, as nothing depends on its order, and the
timeout of `get` may end whenever the queue is empty.  The loop that empties a
queue is one step, since a thread that pops during it needs the lock to go on.
A `shutdown_cancel_pending_and_wait` from one of the runner's own threads does
not wait and is the operation `shutdown`; no caller drains it from there.  A
callback that raises ends like one that returns.  The two lock-free statements after a callback (`task_done` after the counters)
are one step with them: only `join` reads the difference.  Bounds: `MaxRuns`,
and each task and each closing call happens once.

### The other parts

Every module lists its state with the code it stands for, and every action
names its function.  This section says what is behind each model, what it
leaves out, and what reading the code for it brought to light beyond the
properties (not findings: no document says otherwise).

**`ImageGeneration`** (`claims` and `conversations`).  What one execution of a
job starts upstream, records and deletes, while a reclaimed claim may run on
beside the next.  Left out: several images of one conversation (after the
first is persisted the rest raise), egress slots (`ProxyGroups`), and the Codex
path, which only tests of accounts take.  A conversation that was found by
searching the account's list is excepted, since nobody recorded it; so are
those of an account that was switched away from, and the first conversation
that a blocked mode leaves behind.  A row with ids but without a conversation is
generated again.  A claim that failed deletes the files it wrote after it may
have lost its row (`image_task_service.py:2109`).

**`ImageDelivery`**.  A finished result is read, acknowledged, made again when
its file is lost, charged to its account with a bounded number of attempts, and
swept.  Files are named by their content, so a result made again heals its
path, and one made again between the selection and the removal of a row is
removed with it.  A result whose accounting is exhausted is never purged.
`mark_response_attempted` checks nothing; an account remembers 256 idempotency
keys.

**`ImageStorage`**.  One path of the library under saves, deletions,
compression, clean-up, synchronisation and listing.  Generations and operation
ids are only compared, so a fresh one is the least number that nobody holds.
A synchronisation uploads without the item guard; a failed upload leaves the
local file of its save; a listing in between leaves an item that is rolled
back.

**`EditableFiles`**.  One task, its directories and threads.  A resubmission
between the recorded end and `_inflight.discard`, a database error in the first
update, a second submission's delayed `_start_task` and a thread that cannot be
started (`editable_file_task_service.py:404`, which leaves the task in
`_inflight`) are behaviours of the model, and excepted by the properties where
they leave work undone until a restart.
`delete_pending` is not cleared by a resubmission.

**`ImageCalls`**.  The records and the monitor of the requests about one task.
`LookAgain` stands for the waiter of a protocol call.  A protocol call that
times out, or is logged after the callback, stays pending; a stream closed
early is logged as a success or not at all; a crash between the terminal commit
and the callback leaves a record queued.  The windows of the monitor and
`text_review` are left out.

**`DashboardProjection`**.  Records get sequence numbers, the projection
follows them by a cursor of generation and sequence.  `OneWriter` says that no
two transactions of records overlap, as on SQLite; on PostgreSQL they may
commit in another order than that of their numbers, and then the cursor passes
one over, as `untaken` records.  One process keeps the projection.  A reset of
the state row alone passes over calls.

**`WorkerLifecycle`**.  Dispatcher, heartbeat and executors of one manager, and
those who start and stop it.  One caller at a time.  A stranded claim keeps
`stop()` from draining; a second process with the same identity stops the first.

**`RestoreMaintenance`**.  A restore stops every service, replaces data, and
starts them again or gives up.  Requests admitted earlier go on.  After a
failed restore the queue stays down by design and `_stopped` stays set; the
undo and the end switch a disabled registration on.

**`RetentionCleanup`**.  Schedulers elect a leader and wait; a cleanup runs
under a second lease; a saved setting notifies.  Every process works by a copy
of the settings: an automatic cleanup reads the hours from it without a reload
(`config.py:593-604`), so a leader in another process may follow a notice by
the old hours and put the next run off.  The hours of a manual cleanup are
chosen before it has the lease, and a domain whose cleanup raised counts as
done.  So `SettingsAreApplied` promises that a notice is followed by an automatic
cleanup, and its hours only in the process that notified.  A leader does not look
at its lease again; the shared "running" stays set after a crash.

**`PromptLibrary`**.  Snapshot in memory and in the database, settings in both.
A registry publishes while it is read.  The settings of a dropped source are
not saved again; a verified snapshot without the bundled source is seeded at
every start.

**`AccountCredentials`**.  Processes with views of one account, saves by
compare-and-swap with merge, exchanges of refresh tokens, slots that follow a
rotated token.  A credential is a number.  Upstream takes a refresh token once
(one that does not rotate is not modelled).  `upToDate` stands for a revision
that equals the stored one.  A crash between exchange and save loses the
token; a deletion that runs out of attempts leaves slots under an old token.

**`AccountVerification`**.  Report, check and verdict for one account.  That a
report for images is checked in the end is not stated.  The removal of
abnormal accounts deletes one that was reset in between
(`account_service.py:2605`).

**`AccountOperations`**.  Batch deletion, update, exchange and synchronisation
over a pool that changes meanwhile.  An update through a stale view reports
accounts that were removed; a deletion whose target is gone says so; a report
idle for an hour is pruned.

**`AccountRegistration`**.  A registration task, its mailbox, the pending file
and the hand-over.  One App process (`docs/adr/0005`).  The pending file keeps
500 rows and drops the oldest; a reset of the pool clears outside the lock;
the failure of an alias overwrites the state of its login; a crash between an
exchange and its record loses the tokens.

**`RegistrationRunner`**.  The runner and its runtime lease in several
processes.  A `start()` while the runner leaves its loop is lost, and so is one
in a process that does not own the lease.

**`MailboxCodes`**.  Codes in an inbox that a login shares with its aliases.
Every message has a date (one without passes the boundary), and times are
exact (they have seconds).  A stale login session validates its code again.

**`ProxyGroups`**.  Groups, what refers to them, and slots of nodes with
waiters.  A waiter uses the limits it saw when it began.  With a slot in hand the
constructor of the backend may fail twice: at the session, where it gives the slot
back, and at the clearance, which resolves the proxy again (`ClearanceFails`).  The
group may be gone by then, nobody has a backend to release, and the slot stays taken
(`conversation.py:3006-3009`); `leaked` counts those.  After an early failure of the
connection a request asks for the fallback proxy; the head of the loop then
clears what it asked for and what it has used (`conversation.py:2413-2414`), so it
retries by its ordinary route, as often as the connection fails -- the proxy page
says it retries once by the fallback (`Proxy.vue:115`).  `Begun` does the same, up to
`MaxTries`; `Route` has the fallback all the same.  An import that wrote
over other changes brings a reference to a deleted group back, and is excepted.
The `proxy` of the registration is not among the references that are checked.

**`AuthKeys`**.  Keys under edits and uses, from views that are stale.  Names,
roles and the administrator's key are left out; reloads inside a call are one
step with it.

**`Submission`**.  Requests with shared identifiers, advisory locks in sorted
order, the backlog, input files and their sweep.  A key found only by the
first look of `_submit` is not bound as an alias.

**`UserQuota`**.  The day's file under reservations, shares and restarts.  The
day is read before the lock, so midnight may wipe usage (`crossed`).  A start
reconciles by the idempotency key only.  `consume()` has no caller.

**`ImportJobs`**.  One job per source of two providers, one process.  A store
that fails while a failure is recorded leaves the job active, and imports of
that source blocked until a restart.

**`ResourceGate`**.  The latch over the occupancy of the machine, its walls and
the failures of the upstream.  Memory and swap are compared as the CPU is and
left out.

**`BackupJobs`**.  Processes with a lease and one shared row.  `LeaseDies` says
that the lease ends with its process (PostgreSQL) or not (SQLite).  A write of
the row that fails leaves "running" behind, in memory or in the row; a
restored row says so too, until the next start.

## 3. The runs

| Run | Instance | Shows |
|---|---|---|
| `crash` | 1 job, 2 workers, 2 accounts with one slot each, budgets 2/1/1; transient, hard and account failures; crash, pause, drop, gate and resume, 2 in all; fair | leases, fences and slots survive every interleaving of two workers with lost and late claims; the queue implements `JobOwnership`; slots come back and the task settles |
| `api` | 1 job, 2 workers, 2 accounts; all failure classes; cancel, missing files, crash, drop, strand and the API disturbances, 2 in all | recovery has its source, upstream work holds a slot, nothing is paid twice, no held job is taken away, no stale list revives a canceled job |
| `siblings` | 2 jobs of one task, 1 worker, 1 slot; hard failures; cancel, resume, crash and gate; fair | aggregation over siblings; a cancelled task settles |
| `cancel_wedge`, `expiry` | 1 job, transient failures; cancel, or one expiry | violations: see Findings |
| `runner` | 3 tasks and 2 closing calls one after the other, or 2 tasks and 2 calls that overlap; 1 thread, room for one more, 2 runs, all operations; fair | reservations, keepers and closing calls over overlapping runs |
| `runner_drain` | 1 task, 1 draining call | violation: see Findings |
| `images` | the ten image parts, each in its turn and five of them in two settings: two or three of each actor, one or two of each fault | one property for each part |
| `accounts` | the eight account parts, each in its turn and four of them in two settings: two or three of each actor (two processes, two tasks, two addresses, two nodes, two keys) | one property for each part |
| `services` | the five services, each in its turn and each in two settings or three: 3 of 4 submissions, 3 quota requests or two and a night, 2 imports, 2 callers of the gate, 2 processes with backups; fair | the safety of each part (gate and backups in one), and that all come to an end |
| `backup_stuck` | 2 processes, a lease that outlives its owner, one crash | violation: see Findings |
| `projection_shrinks` | 2 calls, 1 syncer | violation: see Findings |

**One part at a time.**  `images`, `accounts` and `services` choose a part in
the initial state (`part`); only that part moves, the others stay in a fixed
initial state.  The parts share no variable, so a behaviour of the composition
is one of a part, and the states are summed and not multiplied.

**Settings.**  A large part is checked in several settings: each has all the actions of
the part but lets one of its dimensions grow while another stays small, and together they
take every action.  In the services `absent` names what stays away.

| Part | Settings |
|---|---|
| credentials | `flight`: two threads of one process exchange; `rotation`: one thread of each of two processes does.  In both one of the processes has an image under way, and both save, look again and delete |
| verification | `verification`: restarts, and the checks of the watcher; `recheck`: a manual check, and one reporter at a time |
| operations | `operations`: an entry lapses while accounts leave; `imports`: an account comes back |
| registration | `registration`: all mailboxes, without a reset of the pool; `reset`: the mailboxes of the pool, without the scheduler |
| proxies | one request tries again, the other one gives up after its first attempt |
| keys | one process refreshes its view step by step, both change and use keys from theirs |
| delivery | `delivery`: one loss (a crash, a deletion, a lost file), and the dispatcher charges as well; `redelivery`: two losses, and the worker and the readers charge without failing; invalid rows are swept |
| conversations | `generation`: two conversations and every reconnection; `modes`: a third one, one connection for each claim and no search in the account's list |
| storage | `storage`: operations meet; `deaths`: one operation at a time, which may be cut short |
| projection | `projection`: no mishap, two records; `mishaps`: one record gets beyond its start, and a schema is reset or a synchronisation fails |
| retention | `retention`: schedulers and manual cleanups; `lapses`: schedulers that lose their leases and have no deadline of their own, without a stale view of an administrator.  In both one process saves the settings |
| submission | `s3` (the identifiers of `s1` in opposite roles) or `s4` (the key of `s2`) stays away |
| quota | `r2` stays away (`r1` is like it), or `r3`, or the night does |
| imports, backups | no restart, or no failure of the store; no crash, or no fault of the row |
| gate | no wall rises, or the load stays below the second threshold |

What only both dimensions at once could bring about is not explored by TLC.  It is covered by the
theorems of section 4, which are about the whole next-state relation of each part and
know no setting; for the properties under fairness there is no such theorem.

Deadlock checking is off in these runs, as a part rests when
its bounds are used up, in the runs of the runner, which
rests once it is closed, and in `projection_shrinks`; it is on in the runs of
the queue and in `backup_stuck`.

**Why the bounds are enough.**  The fence compares one claim with one row, and a
third claim of a job relates to the second as the second to the first, so two
workers and two disturbances cover the orders of losing, reclaiming and
returning.  Two attempts in a budget distinguish the first, a retried and an
exhausted attempt.  Two accounts with one slot each distinguish staying,
switching and contending.  In the parts two of each actor make every race of
two; a third is there where a property speaks of a third (the conversation of a
second claim beside one left over, the thread of another process).  One fault
more would repeat what the first did to a state that is already covered.  For
the runner, two runs are needed for threads that overlap, and one task more than
the capacity for contention.  Where tasks, calls, processes or accounts are alike, the
instances (`MCNext`) take the first of them first, which changes no behaviour but
in its names.  Between them the passing runs take every action.  The theorems below remove the bounds for the properties they name.

Each property is tested by mutated operators, defined next to those they change
(comment "Mutant"): with one in place, TLC finds the property violated.

### Fairness

`ImageQueue.Fairness` assumes what the deployment provides: a thread goes on
with its claim or fails (`ClaimStep`; its runtime guard bounds every upstream
call), dispatchers poll and eventually claim a due job, delays pass, a lease
nobody holds runs out, sweeps run in each heartbeat loop, and a process that
died is started again (`BootStep`, the restart policy of the container).
Fairness is weak, per job and per worker, as each is a loop of its own.
Nothing is assumed about disturbances or API calls.

`BoundedTaskRunner` assumes that threads are scheduled, callbacks end, and a
closing call goes on.  `ClosingEnds` excepts a drained run that is held up by
a later one (`HeldUp`): threads of the old run that never got a unit of the
semaphore compete with those of the new one, and `start()` may open it while
they wait.

`MCServiceParts.PartsFairSpec` gives fairness to the part at work: submissions
and quota requests, but for the one that stays away, are made and go on; files
age and the sweep passes; a process that starts reconciles its reservations; imports work
and their stores are constructed at every start; time passes, the dispatcher
probes and decides; a process goes on with its backup.  Crashes, faults
and midnights are not fair.  The parts in `images` and `accounts`
are checked for safety only.  Symmetry is used only without liveness.

## 4. The proofs

All theorems are of the form `Spec => [](...)`, `[][...]_vars` or a refinement,
and hold for any number of jobs, tasks, workers, processes, threads, requests
and disturbances: bounds of the runs appear in them as constants of any value.
They assume only what the `ASSUME`s of the modules say: that constants which
stand for "nobody" are not one of the somebodies (`QueueAssumption`,
`RetentionAssumption`, `RunnerAssumption` of the registration,
`ProxyAssumption`, `StorageAssumption`, `BackupAssumption`, and the "none" of
`CredentialAssumption`, which is no thread), that a thread belongs to a process
(`CredentialAssumption`), that the lock of the backlog is none of the identifiers and "no task" none of the submissions
(`SubmissionAssumption`), that the dispatcher is one of the gate's callers
(`GateAssumption`), that every job has a task and every task a job, that sets whose size is counted are finite (the accounts of
`OperationsAssumption` and the workers of `StorageAssumption` among them), that
budgets and bounds are numbers, and that the bundled source is a source
(`LibraryAssumption`).

**The queue.**

* *Types* (`TypeCorrect`): one lemma per group of actions.
* *Leases* (`LeaseInvariance`, `LeasesHold`).  That at most one claim passes the
  fence is not inductive: a claim changes its phase, so two claims with one
  version could become equal or differ.  `LeaseInv` adds that job and version
  identify a claim (`UniqueClaims`) and, from `OwnedIffActive`, that no claim is
  ahead of its row.  Every action is shown to be a step of a three-way protocol
  (`Keeps`, `Ends`, `Takes`), and the invariant is proved for the protocol.
  From it follow `OwnershipFollowsStatus`, `NoSlotOutlivesItsLease`,
  `OneFencedClaim` and the action property `LostClaimsNeverReturn`.
* *Refinement* (`QueueImplementsOwnership`, `OwnershipIsKept`).  Under the mapping of
  `ImageQueue` (a job is open, held by its owner under its version, or closed)
  every action is a step of `JobOwnership` or a stutter.  The three-way protocol
  gives which one; the fence and `UniqueClaims` give that the ticket is the
  one of the term.
* *Tasks* (`TaskAggregatesItsJobs`, `CanceledIsFinal`).  A transaction leaves a
  task alone, recomputes it, or starts it; the fence supplies that a claim that
  writes has an open job (from `LeaseInv`), so an open job is never hidden
  behind a terminal task.
* *Checkpoints* (`CheckpointInvariance`, `RecoveryHasItsSource`, `QuotaIsSpentOnce`).
  `CheckpointsInOrder` needs three facts more: late stages have URLs, a running
  generation has none, and what a claim has in hand or a starting process has
  planned has URLs.
* *Claims* (`BackInvariance`, `UpstreamHoldsASlot`, `ClaimsKnowTheirRows`,
  `OnlyPausesLoseRows`, `ClaimsHaveBacking`).  What a claim remembers of its row
  stays true as long as it passes the fence, and it passes the fence until a
  process is paused past its lease: plans of recovery and lists of adoption
  are of rows that no living claim holds.

**The bounded runner** (`RunnerInvariance`, `RunnerSound` and its parts).
`WorkInv` says in whose hands each task is; from it every action is shown to
move one task, or none, across the borders of the sets that the counters stand
for, and a close to move exactly what it subtracts.  The capacity bound then
gives `ReservedMeansAdmitted`, since a pending reservation holds a unit that
its queue has not used, and the semaphore gives `ConcurrencyIsBounded`.
`ShutdownLeavesNothing` needs that a closing call has seen every thread its run
ever gets, and that nothing enters the queue of a closed run.

**Around the accounts** (`AccountParts_proofs`, and `AccountCredentials_proofs` for the
credentials).

* *User keys* (`KeysInvariance`, `KeysAlwaysHold`): whatever was read under the
  revision that is still stored is what is stored, for views and for loads
  under way (`Genuine`); so a write that names that revision starts from the
  edits.
* *Lost runs* (`LostRunsEnd`): where a run is in its loop bounds how many
  registrations it has submitted since it last held the lease (`RunWithin`); a
  run that ends, or has none left, has none in flight.
* *Codes* (`CodesAreTheirOwn`): times in the inbox are below the clock, so what
  arrives after a registration asked is not older than its boundary; addresses
  of registrations at work are apart (`AddressesAreApart`); what can still come
  for a registration is its last code or one that was under way when it asked
  (`NothingElseComes`).
* *Proxies* (`RoutesHold`): the slots counted at a node are exactly those its
  holders hold and those that leaked (`NodeIsCounted`), and a waiter knows limits its group had
  (`RequestIsRouted`).
* *Batch operations* (`ReportsAreTrue`): at each stage what is left, at work and
  reported make up the targets (`WorkLeft`, `ToReport`), an entry that is kept
  counts all but the work that is left (`Counts`), and a target that is not in
  the pool has left it since the request (`Lefts`).
* *Registrations* (`RegistrationsHold`): as long as nothing was disturbed, a
  mailbox in use is held by one registration or its end was not reported
  (`HoldersAreApart`), and the newest tokens are recorded, in the pool, or about
  to be recorded (`RecordsAreNewest`, `NewestIsKept`); always, what a
  registration is about to forget has arrived (`ForgetsWhatArrived`).
* *Checks of an account* (`ChecksAreFair`): a check that turns to an exchange or
  is about to condemn has had the credentials it holds rejected (`Grounded`),
  and no report is ahead of the row; from this every step keeps the three
  promises about the row (`RowPromises`), which the action properties state.
* *Credentials* (`CredentialsKept`): what a process is about to save is its view,
  and differs from the row it last read exactly as the operation says
  (`SavesHold`), so a save that merges loses no result; an open flight has one
  owner, who is in the middle of the exchange (`FlightsHaveOwners`); only refused tokens
  are called so (`RefusalsAreKnown`).  Tokens are numbers that only grow, one in
  a thread's hands is nowhere else (`TokensGrow`, `NewTokensAreNew`), and as long
  as no save ran out of attempts the newest is in the row or in one hand
  (`NewestIsStored`).  Aliases lead in one step to a token without one
  (`AliasesEnd`), which makes `Resolve` one step, and a slot in use is counted
  once, under the token its process has, or will have once the save under way
  has moved it (`SlotsFollow`).  None of this is inductive alone: the slot moves
  with the aliases, the aliases with the save, and the save is right because of
  who owns the flight.
* *Together* (`AccountsTypeCorrect`, `AccountsSafe`): a behaviour of the composition
  is one of each part (`AccountPartsAreBehaviors`).  The types that the
  invariants do not contain, and the bounds of the runs (which the actions keep,
  whatever they are), are proved beside them.

**Around the images** (`ImageParts_proofs`, and `ImageResults_proofs` for storage, delivery,
conversations, call records and projection).

* *The worker* (`ClaimsStayAttended`): a claim that the dispatcher holds is in
  flight; the stop event is set only when nothing is left to do or by a failure
  that keeps the dispatcher from claiming.
* *Restore* (`RestoreStaysSafe`): no backup is made once the archive is fetched
  (`BackupsKeepOut`); the guard found a stopped queue without claims and nothing
  starts it before the end (`QueueStaysDown`); the leases of a dump are marked,
  or the restore is just about to mark them (`DumpIsMarked`).
* *Editable files* (`FilesStayWithTasks`): directories are of the row
  (`FilesOfTheRow`), the task is neither deleted nor done under a thread
  that works on it (`ThreadHasTheRow`), a thread is in flight (`InFlight`), and
  somebody is about to work on an unfinished task (`SomeoneWillWork`).
* *Retention* (`SettingsGetApplied`): the wake revision counts the notices; what
  a scheduler has cleaned was cleaned by a run that saw at least the revision it
  read before its own (`RunsFollowWhatTheySaw`), so nothing is due only when the
  last notice was followed (`NoticesAreFollowed`); a process's copy is no older
  than what it notified (`CopiesFollow`), nor are the hours of its cleanup that saw
  the last notice (`HoursAreOwn`); without a lost lease whoever runs holds it
  (`RunsHoldTheLease`).
* *Prompts* (`LibraryStaysWhole`): what is stored and in memory is whole
  (`Whole`), the database is not behind; what a refresh holds is of one revision
  no older than the library's (`RefreshSound`); settings in memory and in the
  database differ only in sources that a revision has dropped
  (`SettingsSound`).
* *The dashboard's projection* (`CallsStayProjected`): numbers of the sequence
  are given out in order, and with one writer the record that is being written
  has the greatest (`CallsInv`); the board counts only records that have shown
  and none that is kept beyond its cursor (`BoardInv`); what a synchronisation
  has loaded or counted is true while the generation lasts, and one that is
  fresh continues the projection there is (`SyncSound`).  `Top` picks a
  greatest number; that there is one is proved by the well-foundedness of the
  order of the numbers (`TopExists`).
* *Call records* (`CallsComeToAgree`): a record comes last and never of a call
  that is shown as running (`RecordsComeLast`); a finalizer that goes on knows
  that the task has ended (`FinalizersKnow`); once it has, each record that is
  tied to the task, and the monitor of the call that made it, shows the end or
  has a finalizer on its way (`QueuedIsTied`, `FirstIsFinished`, `EarlyIsFound`).
* *The image library* (`NewVersionsAreSpared`): a deletion holds the tombstone it
  wrote, and the stored one with its operation is that one (`UseHolds`); the
  item a tombstone names holds nothing newer than the tombstone (`NamesOlder`).
  That generations and operations are fresh is a lemma: finitely many numbers
  are in use, so a least unused one exists (`Fresh`).
* *Results* (`ResultsStayAccounted`): a key the account knows was charged once,
  and a charge on its way to the row is one of them (`ChargesInv`); an accounted
  row was charged, a success is consumed, a job that is made again is queued,
  and once the removal of the task has begun nothing is left to charge
  (`RowHolds`).  From it every step keeps what the two action properties say.
* *Conversations* (`ConversationsStayKept`): a claim that was given a
  conversation knows no other (`Resumes`); a conversation that a claim started
  itself is open, and recorded if the row names it (`OwnIsOpen`); no two claims
  share one unless it was adopted from the account's list (`OwnersApart`); the
  row under a claim names what the claim was given or has recorded
  (`RowIsKnown`).  So what a failed claim deletes is never what the row names.
  That a claim starts no conversation too many follows from how many it can
  have started at each of its steps (`Submits`).
* *Together* (`ImagesTypeCorrect`, `ImagesSafe`): a behaviour of the composition is
  one of each part (`ImagePartsAreBehaviors`).  Types need the invariants: what
  a synchronisation uploads is a version there is because it was read from the
  file (`CopiesFit`), the item guard names whoever holds it (`LockFits`), the
  conversation an event names is one of upstream's (`GenFits`), the rows a
  reader checks are of tasks (`DeliveryFits`).

**The services** (`ServiceParts_proofs`).

* *Submissions* (`SubmissionsSafe`): whoever counts or commits holds the locks
  of its identifiers and of the backlog (`LocksHeld`), and so no task carries
  one of its identifiers (`NothingMatches`) and the room it counted is still
  there (`RoomCounted`); an identifier names one task (`OneCarrier`), the task
  that was answered carries the key (`KeysCarried`), and the sweep has in hand
  only files of submissions that ended without a task (`OnlyEndedSwept`).
* *Quota* (`QuotaSafe`): requests that hold one reservation share it
  (`HandlesShare`); what is not in the file has not been charged on its day
  (`BillsFollowFile`); a request before its commit has its reservation in the
  file, charged or expired (`ReservedOrCharged`).  Units are counted by
  cardinality, so that the limit holds after a reservation needs that the units
  of a request are as many as it asks for, and apart from all others.
* *Imports* (`ImportsSafe`): no two sources have open jobs (`OneOpenJob`), what
  a worker has read is a job of the current process (`ReadsCurrent`), ids of
  imports that did not begin are nowhere (`NewIdsUnused`).  Each worker's
  accounts are left, fetched or failed, later added, skipped or failed
  (`Counted`), which makes a completed job account for all of them.  Every
  write of a row is shown to let jobs only go on (`JobsGoOn`), and from that
  follow the two action properties.
* *The gate* (`GateOpensAfterCalm`): the time for which the load was low is no
  longer than the time for which every decision found it low.
* *Backups* (`BackupReportedExists`): no archive is in the bucket twice, and as
  long as no lease lapsed under its owner, the archive of a process that lists
  or rotates is the newest, and not among those it removes (`LeaseProtects`).
* *Together* (`ServicesTypeCorrect`, `ServicesSafe`): a behaviour of the
  composition is one of each service (`PartsAreBehaviors`), so what is proved of
  the services holds of what the run checks.

Three attempts at these proofs changed what is claimed.  A request that carries
the identifiers of two others that share none may find its reservation charged
for an identifier that is not its own, so `SuccessIsCharged` is stated for
requests without such a bridge (`Unbridged`).  The first look of a submission
may read the key before its task is there and then answer with the task that
its client id names (`FoundByClientId` in `KeysKeepTheirTask`).  And without
the dispatcher among its callers the gate has nobody to probe for, which the
assumption excludes.

Four more changed the models.  `MaxTokens` keeps a mailbox from being claimed
again, but does not bound the tokens of a registration under way, as its type
said.  The slots at a proxy node and the submissions of a claim were typed by
the numbers of requests and of conversations, which nothing assumes to be
finite; a claim submits at most once more than connections may fail early
(`MaxTries`).  And an account that is moved to a token it has had before leaves
that token without an alias (`MovedAliases`, from
`_move_account_runtime_token_locked`), as `Resolve` needs.

**Only model-checked.**  Liveness is out of the prover's reach: `SlotsAreFreed`,
`TasksSettle`, `CancelSettles`, `ClosingEnds` and `ServicesSettle` stay with
TLC.  Every other property of a passing run is a theorem.

## 5. Findings

1. **A cancelled task may stay open** (`cancel_wedge`).  A job whose quota is
   spent fails transiently after a cancel: `_handle_claim_exception` releases
   only unpaid jobs, so it goes to `retry_wait`, and `claimable_job_statement`
   (`repository.py:440`) never selects jobs of a task with `cancel_requested`.
   Expiry skips paid jobs and a second cancel changes nothing.  The comment at
   `repository.py:3331-3333` relies on a worker that observes the cancel.
2. **Expiry reaches started work** (`expiry`).  The comment at
   `repository.py:1010-1014` limits expiry to jobs that never got past
   generating; the condition at line 1027 expires every unpaid overdue
   `retry_wait` job, one at stage `resolving` included.
3. **A draining shutdown may strand work and hang** (`runner_drain`).  A thread
   whose `queue.get` timed out looks at the mode under the lock, not at the
   queue again (`bounded_task_runner.py:383-387`).  If a commit and
   `shutdown(wait=True)` come in between, it leaves: the work never starts, its
   `on_cancel` is never called although line 51 says so, and `queue.join()`
   never returns.  `RegisterService.shutdown` calls it so, without a timeout
   (`register_service.py:1161`).  Closing without draining is not affected.
4. **A restart within the lease stops scheduled backups** (`backup_stuck`).  On
   SQLite a lease outlives its process by up to 300 s.  A process that starts
   again in that time takes its dead predecessor for "another process"
   (`backup_service.py:431-432`), leaves the shared row at "running", and
   `run_scheduled_backup_if_needed` returns at once until the next restart or a
   manual backup.
5. **The dashboard shrinks after deletions** (`projection_shrinks`).
   `docs/storage-architecture.md:39` says that deletions do not shrink the
   30-day projection.  They do not rotate the generation, but the next update
   of any record does (`call_record_repository.py:330`), and the rebuild that
   follows counts only the records that are left.

## 6. What is not modelled, and the plan

Not modelled because it is I/O, text or a library: streaming and parsing of
upstream answers, the translation of the OpenAI and Anthropic protocols, HTTP
routes, log formatting, OAuth login pages, the web console, schema migrations,
deployment scripts.  `PROJECT.json` names each part with the reason.  Of parts
that are modelled, what is left out is said in section 2.

Planned:

1. Models: several images and conversations per claim in `ImageGeneration`, the
   change of day in `reserve` in `UserQuota`, the self update.
