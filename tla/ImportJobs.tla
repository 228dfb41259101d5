----------------------------- MODULE ImportJobs -----------------------------
(***************************************************************************)
(* Remote account imports: services/account_import_job.py and its adapters *)
(* sub2api_service.py and cpa_service.py.  A job lives on its source, in   *)
(* the configuration row of the provider; rows are updated atomically, but *)
(* update() reads the job and writes it back in two steps.  The request    *)
(* that reserves a job and the worker thread it starts are one actor, the  *)
(* job.  Credentials, events and error texts are left out, the accounts of *)
(* a job are counted.  A restart runs the constructors of both stores      *)
(* before a request is served.                                             *)
(***************************************************************************)
EXTENDS Naturals, FiniteSets

CONSTANTS
  Sources,      \* servers and pools
  Providers,    \* sub2api and cpa
  ProviderOf,   \* source -> provider
  Imports,      \* import requests, also the job ids
  SourceOf,     \* import -> the source it reads
  Total,        \* accounts a request selects
  MaxRestarts,  \* bound: process restarts
  MaxStoreFailures \* bound: failed accesses to the configuration rows

NoJob == [id |-> "none"]
Retried == "sub2api"  \* the provider whose worker records a failed record

ASSUME ImportAssumption ==
  /\ ProviderOf \in [Sources -> Providers]
  /\ SourceOf \in [Imports -> Sources]
  /\ "none" \notin Imports
  /\ Total \in Nat \ {0}
  /\ MaxRestarts \in Nat /\ MaxStoreFailures \in Nat

VARIABLES
  cfg,          \* source -> absent, present or gone, with its job
  actor,        \* import -> its request or worker thread
  booted,       \* providers whose store this process has constructed
  restarts, storeFailures

importVars == <<cfg, actor, booted, restarts, storeFailures>>

JobStatuses == {"pending", "running", "completed", "failed"}
JobOf(s) == cfg[s].job
HasJob(s) == JobOf(s) # NoJob

IsActive(job) == job # NoJob /\ job.status \in {"pending", "running"}

Upper(a, b) == IF a >= b THEN a ELSE b

Steps == {"new", "reserved", "begin", "fetch", "checkpoint", "saving", "adding",
          "unsaved", "added", "syncing", "sync", "finish", "empty", "failing",
          "ended", "lost", "dead"}
\* Steps that are a call of update().
UpdateSteps == {"begin", "checkpoint", "saving", "unsaved", "added", "syncing",
                "finish", "empty", "failing"}
LiveSteps == Steps \ {"new", "ended", "lost", "dead"}

NewActor == [at |-> "new", read |-> NoJob, done |-> 0, left |-> Total,
             good |-> 0, bad |-> 0, sum |-> [added |-> 0, skipped |-> 0]]

JobRecords ==
  [id: Imports, status: JobStatuses, completed: Nat, failed: Nat,
   added: Nat, skipped: Nat] \cup {NoJob}

ImportTypeOK ==
  /\ cfg \in [Sources -> [is: {"absent", "present", "gone"}, job: JobRecords]]
  /\ actor \in [Imports -> [at: Steps, read: JobRecords, done: Nat, left: 0..Total,
                  good: 0..Total, bad: Nat, sum: [added: Nat, skipped: Nat]]]
  /\ booted \in SUBSET Providers
  /\ restarts \in 0..MaxRestarts
  /\ storeFailures \in 0..MaxStoreFailures

ImportInit ==
  /\ cfg = [s \in Sources |-> [is |-> "absent", job |-> NoJob]]
  /\ actor = [j \in Imports |-> NewActor]
  /\ booted = Providers
  /\ restarts = 0
  /\ storeFailures = 0

Go(j, step) == actor' = [actor EXCEPT ![j].at = step, ![j].read = NoJob]
Quiet == UNCHANGED <<booted, restarts, storeFailures>>

-----------------------------------------------------------------------------
(* The sources *)

AddSource(s) ==
  /\ booted = Providers
  /\ cfg[s].is = "absent"
  /\ cfg' = [cfg EXCEPT ![s].is = "present"]
  /\ UNCHANGED actor /\ Quiet

IdleSource(s) == cfg[s].is = "present" /\ ~IsActive(JobOf(s))

DeleteSource(s) ==
  /\ booted = Providers
  /\ IdleSource(s)
  /\ cfg' = [cfg EXCEPT ![s] = [is |-> "gone", job |-> NoJob]]
  /\ UNCHANGED actor /\ Quiet

-----------------------------------------------------------------------------
(* Starting a job *)

NoneActive(s) == \A t \in Sources : ~IsActive(JobOf(t))

\* start_import and the coordinator's reserve; a conflict is an error answer.
ReserveImport(j) ==
  LET s == SourceOf[j] IN
  /\ booted = Providers
  /\ actor[j].at = "new"
  /\ cfg[s].is = "present"
  /\ NoneActive(s)
  /\ cfg' = [cfg EXCEPT ![s].job = [id |-> j, status |-> "pending", completed |-> 0,
                                    failed |-> 0, added |-> 0, skipped |-> 0]]
  /\ Go(j, "reserved")
  /\ Quiet

\* The group mapping or the start of the thread fails, or the thread runs.
StartWorker(j) ==
  /\ actor[j].at = "reserved"
  /\ \/ Go(j, "begin")
     \/ Go(j, "failing")
  /\ UNCHANGED cfg /\ Quiet

-----------------------------------------------------------------------------
(* update(): the job is read, then merged and written back if it is ours *)

OwnJob(j) == HasJob(SourceOf[j]) /\ JobOf(SourceOf[j]).id = j

ReadJob(j) ==
  /\ actor[j].at \in UpdateSteps
  /\ actor[j].read = NoJob
  /\ IF HasJob(SourceOf[j]) /\ (actor[j].at \in {"begin", "failing"} => OwnJob(j))
       THEN actor' = [actor EXCEPT ![j].read = JobOf(SourceOf[j])]
       ELSE Go(j, "ended")
  /\ UNCHANGED cfg /\ Quiet

\* next_import_job_failed_total
FailedTotal(job, n) == Upper(job.failed, n)

\* Mutant: the job's failures are counted from what this worker saw.
FailureFromMemory(j, job) == [job EXCEPT !.status = "failed", !.failed = 1]

\* fail(): one failure on top of what is persisted.
OneMoreFailure(j, job) ==
  [job EXCEPT !.status = "failed", !.failed = FailedTotal(job, job.failed + 1)]

Progress(j, job) ==
  [job EXCEPT !.completed = actor[j].done, !.failed = FailedTotal(job, actor[j].bad)]

Merged(j, job) ==
  LET step == actor[j].at IN
  CASE step = "begin" -> [job EXCEPT !.status = "running"]
    [] step \in {"checkpoint", "saving", "added"} -> Progress(j, job)
    [] step = "syncing" -> job
    [] step = "empty" -> [Progress(j, job) EXCEPT !.status = "failed"]
    [] step = "unsaved" ->
         [Progress(j, job) EXCEPT !.status = "failed", !.completed = Total]
    [] step = "failing" -> OneMoreFailure(j, job)
    [] step = "finish" ->
         [Progress(j, job) EXCEPT !.status = "completed", !.completed = Total,
                   !.added = actor[j].sum.added, !.skipped = actor[j].sum.skipped]

FetchNext(j) ==
  CASE actor[j].left > 0 -> "fetch"
    [] actor[j].left = 0 /\ actor[j].good = 0 -> "empty"
    [] OTHER -> "saving"

AfterWrite(j) ==
  CASE actor[j].at \in {"begin", "checkpoint"} -> FetchNext(j)
    [] actor[j].at = "saving" -> "adding"
    [] actor[j].at = "added" -> "syncing"
    [] actor[j].at = "syncing" -> "sync"
    [] OTHER -> "ended"

WriteJob(j) ==
  /\ actor[j].read # NoJob
  /\ IF OwnJob(j)
       THEN /\ cfg' = [cfg EXCEPT ![SourceOf[j]].job = Merged(j, actor[j].read)]
            /\ Go(j, AfterWrite(j))
       ELSE /\ Go(j, "ended")
            /\ UNCHANGED cfg
  /\ Quiet

\* A row that cannot be read or written: the guard of the worker records one
\* failure, a sub2api worker first records the account again, as failed, and a
\* failure while failing leaves the job as it is.
StoreFails(j) ==
  /\ actor[j].at \in UpdateSteps
  /\ storeFailures < MaxStoreFailures
  /\ storeFailures' = storeFailures + 1
  /\ CASE actor[j].at = "failing" -> Go(j, "lost")
       [] actor[j].at = "checkpoint" /\ ProviderOf[SourceOf[j]] = Retried ->
            \E step \in {"checkpoint", FetchNext(j)} :
              actor' = [actor EXCEPT ![j].at = step, ![j].read = NoJob,
                                     ![j].done = @ + 1, ![j].bad = @ + 1]
       [] OTHER -> Go(j, "failing")
  /\ UNCHANGED <<cfg, booted, restarts>>

-----------------------------------------------------------------------------
(* The worker between its updates *)

\* One account is fetched or fails; the gate decides whether to persist.
RecordFetch(j) ==
  /\ actor[j].at = "fetch"
  /\ \E ok \in BOOLEAN, persist \in BOOLEAN :
       LET a == [actor[j] EXCEPT !.left = @ - 1, !.done = @ + 1,
                   !.good = IF ok THEN @ + 1 ELSE @, !.bad = IF ok THEN @ ELSE @ + 1]
       IN actor' = [actor EXCEPT ![j] =
            [a EXCEPT !.at = IF persist THEN "checkpoint"
                             ELSE CASE a.left > 0 -> "fetch"
                                    [] a.left = 0 /\ a.good = 0 -> "empty"
                                    [] OTHER -> "saving"]]
  /\ UNCHANGED cfg /\ Quiet

AccountsSaved(a, added, invalid) ==
  [a EXCEPT !.at = "added", !.good = @ - invalid, !.bad = @ + invalid,
            !.sum = [added |-> added, skipped |-> a.good - added - invalid]]

\* add_account_items: each account is added, already there or invalid; or the
\* pool cannot be written and every account has failed.
AddAccounts(j) ==
  LET a == actor[j] IN
  /\ a.at = "adding"
  /\ \/ \E added \in 0..a.good : \E invalid \in 0..(a.good - added) :
          actor' = [actor EXCEPT ![j] = AccountsSaved(a, added, invalid)]
     \/ actor' = [actor EXCEPT ![j].at = "unsaved", ![j].bad = @ + a.good]
  /\ UNCHANGED cfg /\ Quiet

\* sync_accounts_and_quota, with one failed account or none.
SyncAccounts(j) ==
  /\ actor[j].at = "sync"
  /\ \E e \in {0, 1} :
       /\ e <= actor[j].good
       /\ actor' = [actor EXCEPT ![j].at = "finish", ![j].bad = @ + e]
  /\ UNCHANGED cfg /\ Quiet

-----------------------------------------------------------------------------
(* Restarts *)

Restart ==
  /\ restarts < MaxRestarts
  /\ restarts' = restarts + 1
  /\ booted' = {}
  /\ actor' = [j \in Imports |-> IF actor[j].at \in LiveSteps
                 THEN [actor[j] EXCEPT !.at = "dead", !.read = NoJob] ELSE actor[j]]
  /\ UNCHANGED <<cfg, storeFailures>>

Unfinished(job) == IsActive(job)

\* The constructor of a provider's store fails the jobs it finds unfinished.
BootStore(p) ==
  /\ p \notin booted
  /\ booted' = booted \cup {p}
  /\ cfg' = [s \in Sources |-> IF ProviderOf[s] = p /\ Unfinished(JobOf(s))
               THEN [cfg[s] EXCEPT !.job.status = "failed"] ELSE cfg[s]]
  /\ UNCHANGED <<actor, restarts, storeFailures>>

ImportWork(j) ==
  \/ StartWorker(j)
  \/ ReadJob(j)
  \/ WriteJob(j)
  \/ RecordFetch(j)
  \/ AddAccounts(j)
  \/ SyncAccounts(j)

ImportNext ==
  \/ \E s \in Sources : AddSource(s) \/ DeleteSource(s)
  \/ \E j \in Imports : ReserveImport(j) \/ ImportWork(j) \/ StoreFails(j)
  \/ Restart
  \/ \E p \in Providers : BootStore(p)

ImportSpec == ImportInit /\ [][ImportNext]_importVars

\* Threads run, and a process that stopped is started again.
ImportFairSpec ==
  /\ ImportSpec
  /\ \A j \in Imports : WF_importVars(ImportWork(j))
  /\ \A p \in Providers : WF_importVars(BootStore(p))

-----------------------------------------------------------------------------
(* Properties *)

\* The coordinator's rule: one remote import at a time, whatever provider it
\* belongs to, through failures, deletions and restarts.
OneActiveImport ==
  Cardinality({s \in Sources : IsActive(JobOf(s))}) <= 1

\* A request or worker that is alive writes the job stored at its source, which
\* is still open: nobody deletes, replaces or ends a job under its worker.
WorkerOwnsOpenJob ==
  \A j \in Imports : actor[j].at \in LiveSteps =>
    OwnJob(j) /\ IsActive(JobOf(SourceOf[j]))

\* A completed import accounts for every selected account: it was added, was
\* already there or is counted as failed.
CompletedCoversAll ==
  \A s \in Sources : HasJob(s) /\ JobOf(s).status = "completed" =>
    JobOf(s).added + JobOf(s).skipped + JobOf(s).failed >= Total

\* The same job before and after a step.
Kept(s) == HasJob(s) /\ cfg'[s].job # NoJob /\ cfg'[s].job.id = JobOf(s).id

\* A job that ended stays as it ended, whichever update comes late.
EndedImportsStay ==
  [][\A s \in Sources : Kept(s) /\ ~IsActive(JobOf(s)) =>
       cfg'[s].job.status = JobOf(s).status]_importVars

\* The failure count of a job never goes down, although each writer knows only
\* its own failures or the persisted ones.
FailuresOnlyGrow ==
  [][\A s \in Sources : Kept(s) => cfg'[s].job.failed >= JobOf(s).failed]_importVars

\* No import blocks the others for ever, except one whose failure could not be
\* recorded because the store failed again (until the next restart).
ImportsEnd ==
  <>[](\A s \in Sources : IsActive(JobOf(s)) => actor[JobOf(s).id].at = "lost")

\* One import at a time, whose job has one writer and tells what happened
\* (reserve, update, fail and the constructors of the stores).
ImportsAreSafe ==
  /\ [](OneActiveImport /\ WorkerOwnsOpenJob /\ CompletedCoversAll)
  /\ EndedImportsStay /\ FailuresOnlyGrow
=============================================================================
