----------------------- MODULE ImageQueueLease_proofs -----------------------
(***************************************************************************)
(* The lease protocol of the image queue: who owns a job, which claim may  *)
(* write its row, and what happens to the account slot it took.            *)
(*                                                                         *)
(* Every transaction is one of a few kinds of step of the lease columns:   *)
(* it keeps the lease of a job, ends it, or (claim_next_job) takes a job   *)
(* nobody owns.  LeaseStep and ClaimsStep say so, one case per action; the *)
(* theorems follow from the kinds alone.  The first section shows the type *)
(* invariant, for every number of tasks, jobs, workers, accounts and slots, *)
(* every attempt budget and any number of disturbances.                    *)
(***************************************************************************)
EXTENDS ImageQueue, TLAPS

-----------------------------------------------------------------------------
(* Type correctness.                                                       *)

\* The status and the completion that _aggregate_task computes are values of
\* their columns.
LEMMA AggregateType ==
  ASSUME NEW ts, NEW st, NEW sg, Aggregate(ts, st, sg),
         taskStatus \in [Tasks -> TaskStatuses], completed \in [Tasks -> BOOLEAN]
  PROVE  /\ taskStatus' \in [Tasks -> TaskStatuses]
         /\ completed' \in [Tasks -> BOOLEAN]
<1>1. \A t, cancel : AggregatedStatus(t, cancel, st, sg) \in TaskStatuses
  BY DEF AggregatedStatus, TaskStatuses, TerminalTaskStatuses
<1>2. \A t, cancel : \A was \in BOOLEAN :
        AggregatedCompletion(t, cancel, st, was) \in BOOLEAN
  BY DEF AggregatedCompletion
<1> QED
  BY <1>1, <1>2 DEF Aggregate

\* The same for a task that is reopened.
LEMMA ReopenType ==
  ASSUME NEW t \in Tasks, NEW st, NEW sg, Reopen(t, st, sg),
         taskStatus \in [Tasks -> TaskStatuses], completed \in [Tasks -> BOOLEAN]
  PROVE  /\ taskStatus' \in [Tasks -> TaskStatuses]
         /\ completed' \in [Tasks -> BOOLEAN]
<1>1. AggregatedStatus(t, cancelRequested[t], st, sg) \in TaskStatuses
  BY DEF AggregatedStatus, TaskStatuses, TerminalTaskStatuses
<1>2. AggregatedCompletion(t, cancelRequested[t], st, FALSE) \in BOOLEAN
  BY DEF AggregatedCompletion
<1> QED
  BY <1>1, <1>2 DEF Reopen

\* A released slot row is a row of image_account_leases or none.
LEMMA ReleasedSlotType ==
  ASSUME NEW j, NEW v, accountLease \in [Jobs -> AccountLeases \cup {None}]
  PROVE  ReleasedSlot(j, v) \in [Jobs -> AccountLeases \cup {None}]
BY DEF ReleasedSlot

\* The attempt group of every stage is one of the three counters.
LEMMA GroupType == ASSUME NEW sg PROVE Group(sg) \in AttemptGroups
BY DEF Group, AttemptGroups

\* Giving up a lease keeps the columns of the lease in their types.
LEMMA EndLeaseType ==
  ASSUME TypeOK, NEW j \in Jobs, NEW v, EndLease(j, v)
  PROVE  /\ owner' \in [Jobs -> Workers \cup {None}]
         /\ version' \in [Jobs -> Nat]
         /\ timer' \in [Jobs -> Timers]
         /\ account' \in [Jobs -> Accounts \cup {None}]
         /\ accountLease' \in [Jobs -> AccountLeases \cup {None}]
<1>1. ReleasedSlot(j, v) \in [Jobs -> AccountLeases \cup {None}]
  BY ReleasedSlotType DEF TypeOK
<1> QED
  BY <1>1 DEF EndLease, TypeOK, Timers

\* Moving a job to a status and a stage keeps job and task rows in their types.
LEMMA MoveJobType ==
  ASSUME TypeOK, NEW j \in Jobs, NEW st \in JobStatuses, NEW sg \in Stages,
         MoveJob(j, st, sg)
  PROVE  /\ status' \in [Jobs -> JobStatuses]
         /\ stage' \in [Jobs -> Stages]
         /\ taskStatus' \in [Tasks -> TaskStatuses]
         /\ completed' \in [Tasks -> BOOLEAN]
<1>1. Aggregate({TaskOf[j]}, status', stage')
  BY DEF MoveJob
<1> QED
  BY <1>1, AggregateType DEF MoveJob, TypeOK

LEMMA TakeJobType ==
  ASSUME TypeOK, NEW w \in Workers, NEW j \in Jobs,
         NEW slot \in AccountLeases \cup {None}, TakeJob(w, j, slot)
  PROVE  TypeOK'
<1>1. Group(stage[j]) \in AttemptGroups
  BY GroupType
<1>2. NewClaim(w, j, slot # None) \in Claims
  BY DEF NewClaim, Claims, Phases, Verdicts, FailureClasses, TypeOK
<1>3. TaskOf[j] \in Tasks
  BY QueueAssumption
<1>4. attempts' \in [Jobs -> [AttemptGroups -> Nat]]
  BY <1>1 DEF TakeJob, TypeOK
<1>5. account' \in [Jobs -> Accounts \cup {None}]
  BY QueueAssumption DEF TakeJob, TypeOK, AccountLeases
<1>6. claims' \subseteq Claims
  BY <1>2 DEF TakeJob, TypeOK
<1>7. /\ status' \in [Jobs -> JobStatuses]
      /\ stage' \in [Jobs -> Stages]
      /\ owner' \in [Jobs -> Workers \cup {None}]
      /\ version' \in [Jobs -> Nat]
      /\ timer' \in [Jobs -> Timers]
      /\ accountLease' \in [Jobs -> AccountLeases \cup {None}]
      /\ taskStatus' \in [Tasks -> TaskStatuses]
  BY <1>3 DEF TakeJob, TypeOK, JobStatuses, ActiveStatuses, Stages,
     GenerationStages, Timers, TaskStatuses
<1> QED
  BY <1>4, <1>5, <1>6, <1>7 DEF TakeJob, TypeOK, checkpointVars, bootVars

\* One more artifact row leaves a set of artifact rows.
LEMMA RecordedType ==
  ASSUME ready \in [Jobs -> SUBSET ArtifactKinds], NEW j, NEW kind \in ArtifactKinds
  PROVE  [ready EXCEPT ![j] = @ \cup {kind}] \in [Jobs -> SUBSET ArtifactKinds]
OBVIOUS

\* A claim that loses, keeps or changes its fields is still a claim.
LEMMA ClaimsType ==
  ASSUME TypeOK, NEW c \in claims
  PROVE  /\ Drop(c) => claims' \subseteq Claims
         /\ \A d \in Claims : Replace(c, d) => claims' \subseteq Claims
BY DEF Drop, Replace, TypeOK

\* A worker gives its claim back, or carries out a verdict.
LEMMA ReleaseClaimType ==
  ASSUME TypeOK, NEW c \in claims, NEW refund, ReleaseClaim(c, refund),
         disruptions' \in Nat
  PROVE  TypeOK'
<1> DEFINE j == c.job
<1>1. j \in Jobs
  BY DEF TypeOK, Claims
<1>2. /\ EndLease(j, c.version)
      /\ Drop(c)
      /\ UNCHANGED <<checkpointVars, error, cancelRequested, bootVars, fresh>>
  BY DEF ReleaseClaim
<1>3. ReleasedStage(j) \in Stages
  BY DEF ReleasedStage, Stages, GenerationStages, DownloadStages, SaveStages
<1>4. \/ MoveJob(j, "canceled", "canceled")
      \/ MoveJob(j, "queued", ReleasedStage(j))
  BY DEF ReleaseClaim
<1>5. /\ status' \in [Jobs -> JobStatuses]
      /\ stage' \in [Jobs -> Stages]
      /\ taskStatus' \in [Tasks -> TaskStatuses]
      /\ completed' \in [Tasks -> BOOLEAN]
  BY <1>1, <1>3, <1>4, MoveJobType DEF JobStatuses, WaitingStatuses,
     TerminalJobStatuses, Stages
<1>6. attempts' \in [Jobs -> [AttemptGroups -> Nat]] /\ due' \in [Jobs -> BOOLEAN]
  <2>1. Refunded(j) \in [Jobs -> [AttemptGroups -> Nat]]
    BY <1>1, GroupType DEF Refunded, TypeOK
  <2> QED
    BY <1>1, <2>1 DEF ReleaseClaim, TypeOK
<1>7. /\ owner' \in [Jobs -> Workers \cup {None}]
      /\ version' \in [Jobs -> Nat]
      /\ timer' \in [Jobs -> Timers]
      /\ account' \in [Jobs -> Accounts \cup {None}]
      /\ accountLease' \in [Jobs -> AccountLeases \cup {None}]
  BY <1>1, <1>2, EndLeaseType
<1>8. claims' \subseteq Claims
  BY <1>2, ClaimsType
<1> QED
  BY <1>2, <1>5, <1>6, <1>7, <1>8 DEF TypeOK, checkpointVars, bootVars

\* Progress that a claim records keeps every row in its types.
LEMMA CheckpointType ==
  ASSUME TypeOK, NEW c \in claims,
         NEW sg \in GenerationStages \cup DownloadStages \cup SaveStages,
         Checkpoint(c, sg),
         conv' \in [Jobs -> Accounts \cup {None}],
         urls' \in [Jobs -> BOOLEAN], consumed' \in [Jobs -> BOOLEAN]
  PROVE  TypeOK'
<1> DEFINE j == c.job
           g == Group(sg)
<1>1. j \in Jobs /\ g \in AttemptGroups
  BY GroupType DEF TypeOK, Claims
<1>2. status' \in [Jobs -> JobStatuses] /\ stage' \in [Jobs -> Stages]
  BY <1>1 DEF Checkpoint, TypeOK, JobStatuses, ActiveStatuses, Stages
<1>3. attempts' \in [Jobs -> [AttemptGroups -> Nat]]
  BY <1>1 DEF Checkpoint, TypeOK
<1>4. accountLease' \in [Jobs -> AccountLeases \cup {None}]
  BY ReleasedSlotType DEF Checkpoint, TypeOK
<1>5. taskStatus' \in [Tasks -> TaskStatuses] /\ completed' \in [Tasks -> BOOLEAN]
  <2>1. Aggregate({TaskOf[j]}, status', stage')
    BY DEF Checkpoint
  <2> QED
    BY <2>1, AggregateType DEF TypeOK
<1>6. claims' \subseteq Claims
  <2>1. c \in Claims
    BY DEF TypeOK
  <2>2. [c EXCEPT !.phase = IF @ = "cleared" THEN "running" ELSE @] \in Claims
    BY <2>1 DEF Claims, Phases
  <2> QED
    BY <2>2, ClaimsType DEF Checkpoint
<1> QED
  BY <1>2, <1>3, <1>4, <1>5, <1>6 DEF Checkpoint, TypeOK, bootVars

\* The steps of a claim thread.
LEMMA ExecuteType ==
  ASSUME TypeOK, NEW c \in claims, Execute(c)
  PROVE  TypeOK'
<1> USE DEF leaseVars, checkpointVars, retryVars, taskVars, bootVars
<1>1. c \in Claims /\ c.job \in Jobs
  BY DEF TypeOK, Claims
<1>2. CASE StartExecution(c)
  <2>1. PICK found \in SUBSET ArtifactKinds :
          /\ FilesFound(c.job, found)
          /\ LET have == Resumable(c.job, found) IN
             IF ~c.slotted /\ have = "nothing" /\ ready[c.job] # {}
             THEN /\ ready' = [ready EXCEPT ![c.job] = {}]
                  /\ Replace(c, [c EXCEPT !.phase = "settling",
                                          !.verdict = "retry",
                                          !.failure = "transient"])
             ELSE /\ ready' = [ready EXCEPT ![c.job] =
                       IF have \in {"downloaded", "upscaled"} THEN @ \cup {have}
                       ELSE @]
                  /\ Replace(c, [c EXCEPT !.phase = "running", !.have = have,
                                          !.committed = @ \/ have = "final"])
    BY <1>2 DEF StartExecution
  <2>2. Resumable(c.job, found) \in ArtifactKinds \cup {"nothing"}
    BY DEF Resumable, ArtifactKinds
  <2>3. /\ [c EXCEPT !.phase = "settling", !.verdict = "retry",
                     !.failure = "transient"] \in Claims
        /\ \A have \in ArtifactKinds \cup {"nothing"} :
             [c EXCEPT !.phase = "running", !.have = have,
                       !.committed = @ \/ have = "final"] \in Claims
    BY <1>1 DEF Claims, Phases, Verdicts, FailureClasses
  <2>4. claims' \subseteq Claims
    BY <2>1, <2>2, <2>3, ClaimsType
  <2>5. ready' \in [Jobs -> SUBSET ArtifactKinds]
    <3>1. \A new \in SUBSET ArtifactKinds :
            [ready EXCEPT ![c.job] = new] \in [Jobs -> SUBSET ArtifactKinds]
      BY DEF TypeOK
    <3>2. ready[c.job] \in SUBSET ArtifactKinds
      BY <1>1 DEF TypeOK
    <3> QED
      BY <2>1, <2>2, <3>1, <3>2 DEF ArtifactKinds
  <2>6. disruptions' \in Nat
    BY <2>1 DEF FilesFound, Disturb, TypeOK
  <2> QED
    BY <1>2, <2>4, <2>5, <2>6 DEF StartExecution, TypeOK
<1>3. CASE EnsureActive(c)
  <2>1. [c EXCEPT !.phase = "cleared"] \in Claims
    BY <1>1 DEF Claims, Phases
  <2>2. claims' \subseteq Claims
    BY <1>3, <2>1, ClaimsType DEF EnsureActive
  <2> QED
    BY <1>3, <2>2 DEF EnsureActive, TypeOK
<1>4. CASE CheckpointGenerating(c)
  BY <1>4, CheckpointType DEF CheckpointGenerating, TypeOK, GenerationStages
<1>5. CASE CheckpointResolving(c)
  <2>1. conv' \in [Jobs -> Accounts \cup {None}]
    BY <1>1, <1>5 DEF CheckpointResolving, TypeOK
  <2> QED
    BY <1>5, <2>1, CheckpointType DEF CheckpointResolving, TypeOK, DownloadStages
<1>6. CASE CheckpointDownloading(c)
  <2>1. urls' \in [Jobs -> BOOLEAN] /\ consumed' \in [Jobs -> BOOLEAN]
    BY <1>1, <1>6 DEF CheckpointDownloading, TypeOK
  <2> QED
    BY <1>6, <2>1, CheckpointType DEF CheckpointDownloading, TypeOK, DownloadStages
<1>7. CASE BeginCommit(c)
  <2>1. [c EXCEPT !.phase = "formatting", !.committed = TRUE] \in Claims
    BY <1>1 DEF Claims, Phases
  <2>2. claims' \subseteq Claims
    BY <1>7, <2>1, ClaimsType DEF BeginCommit
  <2> QED
    BY <1>1, <1>7, <2>2 DEF BeginCommit, TypeOK
<1>8. ASSUME NEW kind \in {"downloaded", "upscaled"}, RecordArtifact(c, kind)
      PROVE  TypeOK'
  <2>1. [c EXCEPT !.have = kind] \in Claims
    BY <1>1 DEF Claims, ArtifactKinds
  <2>2. claims' \subseteq Claims
    BY <1>8, <2>1, ClaimsType DEF RecordArtifact
  <2>3. ready' \in [Jobs -> SUBSET ArtifactKinds]
    BY <1>1, <1>8 DEF RecordArtifact, TypeOK, ArtifactKinds
  <2> QED
    BY <1>8, <2>2, <2>3 DEF RecordArtifact, TypeOK
<1>9. CASE StoreDownloaded(c)
  BY <1>8, <1>9 DEF StoreDownloaded
<1>10. CASE CheckpointTransforming(c)
  BY <1>10, CheckpointType DEF CheckpointTransforming, TypeOK, SaveStages
<1>11. CASE StoreUpscaled(c)
  BY <1>8, <1>11 DEF StoreUpscaled
<1>12. CASE CheckpointSaving(c)
  BY <1>12, CheckpointType DEF CheckpointSaving, TypeOK, SaveStages
<1>13. CASE CompleteJob(c)
  <2> DEFINE j == c.job
  <2>1. \/ MoveJob(j, "canceled", "canceled")
        \/ MoveJob(j, "success", "success")
    BY <1>13 DEF CompleteJob
  <2>2. /\ status' \in [Jobs -> JobStatuses]
        /\ stage' \in [Jobs -> Stages]
        /\ taskStatus' \in [Tasks -> TaskStatuses]
        /\ completed' \in [Tasks -> BOOLEAN]
    BY <1>1, <2>1, MoveJobType DEF JobStatuses, TerminalJobStatuses, Stages
  <2>3. /\ owner' \in [Jobs -> Workers \cup {None}]
        /\ version' \in [Jobs -> Nat]
        /\ timer' \in [Jobs -> Timers]
        /\ account' \in [Jobs -> Accounts \cup {None}]
        /\ accountLease' \in [Jobs -> AccountLeases \cup {None}]
    BY <1>1, <1>13, EndLeaseType DEF CompleteJob
  <2>4. claims' \subseteq Claims
    BY <1>13, ClaimsType DEF CompleteJob
  <2>5. /\ consumed' \in [Jobs -> BOOLEAN]
        /\ ready' \in [Jobs -> SUBSET ArtifactKinds]
        /\ error' \in [Jobs -> ErrorClasses]
    <3>1. \/ UNCHANGED <<consumed, ready, error>>
          \/ /\ consumed' = [consumed EXCEPT ![j] = TRUE]
             /\ ready' = [ready EXCEPT ![j] = @ \cup {"final"}]
             /\ error' = [error EXCEPT ![j] = "none"]
      BY <1>13 DEF CompleteJob
    <3>2. consumed' \in [Jobs -> BOOLEAN] /\ error' \in [Jobs -> ErrorClasses]
      BY <3>1 DEF TypeOK, ErrorClasses
    <3>3. ready' \in [Jobs -> SUBSET ArtifactKinds]
      <4>1. "final" \in ArtifactKinds
        BY DEF ArtifactKinds
      <4>2. [ready EXCEPT ![j] = @ \cup {"final"}] \in [Jobs -> SUBSET ArtifactKinds]
        BY <4>1, RecordedType DEF TypeOK
      <4> QED
        BY <3>1, <4>2 DEF TypeOK
    <3> QED
      BY <3>2, <3>3
  <2> QED
    BY <1>13, <2>2, <2>3, <2>4, <2>5 DEF CompleteJob, TypeOK
<1> QED
  BY <1>2, <1>3, <1>4, <1>5, <1>6, <1>7, <1>9, <1>10, <1>11, <1>12, <1>13
  DEF Execute

\* The verdict on a failed claim, and what carries it out.
LEMMA SettleType ==
  ASSUME TypeOK, NEW c \in claims,
         \/ Settle(c)
         \/ \E f \in FailureClasses : Raise(c, f)
         \/ GateClosed(c) \/ Strand(c) \/ GiveUp(c)
  PROVE  TypeOK'
<1> USE DEF leaseVars, checkpointVars, retryVars, taskVars, bootVars
<1> DEFINE j == c.job
<1>1. c \in Claims /\ j \in Jobs
  BY DEF TypeOK, Claims
<1>2. ASSUME Drop(c) PROVE claims' \subseteq Claims
  BY <1>2, ClaimsType
<1>3. ASSUME EndLease(j, c.version)
      PROVE  /\ owner' \in [Jobs -> Workers \cup {None}]
             /\ version' \in [Jobs -> Nat]
             /\ timer' \in [Jobs -> Timers]
             /\ account' \in [Jobs -> Accounts \cup {None}]
             /\ accountLease' \in [Jobs -> AccountLeases \cup {None}]
  BY <1>1, <1>3, EndLeaseType
<1>4. CASE ReleaseCanceled(c)
  BY <1>4, ReleaseClaimType DEF ReleaseCanceled, TypeOK
<1>5. CASE SettleRelease(c)
  BY <1>5, ReleaseClaimType DEF SettleRelease, TypeOK
<1>6. CASE GateClosed(c)
  <2>1. disruptions' \in Nat
    BY <1>6 DEF GateClosed, Disturb, TypeOK
  <2> QED
    BY <1>6, <2>1, ReleaseClaimType DEF GateClosed
<1>7. CASE SettleRetry(c)
  <2>1. /\ status' \in [Jobs -> JobStatuses]
        /\ stage' \in [Jobs -> Stages]
        /\ taskStatus' \in [Tasks -> TaskStatuses]
        /\ completed' \in [Tasks -> BOOLEAN]
    <3>1. stage[j] \in Stages /\ "retry_wait" \in JobStatuses
      BY <1>1 DEF TypeOK, JobStatuses, WaitingStatuses
    <3> QED
      BY <1>1, <1>7, <3>1, MoveJobType DEF SettleRetry
  <2>2. /\ error' \in [Jobs -> ErrorClasses]
        /\ due' \in [Jobs -> BOOLEAN]
        /\ conv' \in [Jobs -> Accounts \cup {None}]
    BY <1>1, <1>7 DEF SettleRetry, TypeOK, Claims, ErrorClasses
  <2> QED
    BY <1>2, <1>3, <1>7, <2>1, <2>2 DEF SettleRetry, TypeOK
<1>8. CASE SettleFailure(c)
  <2>1. /\ status' \in [Jobs -> JobStatuses]
        /\ stage' \in [Jobs -> Stages]
        /\ taskStatus' \in [Tasks -> TaskStatuses]
        /\ completed' \in [Tasks -> BOOLEAN]
    <3>1. "failed" \in Stages /\ "failed" \in JobStatuses
      BY DEF Stages, JobStatuses, TerminalJobStatuses
    <3> QED
      BY <1>1, <1>8, <3>1, MoveJobType DEF SettleFailure
  <2>2. error' \in [Jobs -> ErrorClasses] /\ due' \in [Jobs -> BOOLEAN]
    BY <1>1, <1>8 DEF SettleFailure, TypeOK, Claims, ErrorClasses
  <2> QED
    BY <1>2, <1>3, <1>8, <2>1, <2>2 DEF SettleFailure, TypeOK
<1>9. CASE LoseClaim(c)
  BY <1>2, <1>9 DEF LoseClaim, TypeOK
<1>10. CASE GiveUp(c)
  BY <1>2, <1>10 DEF GiveUp, Disturb, TypeOK
<1>11. CASE Strand(c)
  <2>1. [c EXCEPT !.phase = "stranded"] \in Claims
    BY <1>1 DEF Claims, Phases
  <2>2. claims' \subseteq Claims
    BY <1>11, <2>1, ClaimsType DEF Strand
  <2> QED
    BY <1>11, <2>2 DEF Strand, Disturb, TypeOK
<1>12. ASSUME NEW f \in FailureClasses, Raise(c, f) PROVE TypeOK'
  <2>1. VerdictOn(c.job, f) \in Verdicts
    BY DEF VerdictOn, Verdicts
  <2>2. [c EXCEPT !.phase = "settling", !.failure = f,
                  !.verdict = VerdictOn(c.job, f)] \in Claims
    BY <1>1, <2>1 DEF Claims, Phases
  <2>3. claims' \subseteq Claims
    BY <1>12, <2>2, ClaimsType DEF Raise
  <2> QED
    BY <1>12, <2>3 DEF Raise, TypeOK
<1> QED
  BY <1>4, <1>5, <1>6, <1>7, <1>8, <1>9, <1>10, <1>11, <1>12 DEF Settle

\* A sweep keeps the rows it takes back in their types.
LEMMA SweepLeasesType ==
  ASSUME TypeOK, NEW js \in SUBSET Jobs, SweepLeases(js)
  PROVE  /\ status' \in [Jobs -> JobStatuses]
         /\ stage' \in [Jobs -> Stages]
         /\ owner' \in [Jobs -> Workers \cup {None}]
         /\ version' \in [Jobs -> Nat]
         /\ timer' \in [Jobs -> Timers]
         /\ accountLease' \in [Jobs -> AccountLeases \cup {None}]
         /\ due' \in [Jobs -> BOOLEAN]
         /\ taskStatus' \in [Tasks -> TaskStatuses]
         /\ completed' \in [Tasks -> BOOLEAN]
<1>1. status' \in [Jobs -> JobStatuses]
  BY DEF SweepLeases, TypeOK, JobStatuses, WaitingStatuses, TerminalJobStatuses
<1>2. stage' \in [Jobs -> Stages]
  <2>1. \A j : ReclaimedStage(j) \in Stages
    BY DEF ReclaimedStage, Stages, GenerationStages, DownloadStages, SaveStages
  <2>2. "canceled" \in Stages
    BY DEF Stages, TerminalJobStatuses
  <2> QED
    BY <2>1, <2>2 DEF SweepLeases, TypeOK
<1>3. /\ owner' \in [Jobs -> Workers \cup {None}]
      /\ version' \in [Jobs -> Nat]
      /\ timer' \in [Jobs -> Timers]
      /\ accountLease' \in [Jobs -> AccountLeases \cup {None}]
      /\ due' \in [Jobs -> BOOLEAN]
  BY DEF SweepLeases, TypeOK, Timers
<1>4. taskStatus' \in [Tasks -> TaskStatuses] /\ completed' \in [Tasks -> BOOLEAN]
  <2>1. Aggregate({TaskOf[j] : j \in js}, status', stage')
    BY DEF SweepLeases
  <2> QED
    BY <2>1, AggregateType DEF TypeOK
<1> QED
  BY <1>1, <1>2, <1>3, <1>4

\* The steps of a worker process.
LEMMA WorkerType ==
  ASSUME TypeOK, NEW w \in Workers, WorkerStep(w)
  PROVE  TypeOK'
<1> USE DEF leaseVars, checkpointVars, retryVars, taskVars, bootVars
<1>1. ASSUME NEW j \in Jobs, ClaimNextJob(w, j) PROVE TypeOK'
  <2>1. CASE ClaimLocal(w, j)
    BY <2>1, TakeJobType DEF ClaimLocal
  <2>2. CASE ClaimRemote(w, j)
    <3>1. PICK candidates \in SUBSET Accounts :
            IF AccountlessRecovery(j, candidates) THEN TakeJob(w, j, None)
            ELSE \E a \in EligibleAccounts(j, candidates), s \in Slots :
                   TakeJob(w, j, [account |-> a, slot |-> s,
                                  version |-> version[j] + 1])
      BY <2>2 DEF ClaimRemote
    <3>2. CASE TakeJob(w, j, None)
      BY <3>2, TakeJobType
    <3>3. ASSUME NEW a \in EligibleAccounts(j, candidates), NEW s \in Slots,
                 TakeJob(w, j, [account |-> a, slot |-> s,
                                version |-> version[j] + 1])
          PROVE  TypeOK'
      <4>1. a \in Accounts
        BY DEF EligibleAccounts
      <4>2. [account |-> a, slot |-> s, version |-> version[j] + 1] \in AccountLeases
        BY <4>1 DEF AccountLeases, TypeOK
      <4> QED
        BY <3>3, <4>2, TakeJobType
    <3> QED
      BY <3>1, <3>2, <3>3
  <2> QED
    BY <1>1, <2>1, <2>2 DEF ClaimNextJob
<1>2. ASSUME NEW j \in Jobs, FailUnrecoverable(w, j) PROVE TypeOK'
  <2>1. "failed" \in JobStatuses /\ "failed" \in Stages
    BY DEF JobStatuses, Stages, TerminalJobStatuses
  <2>2. MoveJob(j, "failed", "failed")
    BY <1>2 DEF FailUnrecoverable
  <2>3. /\ status' \in [Jobs -> JobStatuses]
        /\ stage' \in [Jobs -> Stages]
        /\ taskStatus' \in [Tasks -> TaskStatuses]
        /\ completed' \in [Tasks -> BOOLEAN]
    BY <2>1, <2>2, MoveJobType
  <2>4. /\ error' \in [Jobs -> ErrorClasses]
        /\ accountLease' \in [Jobs -> AccountLeases \cup {None}]
        /\ disruptions' \in Nat
    BY <1>2 DEF FailUnrecoverable, Disturb, TypeOK, ErrorClasses
  <2> QED
    BY <1>2, <2>3, <2>4 DEF FailUnrecoverable, workerVars, TypeOK
<1>3. CASE Heartbeat(w)
  BY <1>3 DEF Heartbeat, TypeOK, Timers
<1>4. CASE ReclaimLeases(w)
  <2>1. Reclaimable(w) \in SUBSET Jobs /\ SweepLeases(Reclaimable(w))
    BY <1>4 DEF ReclaimLeases, Reclaimable
  <2> QED
    BY <1>4, <2>1, SweepLeasesType
    DEF ReclaimLeases, SweepLeases, workerVars, TypeOK
<1>5. CASE Crash(w)
  BY <1>5 DEF Crash, Disturb, TypeOK, ProcessStates
<1>6. CASE WorkerGoesStale(w)
  BY <1>6 DEF WorkerGoesStale, Disturb, TypeOK
<1>7. CASE Boot(w)
  <2>1. Reclaimable(w) \in SUBSET Jobs /\ SweepLeases(Reclaimable(w))
    BY <1>7 DEF Boot, Reclaimable
  <2>2. process' \in [Workers -> ProcessStates]
    BY <1>7 DEF Boot, TypeOK, ProcessStates
  <2> QED
    BY <1>7, <2>1, <2>2, SweepLeasesType DEF Boot, SweepLeases, TypeOK
<1>8. CASE ListRecoverable(w)
  <2>1. \A j : RecoveryStage(j) \in Stages
    BY DEF RecoveryStage, Stages, GenerationStages, DownloadStages, SaveStages
  <2>2. plan' \in [Workers -> SUBSET [job : Jobs, stage : Stages]]
    BY <1>8, <2>1 DEF ListRecoverable, TypeOK
  <2> QED
    BY <1>8, <2>2 DEF ListRecoverable, TypeOK, ProcessStates
<1>9. CASE StartWorker(w)
  BY <1>9 DEF StartWorker, TypeOK, ProcessStates
<1>10. ASSUME NEW r \in plan[w], RequeueForRecovery(w, r) PROVE TypeOK'
  <2>1. r.job \in Jobs /\ r.stage \in Stages
    BY DEF TypeOK
  <2>2. plan' \in [Workers -> SUBSET [job : Jobs, stage : Stages]]
    BY <1>10 DEF RequeueForRecovery, TypeOK
  <2>3. /\ status' \in [Jobs -> JobStatuses]
        /\ stage' \in [Jobs -> Stages]
        /\ due' \in [Jobs -> BOOLEAN]
    BY <1>10, <2>1 DEF RequeueForRecovery, TypeOK, JobStatuses, WaitingStatuses
  <2> QED
    BY <1>10, <2>2, <2>3 DEF RequeueForRecovery, TypeOK
<1> QED
  BY <1>1, <1>2, <1>3, <1>4, <1>5, <1>6, <1>7, <1>8, <1>9, <1>10
  DEF WorkerStep, BootStep

\* What time and the API do to a job row.
LEMMA JobType ==
  ASSUME TypeOK, NEW j \in Jobs,
         \/ LeaseExpires(j) \/ BecomeDue(j) \/ ExpirePending(j)
         \/ FailUndeliverable(j)
         \/ \E k \in {"upscaled", "downloaded", "nothing"} : RequeueUndeliverable(j, k)
         \/ \E k \in ArtifactKinds : AdoptArtifact(j, k)
  PROVE  TypeOK'
<1> USE DEF leaseVars, checkpointVars, retryVars, taskVars, bootVars, workerVars
<1>1. TaskOf[j] \in Tasks
  BY QueueAssumption
<1>2. /\ {"queued", "failed"} \subseteq JobStatuses
      /\ {"failed", "saving", "transforming"} \subseteq Stages
      /\ CheckpointStage(j) \in Stages
      /\ {"expired", "lost", "none"} \subseteq ErrorClasses
      /\ "fresh" \in Timers
  BY DEF JobStatuses, WaitingStatuses, TerminalJobStatuses, Stages, SaveStages,
     DownloadStages, CheckpointStage, ErrorClasses, Timers
<1>3. CASE LeaseExpires(j)
  BY <1>3 DEF LeaseExpires, Disturb, TypeOK, Timers
<1>4. CASE BecomeDue(j)
  BY <1>4 DEF BecomeDue, TypeOK
<1>5. ASSUME MoveJob(j, "failed", "failed")
      PROVE  /\ status' \in [Jobs -> JobStatuses]
             /\ stage' \in [Jobs -> Stages]
             /\ taskStatus' \in [Tasks -> TaskStatuses]
             /\ completed' \in [Tasks -> BOOLEAN]
  BY <1>2, <1>5, MoveJobType
<1>6. CASE ExpirePending(j)
  <2>1. /\ error' \in [Jobs -> ErrorClasses]
        /\ owner' \in [Jobs -> Workers \cup {None}]
        /\ timer' \in [Jobs -> Timers]
        /\ disruptions' \in Nat
    BY <1>2, <1>6 DEF ExpirePending, Disturb, TypeOK
  <2> QED
    BY <1>5, <1>6, <2>1 DEF ExpirePending, TypeOK
<1>7. CASE FailUndeliverable(j)
  <2>1. /\ error' \in [Jobs -> ErrorClasses]
        /\ owner' \in [Jobs -> Workers \cup {None}]
        /\ timer' \in [Jobs -> Timers]
        /\ due' \in [Jobs -> BOOLEAN]
        /\ ready' \in [Jobs -> SUBSET ArtifactKinds]
        /\ disruptions' \in Nat
    BY <1>2, <1>7 DEF FailUndeliverable, Disturb, TypeOK
  <2> QED
    BY <1>5, <1>7, <2>1 DEF FailUndeliverable, TypeOK
<1>8. ASSUME NEW k \in {"upscaled", "downloaded", "nothing"},
             RequeueUndeliverable(j, k)
      PROVE  TypeOK'
  <2>1. taskStatus' \in [Tasks -> TaskStatuses] /\ completed' \in [Tasks -> BOOLEAN]
    <3>1. Reopen(TaskOf[j], status', stage')
      BY <1>8 DEF RequeueUndeliverable
    <3> QED
      BY <1>1, <3>1, ReopenType DEF TypeOK
  <2>2. ready' \in [Jobs -> SUBSET ArtifactKinds]
    BY <1>8 DEF RequeueUndeliverable, TypeOK
  <2>3. /\ status' \in [Jobs -> JobStatuses]
        /\ stage' \in [Jobs -> Stages]
        /\ error' \in [Jobs -> ErrorClasses]
        /\ due' \in [Jobs -> BOOLEAN]
        /\ disruptions' \in Nat
    BY <1>2, <1>8 DEF RequeueUndeliverable, Disturb, TypeOK
  <2> QED
    BY <1>8, <2>1, <2>2, <2>3 DEF RequeueUndeliverable, TypeOK
<1>9. ASSUME NEW k \in ArtifactKinds, AdoptArtifact(j, k) PROVE TypeOK'
  <2>1. taskStatus' \in [Tasks -> TaskStatuses] /\ completed' \in [Tasks -> BOOLEAN]
    <3>1. \/ Reopen(TaskOf[j], status', stage')
          \/ UNCHANGED <<taskStatus, completed>>
      BY <1>9 DEF AdoptArtifact
    <3> QED
      BY <1>1, <3>1, ReopenType DEF TypeOK
  <2>2. ready' \in [Jobs -> SUBSET ArtifactKinds]
    BY <1>9, RecordedType DEF AdoptArtifact, TypeOK
  <2>3. adoptable' \subseteq Jobs /\ disruptions' \in Nat
    BY <1>9 DEF AdoptArtifact, Disturb, TypeOK
  <2>4. CASE TimedOut(j)
    <3>1. /\ status' = [status EXCEPT ![j] = "queued"]
          /\ \/ stage' = [stage EXCEPT ![j] = "transforming"]
             \/ stage' = [stage EXCEPT ![j] = "saving"]
          /\ due' = [due EXCEPT ![j] = TRUE]
          /\ error' = [error EXCEPT ![j] = "none"]
          /\ owner' = [owner EXCEPT ![j] = None]
          /\ timer' = [timer EXCEPT ![j] = "fresh"]
      BY <1>9, <2>4 DEF AdoptArtifact
    <3>2. /\ status' \in [Jobs -> JobStatuses]
          /\ stage' \in [Jobs -> Stages]
          /\ due' \in [Jobs -> BOOLEAN]
          /\ error' \in [Jobs -> ErrorClasses]
          /\ owner' \in [Jobs -> Workers \cup {None}]
          /\ timer' \in [Jobs -> Timers]
      BY <1>2, <3>1 DEF TypeOK
    <3> QED
      BY <1>9, <2>1, <2>2, <2>3, <3>2 DEF AdoptArtifact, TypeOK
  <2>5. CASE ~TimedOut(j)
    BY <1>9, <2>1, <2>2, <2>3, <2>5 DEF AdoptArtifact, TypeOK
  <2> QED
    BY <2>4, <2>5
<1> QED
  BY <1>3, <1>4, <1>6, <1>7, <1>8, <1>9

\* A cancel or a resumption of a task.
LEMMA TaskType ==
  ASSUME TypeOK, NEW t \in Tasks, RequestCancel(t) \/ ResumeFailed(t)
  PROVE  TypeOK'
<1> USE DEF leaseVars, checkpointVars, retryVars, taskVars, bootVars, workerVars
<1>1. CASE RequestCancel(t)
  <2>1. /\ "canceled" \in JobStatuses
        /\ "canceled" \in Stages
    BY DEF JobStatuses, Stages, TerminalJobStatuses
  <2>2. /\ AggregatedStatus(t, TRUE, status', stage') \in TaskStatuses
        /\ AggregatedCompletion(t, TRUE, status', completed[t]) \in BOOLEAN
    BY DEF AggregatedStatus, AggregatedCompletion, TaskStatuses,
       TerminalTaskStatuses, TypeOK
  <2>3. taskStatus' \in [Tasks -> TaskStatuses] /\ completed' \in [Tasks -> BOOLEAN]
    BY <1>1, <2>2 DEF RequestCancel, TypeOK
  <2>4. status' \in [Jobs -> JobStatuses] /\ stage' \in [Jobs -> Stages]
    BY <1>1, <2>1 DEF RequestCancel, TypeOK
  <2>5. cancelRequested' \in [Tasks -> BOOLEAN]
    BY <1>1 DEF RequestCancel, TypeOK
  <2> QED
    BY <1>1, <2>3, <2>4, <2>5 DEF RequestCancel, TypeOK
<1>2. CASE ResumeFailed(t)
  <2>1. taskStatus' \in [Tasks -> TaskStatuses] /\ completed' \in [Tasks -> BOOLEAN]
    <3>1. Reopen(t, status', stage')
      BY <1>2 DEF ResumeFailed
    <3> QED
      BY <3>1, ReopenType DEF TypeOK
  <2>2. /\ "queued" \in JobStatuses
        /\ \A j : CheckpointStage(j) \in Stages
        /\ "none" \in ErrorClasses
    BY DEF JobStatuses, WaitingStatuses, Stages, DownloadStages, CheckpointStage,
       ErrorClasses
  <2>3. /\ status' \in [Jobs -> JobStatuses]
        /\ stage' \in [Jobs -> Stages]
        /\ error' \in [Jobs -> ErrorClasses]
    BY <1>2, <2>2 DEF ResumeFailed, TypeOK
  <2>4. due' \in [Jobs -> BOOLEAN] /\ disruptions' \in Nat
    BY <1>2 DEF ResumeFailed, Disturb, TypeOK
  <2>5. attempts' \in [Jobs -> [AttemptGroups -> Nat]]
    BY <1>2 DEF ResumeFailed, TypeOK
  <2> QED
    BY <1>2, <2>1, <2>3, <2>4, <2>5 DEF ResumeFailed, TypeOK
<1> QED
  BY <1>1, <1>2

\* Every step keeps the types.
LEMMA TypeInductive == TypeOK /\ [Next]_vars => TypeOK'
<1> SUFFICES ASSUME TypeOK, [Next]_vars PROVE TypeOK'
  OBVIOUS
<1>1. CASE UNCHANGED vars
  BY <1>1 DEF vars, leaseVars, checkpointVars, retryVars, taskVars, bootVars,
     workerVars, TypeOK
<1>2. ASSUME NEW w \in Workers, WorkerStep(w) PROVE TypeOK'
  BY <1>2, WorkerType
<1>3. ASSUME NEW j \in Jobs, JobStep(j) PROVE TypeOK'
  <2>1. CASE ClaimStep(j)
    BY <2>1, ExecuteType, SettleType DEF ClaimStep
  <2>2. CASE ~ClaimStep(j)
    BY <1>3, <2>2, JobType DEF JobStep
  <2> QED
    BY <2>1, <2>2
<1>4. ASSUME NEW c \in claims, GateClosed(c) \/ Strand(c) \/ GiveUp(c)
      PROVE  TypeOK'
  BY <1>4, SettleType
<1>5. ASSUME NEW t \in Tasks, RequestCancel(t) \/ ResumeFailed(t) PROVE TypeOK'
  BY <1>5, TaskType
<1>6. CASE ListAdoptable
  BY <1>6 DEF ListAdoptable, leaseVars, checkpointVars, retryVars, taskVars, TypeOK
<1> QED
  BY <1>1, <1>2, <1>3, <1>4, <1>5, <1>6 DEF Next

\* Every row and every claim keeps to its types in every behaviour: what each
\* transaction writes is a value its column declares.
THEOREM TypeCorrect == Spec => []TypeOK
<1>1. Init => TypeOK
  BY DEF Init, TypeOK, JobStatuses, WaitingStatuses, Stages, GenerationStages,
     Timers, AttemptGroups, ErrorClasses, TaskStatuses, ProcessStates
<1> QED
  BY <1>1, TypeInductive, PTL DEF Spec

-----------------------------------------------------------------------------
(* The leases.                                                              *)

\* The inductive invariant.  Claims are told apart by job and version, which
\* OneClaimPerJob needs since a claim changes its phase.
UniqueClaims ==
  \A c, d \in claims : c.job = d.job /\ c.version = d.version => c = d

LeaseInv == TypeOK /\ OwnedIffActive /\ SlotsBelongToLeases /\ UniqueClaims

-----------------------------------------------------------------------------
(* The kinds of step.                                                      *)

Keeps(j) ==
  /\ owner'[j] = owner[j] /\ version'[j] = version[j] /\ account'[j] = account[j]
  /\ Active(j)' <=> Active(j)
  /\ accountLease'[j] = accountLease[j] \/ accountLease'[j] = None

Ends(j) ==
  /\ ~Active(j)'
  /\ owner'[j] = None /\ accountLease'[j] = None
  /\ version'[j] \in Nat /\ version'[j] >= version[j]

Takes(w, j) ==
  /\ ~Active(j) /\ Active(j)'
  /\ owner'[j] = w /\ version'[j] = version[j] + 1
  /\ \/ accountLease'[j] = None
     \/ \E a \in Accounts, s \in Slots :
          /\ SlotFree(a, s)
          /\ account'[j] = a
          /\ accountLease'[j] = [account |-> a, slot |-> s, version |-> version'[j]]

SameClaim(c, d) ==
  d.job = c.job /\ d.version = c.version /\ d.worker = c.worker

\* The rows of no job but j change their lease, and those that change end it.
LeaseStep ==
  \/ \A j \in Jobs : Keeps(j) \/ Ends(j)
  \/ \E w \in Workers, j \in Jobs : Takes(w, j) /\ \A k \in Jobs \ {j} : Keeps(k)

ClaimsStep ==
  \/ claims' \subseteq claims
  \/ \E c \in claims, d \in Claims :
       SameClaim(c, d) /\ claims' = (claims \ {c}) \cup {d}
  \/ \E w \in Workers, j \in Jobs, d \in Claims :
       /\ Takes(w, j)
       /\ d.job = j /\ d.worker = w /\ d.version = version[j] + 1
       /\ claims' = claims \cup {d}

-----------------------------------------------------------------------------
(* Consequences of the kinds.                                              *)

\* The invariant survives every step of these kinds.
LEMMA LeaseStepsKeepInv ==
  ASSUME LeaseInv, TypeOK', LeaseStep, ClaimsStep
  PROVE  LeaseInv'
<1> USE DEF LeaseInv
<1>1. OwnedIffActive'
  <2>1. ASSUME NEW j \in Jobs PROVE (owner[j] # None <=> Active(j))'
    BY <2>1, QueueAssumption DEF LeaseStep, Keeps, Ends, Takes, OwnedIffActive
  <2>2. \A j \in Jobs : version'[j] >= version[j]
    BY DEF LeaseStep, Keeps, Ends, Takes, TypeOK
  <2>3. ASSUME NEW d \in claims' PROVE d.version <= version'[d.job]
    <3>1. d \in Claims
      BY DEF TypeOK
    <3>2. CASE \E c \in claims : SameClaim(c, d)
      BY <2>2, <3>1, <3>2 DEF SameClaim, OwnedIffActive, TypeOK, Claims
    <3>3. CASE \E w \in Workers, j \in Jobs :
                 Takes(w, j) /\ d.job = j /\ d.version = version[j] + 1
      BY <3>1, <3>3 DEF Takes, Claims, TypeOK
    <3>4. \/ \E c \in claims : SameClaim(c, d)
          \/ \E w \in Workers, j \in Jobs :
               Takes(w, j) /\ d.job = j /\ d.version = version[j] + 1
      BY DEF ClaimsStep, SameClaim
    <3> QED
      BY <3>2, <3>3, <3>4
  <2> QED
    BY <2>1, <2>3 DEF OwnedIffActive
<1>2. SlotsBelongToLeases'
  <2> SUFFICES ASSUME NEW j \in Jobs, accountLease'[j] # None
               PROVE  /\ Active(j)'
                      /\ accountLease'[j].version = version'[j]
                      /\ accountLease'[j].account = account'[j]
                      /\ \A k \in Jobs \ {j} : accountLease'[k] # None =>
                           \/ accountLease'[k].account # accountLease'[j].account
                           \/ accountLease'[k].slot # accountLease'[j].slot
    BY DEF SlotsBelongToLeases
  <2>1. CASE \A k \in Jobs : Keeps(k) \/ Ends(k)
    BY <2>1 DEF Keeps, Ends, SlotsBelongToLeases
  <2>2. ASSUME NEW w \in Workers, NEW i \in Jobs, Takes(w, i),
               \A k \in Jobs \ {i} : Keeps(k)
        PROVE  /\ Active(j)'
               /\ accountLease'[j].version = version'[j]
               /\ accountLease'[j].account = account'[j]
               /\ \A k \in Jobs \ {j} : accountLease'[k] # None =>
                    \/ accountLease'[k].account # accountLease'[j].account
                    \/ accountLease'[k].slot # accountLease'[j].slot
    <3>1. CASE accountLease'[i] = None
      BY <2>2, <3>1 DEF Keeps, SlotsBelongToLeases
    <3>2. ASSUME NEW a \in Accounts, NEW s \in Slots, SlotFree(a, s),
                 account'[i] = a,
                 accountLease'[i] = [account |-> a, slot |-> s, version |-> version'[i]]
          PROVE  /\ Active(j)'
                 /\ accountLease'[j].version = version'[j]
                 /\ accountLease'[j].account = account'[j]
                 /\ \A k \in Jobs \ {j} : accountLease'[k] # None =>
                      \/ accountLease'[k].account # accountLease'[j].account
                      \/ accountLease'[k].slot # accountLease'[j].slot
      <4>1. \A k \in Jobs \ {i} : accountLease'[k] # None =>
              /\ accountLease'[k] = accountLease[k]
              /\ \/ accountLease'[k].account # accountLease'[i].account
                 \/ accountLease'[k].slot # accountLease'[i].slot
        BY <2>2, <3>2 DEF Keeps, SlotFree
      <4>2. CASE j = i
        BY <2>2, <3>2, <4>1, <4>2 DEF Takes
      <4>3. CASE j # i
        BY <2>2, <3>2, <4>1, <4>3 DEF Keeps, SlotsBelongToLeases
      <4> QED
        BY <4>2, <4>3
    <3> QED
      BY <2>2, <3>1, <3>2 DEF Takes
  <2> QED
    BY <2>1, <2>2 DEF LeaseStep
<1>3. UniqueClaims'
  <2>1. CASE claims' \subseteq claims
    BY <2>1 DEF UniqueClaims
  <2>2. CASE \E c \in claims, d \in Claims :
               SameClaim(c, d) /\ claims' = (claims \ {c}) \cup {d}
    BY <2>2 DEF UniqueClaims, SameClaim
  <2>3. ASSUME NEW j \in Jobs, NEW d \in Claims,
               d.job = j, d.version = version[j] + 1, claims' = claims \cup {d}
        PROVE  UniqueClaims'
    <3>1. \A c \in claims : c.job = d.job => c.version # d.version
      BY <2>3 DEF OwnedIffActive, TypeOK, Claims
    <3> QED
      BY <2>3, <3>1 DEF UniqueClaims
  <2> QED
    BY <2>1, <2>2, <2>3 DEF ClaimsStep
<1> QED
  BY <1>1, <1>2, <1>3

\* A row whose claim was lost is only ever taken under a higher version.
LEMMA LeaseStepsLoseClaims ==
  ASSUME LeaseInv, LeaseStep, NEW c \in claims, ~Fenced(c)
  PROVE  ~Fenced(c)'
<1>1. c.job \in Jobs /\ c.version \in Nat /\ c.version <= version[c.job]
      /\ c.worker \in Workers /\ version[c.job] \in Nat
  BY DEF LeaseInv, OwnedIffActive, TypeOK, Claims
<1>2. CASE Keeps(c.job)
  BY <1>2 DEF Keeps, Fenced
<1>3. CASE Ends(c.job)
  BY <1>1, <1>3, QueueAssumption DEF Ends, Fenced
<1>4. ASSUME NEW w \in Workers, Takes(w, c.job) PROVE ~Fenced(c)'
  BY <1>1, <1>4 DEF Takes, Fenced
<1> QED
  BY <1>1, <1>2, <1>3, <1>4 DEF LeaseStep

-----------------------------------------------------------------------------
(* Every transaction is a step of these kinds.                             *)

\* A transaction that leaves the lease columns and the activity of all jobs.
LEMMA UntouchedLeases ==
  ASSUME UNCHANGED <<status, owner, version, account, accountLease>>
  PROVE  LeaseStep
BY DEF LeaseStep, Keeps, Active

\* A transaction that only touches jobs nobody owns, and gives them no owner.
LEMMA IdleLeases ==
  ASSUME LeaseInv, UNCHANGED <<version, account, accountLease>>,
         \A j \in Jobs :
           \/ status'[j] = status[j] /\ owner'[j] = owner[j]
           \/ /\ ~Active(j) /\ ~Active(j)'
              /\ owner'[j] = owner[j] \/ owner'[j] = None
  PROVE  LeaseStep
BY DEF LeaseInv, OwnedIffActive, LeaseStep, Keeps, Active

\* A fenced claim that gives its row back ends its lease, slot included.
LEMMA FencedEnds ==
  ASSUME LeaseInv, NEW c \in claims, Fenced(c), EndLease(c.job, c.version),
         NEW st \in JobStatuses \ ActiveStatuses,
         status' = [status EXCEPT ![c.job] = st]
  PROVE  LeaseStep
<1>1. c.job \in Jobs /\ c.version = version[c.job] /\ version[c.job] \in Nat
  BY DEF LeaseInv, TypeOK, Claims, Fenced
<1>2. Ends(c.job)
  <2>1. accountLease[c.job] # None => accountLease[c.job].version = c.version
    BY <1>1 DEF LeaseInv, SlotsBelongToLeases
  <2>2. accountLease'[c.job] = None
    BY <1>1, <2>1 DEF EndLease, ReleasedSlot, LeaseInv, TypeOK
  <2> QED
    BY <1>1, <2>2 DEF Ends, EndLease, Active, LeaseInv, TypeOK
<1>3. \A j \in Jobs \ {c.job} : Keeps(j)
  BY <1>1 DEF Keeps, EndLease, ReleasedSlot, Active, LeaseInv, TypeOK
<1> QED
  BY <1>2, <1>3 DEF LeaseStep

\* A claim that changes what it remembers stays the same claim.
LEMMA SameClaimStep ==
  ASSUME NEW c \in claims, NEW d \in Claims, SameClaim(c, d), Replace(c, d)
  PROVE  ClaimsStep
BY DEF Replace, ClaimsStep

LEMMA DropStep == ASSUME NEW c \in claims, Drop(c) PROVE ClaimsStep
BY DEF Drop, ClaimsStep

LEMMA ReleaseClaimStep ==
  ASSUME LeaseInv, NEW c \in claims, NEW refund, ReleaseClaim(c, refund)
  PROVE  LeaseStep /\ ClaimsStep
<1>1. PICK st \in {"canceled", "queued"} : status' = [status EXCEPT ![c.job] = st]
  BY DEF ReleaseClaim, MoveJob
<1>2. st \in JobStatuses \ ActiveStatuses
  BY DEF JobStatuses, WaitingStatuses, TerminalJobStatuses, ActiveStatuses
<1>3. Fenced(c) /\ EndLease(c.job, c.version) /\ Drop(c)
  BY DEF ReleaseClaim
<1> QED
  BY <1>1, <1>2, <1>3, FencedEnds, DropStep

LEMMA TakeJobStep ==
  ASSUME LeaseInv, NEW w \in Workers, NEW j \in Jobs, Waiting(j),
         NEW slot,
         \/ slot = None
         \/ \E a \in Accounts, s \in Slots :
              /\ SlotFree(a, s)
              /\ slot = [account |-> a, slot |-> s, version |-> version[j] + 1],
         TakeJob(w, j, slot)
  PROVE  LeaseStep /\ ClaimsStep
<1> USE DEF LeaseInv
<1>1. ~Active(j) /\ Active(j)'
  BY DEF Waiting, WaitingStatuses, Active, ActiveStatuses, TakeJob, TypeOK
<1>2. \A a \in Accounts, s \in Slots :
        [account |-> a, slot |-> s, version |-> version[j] + 1] # None
  BY QueueAssumption DEF TypeOK
<1>3. Takes(w, j)
  BY <1>1, <1>2 DEF Takes, TakeJob, TypeOK
<1>4. \A k \in Jobs \ {j} : Keeps(k)
  BY DEF Keeps, TakeJob, Active, TypeOK
<1>5. NewClaim(w, j, slot # None) \in Claims
  BY DEF NewClaim, Claims, Phases, Verdicts, FailureClasses, TypeOK
<1>6. ClaimsStep
  BY <1>3, <1>5 DEF ClaimsStep, TakeJob, NewClaim
<1> QED
  BY <1>3, <1>4, <1>6 DEF LeaseStep

\* What a claim thread does to its row, and to the claim it holds.
LEMMA CheckpointStep ==
  ASSUME LeaseInv, NEW c \in claims, NEW sg, Checkpoint(c, sg), Fenced(c)
  PROVE  LeaseStep /\ ClaimsStep
<1> USE DEF LeaseInv
<1>1. c \in Claims /\ c.job \in Jobs
  BY DEF TypeOK, Claims
<1>2. Active(c.job)
  BY <1>1, QueueAssumption DEF OwnedIffActive, Fenced, Claims
<1>3. \A j \in Jobs : Keeps(j)
  BY <1>1, <1>2 DEF Checkpoint, Keeps, ReleasedSlot, Active, ActiveStatuses, TypeOK
<1>4. DEFINE d == [c EXCEPT !.phase = IF @ = "cleared" THEN "running" ELSE @]
<1>5. d \in Claims /\ SameClaim(c, d)
  BY <1>1 DEF Claims, Phases, SameClaim
<1>6. ClaimsStep
  BY <1>5, SameClaimStep DEF Checkpoint
<1> QED
  BY <1>3, <1>6 DEF LeaseStep

LEMMA ExecuteStep ==
  ASSUME LeaseInv, TypeOK', NEW c \in claims, Execute(c)
  PROVE  LeaseStep /\ ClaimsStep
<1> USE DEF LeaseInv
<1>1. c \in Claims /\ c.job \in Jobs
  BY DEF TypeOK, Claims
<1>2. ASSUME NEW d, Replace(c, d), SameClaim(c, d),
             UNCHANGED <<status, leaseVars>>
      PROVE  LeaseStep /\ ClaimsStep
  <2>1. d \in Claims
    BY <1>2 DEF Replace, TypeOK
  <2> QED
    BY <1>2, <2>1, SameClaimStep, UntouchedLeases DEF leaseVars
<1>3. ASSUME NEW sg, Checkpoint(c, sg), Fenced(c) PROVE LeaseStep /\ ClaimsStep
  BY <1>3, CheckpointStep
<1>4. CASE StartExecution(c)
  <2>1. \/ Replace(c, [c EXCEPT !.phase = "settling", !.verdict = "retry",
                                !.failure = "transient"])
        \/ \E have : Replace(c, [c EXCEPT !.phase = "running", !.have = have,
                                         !.committed = @ \/ have = "final"])
    BY <1>4 DEF StartExecution
  <2>2. /\ SameClaim(c, [c EXCEPT !.phase = "settling", !.verdict = "retry",
                                  !.failure = "transient"])
        /\ \A have : SameClaim(c, [c EXCEPT !.phase = "running", !.have = have,
                                            !.committed = @ \/ have = "final"])
    BY <1>1 DEF SameClaim, Claims
  <2> QED
    BY <1>2, <1>4, <2>1, <2>2 DEF StartExecution
<1>5. CASE EnsureActive(c)
  BY <1>1, <1>2, <1>5 DEF EnsureActive, SameClaim, Claims
<1>6. CASE CheckpointGenerating(c) \/ CheckpointResolving(c) \/ CheckpointDownloading(c)
  BY <1>3, <1>6 DEF CheckpointGenerating, CheckpointResolving,
     CheckpointDownloading, Running
<1>7. CASE BeginCommit(c)
  BY <1>1, <1>2, <1>7 DEF BeginCommit, SameClaim, Claims
<1>8. CASE StoreDownloaded(c) \/ StoreUpscaled(c)
  BY <1>1, <1>2, <1>8 DEF StoreDownloaded, StoreUpscaled, RecordArtifact,
     SameClaim, Claims
<1>9. CASE CheckpointTransforming(c) \/ CheckpointSaving(c)
  BY <1>3, <1>9 DEF CheckpointTransforming, CheckpointSaving, Running, Formatting
<1>10. CASE CompleteJob(c)
  <2>1. PICK st \in {"canceled", "success"} : status' = [status EXCEPT ![c.job] = st]
    BY <1>10 DEF CompleteJob, MoveJob
  <2>2. st \in JobStatuses \ ActiveStatuses
    BY DEF JobStatuses, TerminalJobStatuses, ActiveStatuses
  <2>3. Fenced(c) /\ EndLease(c.job, c.version) /\ Drop(c)
    BY <1>10 DEF CompleteJob, Running, Formatting
  <2> QED
    BY <2>1, <2>2, <2>3, FencedEnds, DropStep
<1> QED
  BY <1>4, <1>5, <1>6, <1>7, <1>8, <1>9, <1>10 DEF Execute

LEMMA SettleStep ==
  ASSUME LeaseInv, TypeOK', NEW c \in claims,
         \/ Settle(c)
         \/ \E f \in FailureClasses : Raise(c, f)
         \/ GateClosed(c) \/ Strand(c) \/ GiveUp(c)
  PROVE  LeaseStep /\ ClaimsStep
<1> USE DEF LeaseInv
<1>1. c \in Claims /\ c.job \in Jobs
  BY DEF TypeOK, Claims
<1>2. CASE ReleaseCanceled(c) \/ SettleRelease(c) \/ GateClosed(c)
  BY <1>2, ReleaseClaimStep DEF ReleaseCanceled, SettleRelease, GateClosed
<1>3. ASSUME NEW st \in {"retry_wait", "failed"}, Fenced(c), Drop(c),
             status' = [status EXCEPT ![c.job] = st], EndLease(c.job, c.version)
      PROVE  LeaseStep /\ ClaimsStep
  <2>1. st \in JobStatuses \ ActiveStatuses
    BY DEF JobStatuses, WaitingStatuses, TerminalJobStatuses, ActiveStatuses
  <2> QED
    BY <1>3, <2>1, FencedEnds, DropStep
<1>4. CASE SettleRetry(c)
  BY <1>3, <1>4 DEF SettleRetry, Settling, MoveJob
<1>5. CASE SettleFailure(c)
  BY <1>3, <1>5 DEF SettleFailure, Settling, MoveJob
<1>6. CASE LoseClaim(c) \/ GiveUp(c)
  BY <1>6, UntouchedLeases, DropStep DEF LoseClaim, GiveUp, leaseVars
<1>7. ASSUME NEW d, Replace(c, d), SameClaim(c, d),
             UNCHANGED <<status, leaseVars>>
      PROVE  LeaseStep /\ ClaimsStep
  <2>1. d \in Claims
    BY <1>7 DEF Replace, TypeOK
  <2> QED
    BY <1>7, <2>1, SameClaimStep, UntouchedLeases DEF leaseVars
<1>8. CASE Strand(c)
  BY <1>1, <1>7, <1>8 DEF Strand, SameClaim, Claims
<1>9. ASSUME NEW f \in FailureClasses, Raise(c, f) PROVE LeaseStep /\ ClaimsStep
  BY <1>1, <1>7, <1>9 DEF Raise, SameClaim, Claims
<1> QED
  BY <1>2, <1>4, <1>5, <1>6, <1>8, <1>9 DEF Settle

\* A sweep ends the leases it takes back.
LEMMA SweepStep ==
  ASSUME LeaseInv, NEW js \in SUBSET Jobs, SweepLeases(js), UNCHANGED claims
  PROVE  LeaseStep /\ ClaimsStep
<1>1. \A j \in js : Ends(j)
  BY DEF SweepLeases, Ends, Active, ActiveStatuses, LeaseInv, TypeOK
<1>2. \A j \in Jobs \ js : Keeps(j)
  BY DEF SweepLeases, Keeps, Active
<1> QED
  BY <1>1, <1>2 DEF LeaseStep, ClaimsStep

LEMMA WorkerLeaseStep ==
  ASSUME LeaseInv, NEW w \in Workers, WorkerStep(w)
  PROVE  LeaseStep /\ ClaimsStep
<1> USE DEF LeaseInv
<1>1. ASSUME NEW j \in Jobs, ClaimNextJob(w, j) PROVE LeaseStep /\ ClaimsStep
  <2>1. Waiting(j)
    BY <1>1 DEF ClaimNextJob, Claimable
  <2>2. CASE ClaimLocal(w, j)
    BY <2>1, <2>2, TakeJobStep DEF ClaimLocal
  <2>3. CASE ClaimRemote(w, j)
    <3>1. PICK candidates \in SUBSET Accounts :
            IF AccountlessRecovery(j, candidates) THEN TakeJob(w, j, None)
            ELSE \E a \in EligibleAccounts(j, candidates), s \in Slots :
                   /\ SlotFree(a, s)
                   /\ TakeJob(w, j, [account |-> a, slot |-> s,
                                     version |-> version[j] + 1])
      BY <2>3 DEF ClaimRemote
    <3>2. \A a \in EligibleAccounts(j, candidates) : a \in Accounts
      BY DEF EligibleAccounts
    <3> QED
      BY <2>1, <3>1, <3>2, TakeJobStep
  <2> QED
    BY <1>1, <2>2, <2>3 DEF ClaimNextJob
<1>2. ASSUME NEW j \in Jobs, FailUnrecoverable(w, j) PROVE LeaseStep /\ ClaimsStep
  <2>1. ~Active(j) /\ ~Active(j)'
    BY <1>2 DEF FailUnrecoverable, Claimable, Waiting, WaitingStatuses, Active,
       ActiveStatuses, MoveJob, TypeOK
  <2>2. \A k \in Jobs : Keeps(k)
    BY <1>2, <2>1 DEF FailUnrecoverable, Keeps, MoveJob, Active, TypeOK
  <2> QED
    BY <1>2, <2>2 DEF FailUnrecoverable, workerVars, LeaseStep, ClaimsStep
<1>3. CASE Heartbeat(w) \/ WorkerGoesStale(w)
  BY <1>3, UntouchedLeases DEF Heartbeat, WorkerGoesStale, leaseVars, ClaimsStep
<1>4. CASE ReclaimLeases(w) \/ Boot(w)
  BY <1>4, SweepStep DEF ReclaimLeases, Boot, Reclaimable, workerVars
<1>5. CASE Crash(w) \/ ListRecoverable(w) \/ StartWorker(w)
  BY <1>5, UntouchedLeases DEF Crash, ListRecoverable, StartWorker, leaseVars, ClaimsStep
<1>6. ASSUME NEW r \in plan[w], RequeueForRecovery(w, r)
      PROVE  LeaseStep /\ ClaimsStep
  <2>1. UNCHANGED <<leaseVars, claims>>
    BY <1>6 DEF RequeueForRecovery
  <2>2. \A j \in Jobs :
          \/ status'[j] = status[j]
          \/ ~Active(j) /\ ~Active(j)'
    <3>1. \/ status' = status
          \/ Waiting(r.job) /\ status' = [status EXCEPT ![r.job] = "queued"]
      BY <1>6 DEF RequeueForRecovery
    <3>2. ASSUME NEW j \in Jobs, status'[j] # status[j]
          PROVE  status[j] \in WaitingStatuses /\ status'[j] = "queued"
      BY <3>1, <3>2 DEF TypeOK, Waiting
    <3> QED
      BY <3>2 DEF WaitingStatuses, Active, ActiveStatuses
  <2> QED
    BY <2>1, <2>2, IdleLeases DEF leaseVars, ClaimsStep
<1> QED
  BY <1>1, <1>2, <1>3, <1>4, <1>5, <1>6 DEF WorkerStep, BootStep

LEMMA JobLeaseStep ==
  ASSUME LeaseInv, NEW j \in Jobs,
         \/ LeaseExpires(j) \/ BecomeDue(j) \/ ExpirePending(j)
         \/ FailUndeliverable(j)
         \/ \E k \in {"upscaled", "downloaded", "nothing"} : RequeueUndeliverable(j, k)
         \/ \E k \in ArtifactKinds : AdoptArtifact(j, k)
  PROVE  LeaseStep /\ ClaimsStep
<1> USE DEF LeaseInv
<1>1. ASSUME UNCHANGED <<version, account, accountLease, claims>>,
             ~Active(j), NEW st \in JobStatuses \ ActiveStatuses,
             status' = [status EXCEPT ![j] = st],
             owner' = [owner EXCEPT ![j] = None] \/ owner' = owner
      PROVE  LeaseStep /\ ClaimsStep
  <2>1. ~Active(j)'
    BY <1>1 DEF Active, TypeOK
  <2>2. \A k \in Jobs \ {j} : status'[k] = status[k] /\ owner'[k] = owner[k]
    BY <1>1 DEF TypeOK
  <2>3. owner'[j] = owner[j] \/ owner'[j] = None
    BY <1>1 DEF TypeOK
  <2> QED
    BY <1>1, <2>1, <2>2, <2>3, IdleLeases DEF ClaimsStep
<1>2. CASE LeaseExpires(j) \/ BecomeDue(j)
  BY <1>2, UntouchedLeases DEF LeaseExpires, BecomeDue, leaseVars, workerVars, ClaimsStep
<1>3. {"queued", "failed"} \subseteq JobStatuses \ ActiveStatuses
  BY DEF JobStatuses, WaitingStatuses, TerminalJobStatuses, ActiveStatuses
<1>4. CASE ExpirePending(j)
  BY <1>1, <1>3, <1>4 DEF ExpirePending, MoveJob, Active, ActiveStatuses, workerVars
<1>5. CASE FailUndeliverable(j)
  BY <1>1, <1>3, <1>5 DEF FailUndeliverable, MoveJob, Active, ActiveStatuses, workerVars
<1>6. CASE \E k \in {"upscaled", "downloaded", "nothing"} : RequeueUndeliverable(j, k)
  <2>1. /\ UNCHANGED <<version, account, accountLease, claims, owner>>
        /\ ~Active(j)
        /\ status' = [status EXCEPT ![j] = "queued"]
    BY <1>6 DEF RequeueUndeliverable, leaseVars, workerVars, Active, ActiveStatuses
  <2> QED
    BY <1>1, <1>3, <2>1
<1>7. CASE \E k \in ArtifactKinds : AdoptArtifact(j, k)
  <2>1. UNCHANGED <<version, account, accountLease, claims>>
    BY <1>7 DEF AdoptArtifact
  <2>2. CASE TimedOut(j)
    BY <1>1, <1>3, <1>7, <2>1, <2>2
    DEF AdoptArtifact, TimedOut, Active, ActiveStatuses
  <2>3. CASE ~TimedOut(j)
    BY <1>7, <2>1, <2>3, UntouchedLeases DEF AdoptArtifact, ClaimsStep
  <2> QED
    BY <2>2, <2>3
<1> QED
  BY <1>2, <1>4, <1>5, <1>6, <1>7

LEMMA TaskLeaseStep ==
  ASSUME LeaseInv, NEW t \in Tasks, RequestCancel(t) \/ ResumeFailed(t)
  PROVE  LeaseStep /\ ClaimsStep
<1> USE DEF LeaseInv
<1>1. UNCHANGED <<owner, version, account, accountLease, claims>>
  BY DEF RequestCancel, ResumeFailed, leaseVars, workerVars
<1>2. ASSUME NEW j \in Jobs, status'[j] # status[j]
      PROVE  ~Active(j) /\ ~Active(j)'
  BY <1>2 DEF RequestCancel, ResumeFailed, Active, ActiveStatuses, Waiting,
     WaitingStatuses
<1> QED
  BY <1>1, <1>2, IdleLeases DEF ClaimsStep

\* Every step of the system is a step of the lease protocol.
LEMMA NextIsLeaseStep ==
  ASSUME LeaseInv, TypeOK', [Next]_vars
  PROVE  LeaseStep /\ ClaimsStep
<1>1. CASE UNCHANGED vars
  BY <1>1, UntouchedLeases DEF vars, leaseVars, workerVars, ClaimsStep
<1>2. ASSUME NEW w \in Workers, WorkerStep(w) PROVE LeaseStep /\ ClaimsStep
  BY <1>2, WorkerLeaseStep
<1>3. ASSUME NEW j \in Jobs, JobStep(j) PROVE LeaseStep /\ ClaimsStep
  <2>1. CASE ClaimStep(j)
    BY <2>1, ExecuteStep, SettleStep DEF ClaimStep
  <2>2. CASE ~ClaimStep(j)
    BY <1>3, <2>2, JobLeaseStep DEF JobStep
  <2> QED
    BY <2>1, <2>2
<1>4. ASSUME NEW c \in claims, GateClosed(c) \/ Strand(c) \/ GiveUp(c)
      PROVE  LeaseStep /\ ClaimsStep
  BY <1>4, SettleStep
<1>5. ASSUME NEW t \in Tasks, RequestCancel(t) \/ ResumeFailed(t)
      PROVE  LeaseStep /\ ClaimsStep
  BY <1>5, TaskLeaseStep
<1>6. CASE ListAdoptable
  BY <1>6, UntouchedLeases DEF ListAdoptable, leaseVars, ClaimsStep
<1> QED
  BY <1>1, <1>2, <1>3, <1>4, <1>5, <1>6 DEF Next

-----------------------------------------------------------------------------
(* Theorems.                                                               *)

\* The inductive invariant holds in every behaviour.
THEOREM LeaseInvariance == Spec => []LeaseInv
<1>1. Init => LeaseInv
  <2> SUFFICES ASSUME Init PROVE LeaseInv
    OBVIOUS
  <2>1. TypeOK
    BY DEF Init, TypeOK, JobStatuses, WaitingStatuses, Stages, GenerationStages,
       Timers, AttemptGroups, ErrorClasses, TaskStatuses, ProcessStates
  <2> QED
    BY <2>1 DEF Init, LeaseInv, OwnedIffActive, SlotsBelongToLeases,
       UniqueClaims, Active, ActiveStatuses
<1>2. LeaseInv /\ [Next]_vars => LeaseInv'
  <2> SUFFICES ASSUME LeaseInv, [Next]_vars PROVE LeaseInv'
    OBVIOUS
  <2>1. TypeOK'
    BY TypeInductive DEF LeaseInv
  <2> QED
    BY <2>1, NextIsLeaseStep, LeaseStepsKeepInv
<1> QED
  BY <1>1, <1>2, PTL DEF Spec

\* The lease columns agree with the status in every behaviour: a job has an
\* owner exactly while it is leased or running, whatever crashes, is paused,
\* swept, cancelled or resumed, and no claim is ahead of its row.
THEOREM OwnershipFollowsStatus == Spec => []OwnedIffActive
BY LeaseInvariance, PTL DEF LeaseInv

\* An account slot belongs to one active job under its current lease version:
\* no release is forgotten and no slot is given to two jobs.
THEOREM NoSlotOutlivesItsLease == Spec => []SlotsBelongToLeases
BY LeaseInvariance, PTL DEF LeaseInv

\* Two claim threads never both pass the fence of the same job.
THEOREM OneFencedClaim == Spec => []OneClaimPerJob
<1>1. LeaseInv => OneClaimPerJob
  BY DEF LeaseInv, UniqueClaims, OneClaimPerJob, Fenced
<1> QED
  BY <1>1, LeaseInvariance, PTL

\* A claim that lost its row never passes the fence again, even when the same
\* worker claims the same job again.
THEOREM LostClaimsNeverReturn == Spec => LostClaimsStayLost
<1>1. LeaseInv /\ LeaseInv' /\ [Next]_vars
        => [\A c \in claims : ~Fenced(c) => ~Fenced(c)']_vars
  BY NextIsLeaseStep, LeaseStepsLoseClaims DEF LeaseInv
<1> QED
  BY <1>1, LeaseInvariance, PTL DEF Spec, LostClaimsStayLost

\* Leases are sound as a whole: owners, claims that pass the fence, and slots.
THEOREM LeasesHold == Spec => []LeasesAreSound
BY OwnershipFollowsStatus, OneFencedClaim, NoSlotOutlivesItsLease, PTL
   DEF LeasesAreSound

-----------------------------------------------------------------------------
(* The queue implements JobOwnership.  Under the mapping of ImageQueue each *)
(* step is a step of the abstract lock or leaves it alone: one lemma per    *)
(* abstract action, then one case per concrete one.                         *)

SameFate(j) == Settled(j)' <=> Settled(j)

SameRecord(j) ==
  /\ conv'[j] = conv[j] /\ urls'[j] = urls[j]
  /\ consumed'[j] = consumed[j] /\ ready'[j] = ready[j]

Simulates == [Ownership!Next]_(Ownership!ownershipVars)

\* In the states of the system the owner column alone says who holds a job.
LEMMA HolderIsOwner == LeaseInv => holder = owner
BY DEF LeaseInv, OwnedIffActive, TypeOK, holder

LEMMA HolderIsOwnerNext == LeaseInv' => holder' = owner'
BY DEF LeaseInv, OwnedIffActive, TypeOK, holder

LEMMA MappedTypes ==
  ASSUME TypeOK'
  PROVE  /\ closed' \in [Jobs -> BOOLEAN]
         /\ record' \in [Jobs -> Checkpoints]
BY DEF TypeOK, closed, record, Checkpoints, Settled

LEMMA SameClosed ==
  ASSUME \A j \in Jobs : SameFate(j)
  PROVE  closed' = closed
BY DEF closed, SameFate, Settled

LEMMA SameRecords ==
  ASSUME \A j \in Jobs : SameRecord(j)
  PROVE  record' = record
BY DEF record, SameRecord

LEMMA OtherRows ==
  ASSUME NEW js \in SUBSET Jobs, \A j \in Jobs \ js : SameFate(j) /\ SameRecord(j)
  PROVE  \A j \in Jobs \ js : closed'[j] = closed[j] /\ record'[j] = record[j]
BY DEF closed, record, SameFate, SameRecord, Settled

\* Callers and sweeps: what they touch nobody holds.
LEMMA ArrangeSimulates ==
  ASSUME LeaseInv, LeaseInv', UNCHANGED <<version, claims>>,
         \A j \in Jobs :
           \/ owner'[j] = owner[j] /\ SameFate(j) /\ SameRecord(j)
           \/ owner[j] = None /\ owner'[j] = None
  PROVE  Simulates
<1> DEFINE idle == {j \in Jobs : holder[j] = None}
<1>1. holder = owner /\ holder' = owner'
  BY HolderIsOwner, HolderIsOwnerNext
<1>2. holder' = holder
  BY <1>1 DEF LeaseInv, TypeOK
<1>3. \A j \in Jobs \ idle : SameFate(j) /\ SameRecord(j)
  BY <1>1
<1>4. \A j \in Jobs \ idle : closed'[j] = closed[j] /\ record'[j] = record[j]
  BY <1>3, OtherRows
<1>5. closed' \in [Jobs -> BOOLEAN] /\ record' \in [Jobs -> Checkpoints]
  BY MappedTypes DEF LeaseInv
<1>6. tickets' = tickets
  BY DEF tickets, TicketOf
<1>7. Ownership!Arrange
  BY <1>2, <1>4, <1>5, <1>6 DEF Ownership!Arrange, Ownership!Rewrites, Ownership!Decides
<1> QED
  BY <1>7 DEF Simulates, Ownership!Next

\* Claims may vanish at any time.
LEMMA LoseSimulates ==
  ASSUME LeaseInv, LeaseInv', UNCHANGED <<owner, version>>, claims' \subseteq claims,
         \A j \in Jobs : SameFate(j) /\ SameRecord(j)
  PROVE  Simulates
<1>1. holder' = holder
  BY HolderIsOwner, HolderIsOwnerNext
<1>2. closed' = closed /\ record' = record
  BY SameClosed, SameRecords
<1>3. tickets' = tickets \ (tickets \ tickets')
  BY DEF tickets, TicketOf
<1>4. Ownership!Lose(tickets \ tickets')
  BY <1>1, <1>2, <1>3 DEF Ownership!Lose
<1> QED
  BY <1>4 DEF Simulates, Ownership!Next

\* A claim that changes what it remembers has the same ticket.
LEMMA SameTickets ==
  ASSUME NEW c \in claims, NEW d, SameClaim(c, d), Replace(c, d)
  PROVE  tickets' = tickets
<1>1. TicketOf(d) = TicketOf(c)
  BY DEF SameClaim, TicketOf
<1>2. \A e : TicketOf(e)' = TicketOf(e)
  BY DEF TicketOf
<1> QED
  BY <1>1, <1>2 DEF Replace, tickets

\* A fenced claim writes the record of its job.
LEMMA WorkSimulates ==
  ASSUME LeaseInv, LeaseInv', NEW c \in claims, Fenced(c),
         NEW d, SameClaim(c, d), Replace(c, d), UNCHANGED <<owner, version>>,
         \A j \in Jobs : SameFate(j), \A j \in Jobs \ {c.job} : SameRecord(j)
  PROVE  Simulates
<1>1. c.job \in Jobs
  BY DEF LeaseInv, TypeOK, Claims
<1>2. holder = owner /\ holder' = owner'
  BY HolderIsOwner, HolderIsOwnerNext
<1>3. closed' = closed /\ tickets' = tickets
  BY SameClosed, SameTickets
<1>4. \A j \in Jobs \ {c.job} : record'[j] = record[j]
  BY <1>1, OtherRows
<1>5. record' \in [Jobs -> Checkpoints]
  BY MappedTypes DEF LeaseInv
<1> DEFINE t == TicketOf(c)
<1>6. t \in tickets /\ t.job = c.job /\ t.worker = c.worker /\ t.term = c.version
  BY DEF tickets, TicketOf
<1>7. Ownership!Work(t)
  BY <1>2, <1>3, <1>4, <1>5, <1>6
  DEF Ownership!Work, Ownership!Valid, Ownership!Rewrites, Fenced
<1> QED
  BY <1>6, <1>7 DEF Simulates, Ownership!Next

\* A claim, fenced or not, that touches nothing but its memory.
LEMMA RememberSimulates ==
  ASSUME LeaseInv, LeaseInv', NEW c \in claims, NEW d, SameClaim(c, d), Replace(c, d),
         UNCHANGED <<owner, version>>, \A j \in Jobs : SameFate(j) /\ SameRecord(j)
  PROVE  Simulates
BY HolderIsOwner, HolderIsOwnerNext, SameClosed, SameRecords, SameTickets
DEF Simulates, Ownership!ownershipVars

\* A fenced claim gives its row back; its ticket was the only one of its term.
LEMMA GiveBackSimulates ==
  ASSUME LeaseInv, LeaseInv', NEW c \in claims, Fenced(c), Drop(c),
         EndLease(c.job, c.version),
         \A j \in Jobs \ {c.job} : SameFate(j) /\ SameRecord(j)
  PROVE  Simulates
<1>1. c \in Claims /\ c.job \in Jobs
  BY DEF LeaseInv, TypeOK, Claims
<1>2. holder = owner /\ holder' = owner'
  BY HolderIsOwner, HolderIsOwnerNext
<1> DEFINE t == TicketOf(c)
<1>3. t \in tickets /\ t.job = c.job /\ t.worker = c.worker /\ t.term = c.version
  BY DEF tickets, TicketOf
<1>4. tickets' = tickets \ {t}
  <2>1. ASSUME NEW e \in claims, TicketOf(e) = t PROVE e = c
    <3>1. e.job = c.job /\ e.version = c.version
      BY <2>1 DEF TicketOf
    <3> QED
      BY <3>1 DEF LeaseInv, UniqueClaims
  <2>2. \A e : TicketOf(e)' = TicketOf(e)
    BY DEF TicketOf
  <2> QED
    BY <2>1, <2>2 DEF Drop, tickets
<1>5. \A j \in Jobs \ {c.job} : closed'[j] = closed[j] /\ record'[j] = record[j]
  BY <1>1, OtherRows
<1>6. closed' \in [Jobs -> BOOLEAN] /\ record' \in [Jobs -> Checkpoints]
  BY MappedTypes DEF LeaseInv
<1>7. Ownership!GiveBack(t)
  <2>1. holder' = [holder EXCEPT ![t.job] = None] /\ version' = version
    BY <1>2, <1>3 DEF EndLease
  <2>2. Ownership!Valid(t)
    BY <1>2, <1>3 DEF Ownership!Valid, Fenced
  <2> QED
    BY <1>3, <1>4, <1>5, <1>6, <2>1, <2>2
    DEF Ownership!GiveBack, Ownership!Rewrites, Ownership!Decides
<1> QED
  BY <1>3, <1>7 DEF Simulates, Ownership!Next

LEMMA TakeSimulates ==
  ASSUME LeaseInv, LeaseInv', NEW w \in Workers, NEW j \in Jobs, Waiting(j), NEW slot,
         TakeJob(w, j, slot)
  PROVE  Simulates
<1>1. TypeOK /\ owner[j] = None /\ ~closed[j]
  BY DEF LeaseInv, OwnedIffActive, Waiting, WaitingStatuses, Active, ActiveStatuses,
     closed, Settled, TerminalJobStatuses
<1>2. holder = owner /\ holder' = owner'
  BY HolderIsOwner, HolderIsOwnerNext
<1>3. ASSUME NEW k \in Jobs PROVE SameFate(k) /\ SameRecord(k)
  BY <1>1 DEF TakeJob, checkpointVars, TypeOK, SameFate, SameRecord, Waiting,
     WaitingStatuses, Settled, TerminalJobStatuses
<1>4. closed' = closed /\ record' = record
  BY <1>3, SameClosed, SameRecords
<1>5. tickets' = tickets \cup {[job |-> j, worker |-> w, term |-> version[j] + 1]}
  <2>1. TicketOf(NewClaim(w, j, slot # None)) =
          [job |-> j, worker |-> w, term |-> version[j] + 1]
    BY DEF TicketOf, NewClaim
  <2>2. claims' = claims \cup {NewClaim(w, j, slot # None)}
    BY DEF TakeJob
  <2>3. \A e : TicketOf(e)' = TicketOf(e)
    BY DEF TicketOf
  <2> HIDE DEF TicketOf, NewClaim
  <2> QED
    BY <2>1, <2>2, <2>3 DEF tickets
<1>6. /\ holder' = [holder EXCEPT ![j] = w]
      /\ version' = [version EXCEPT ![j] = @ + 1]
  BY <1>2 DEF TakeJob
<1>7. Ownership!Take(w, j)
  BY <1>1, <1>2, <1>4, <1>5, <1>6 DEF Ownership!Take
<1> QED
  BY <1>7 DEF Simulates, Ownership!Next

\* A sweep deposes the holders whose leases it takes.
LEMMA SweepSimulates ==
  ASSUME LeaseInv, LeaseInv', NEW w \in Workers, SweepLeases(Reclaimable(w)),
         UNCHANGED claims
  PROVE  Simulates
<1> DEFINE js == Reclaimable(w)
<1>1. js \subseteq Jobs /\ \A j \in js : owner[j] # None
  BY DEF Reclaimable, LeaseInv, OwnedIffActive
<1>2. holder = owner /\ holder' = owner'
  BY HolderIsOwner, HolderIsOwnerNext
<1> HIDE DEF js
<1>3. /\ holder' = [j \in Jobs |-> IF j \in js THEN None ELSE holder[j]]
      /\ version' = [j \in Jobs |-> IF j \in js THEN version[j] + 1 ELSE version[j]]
      /\ tickets' = tickets
  BY <1>2 DEF SweepLeases, tickets, TicketOf, js
<1>4. /\ \A j \in Jobs : SameRecord(j)
      /\ \A j \in Jobs \ js : SameFate(j)
  BY DEF SweepLeases, checkpointVars, SameRecord, SameFate, Settled, js
<1>5. record' = record /\ \A j \in Jobs \ js : closed'[j] = closed[j]
  BY <1>1, <1>4, SameRecords, OtherRows
<1>6. closed' \in [Jobs -> BOOLEAN]
  BY MappedTypes DEF LeaseInv
<1>7. Ownership!Depose(js)
  BY <1>1, <1>2, <1>3, <1>5, <1>6 DEF Ownership!Depose, Ownership!Decides
<1> QED
  BY <1>1, <1>7 DEF Simulates, Ownership!Next

\* What a transaction that moves one job to a status leaves of the others.
LEMMA OneJobMoves ==
  ASSUME TypeOK, NEW j, NEW st, status' = [status EXCEPT ![j] = st]
  PROVE  \A k \in Jobs \ {j} : SameFate(k)
BY DEF TypeOK, SameFate, Settled

\* A job that a claim works on stays open while it passes checkpoints.
LEMMA CheckpointFates ==
  ASSUME LeaseInv, NEW c \in claims, Fenced(c), NEW sg, Checkpoint(c, sg)
  PROVE  \A j \in Jobs : SameFate(j)
<1>1. c.job \in Jobs /\ Active(c.job)
  BY QueueAssumption DEF LeaseInv, OwnedIffActive, Fenced, TypeOK, Claims
<1>2. status' = [status EXCEPT ![c.job] = "running"]
  BY DEF Checkpoint
<1>3. SameFate(c.job)
  BY <1>1, <1>2 DEF LeaseInv, TypeOK, SameFate, Settled, TerminalJobStatuses,
     Active, ActiveStatuses
<1> QED
  BY <1>2, <1>3, OneJobMoves DEF LeaseInv

LEMMA ExecuteSimulates ==
  ASSUME LeaseInv, LeaseInv', NEW c \in claims, Execute(c)
  PROVE  Simulates
<1>1. c \in Claims /\ c.job \in Jobs /\ TypeOK
  BY DEF LeaseInv, TypeOK, Claims
<1>2. ASSUME NEW d, Replace(c, d), SameClaim(c, d), Fenced(c),
             UNCHANGED <<status, owner, version>>,
             \A j \in Jobs \ {c.job} : SameRecord(j)
      PROVE  Simulates
  <2>1. \A j \in Jobs : SameFate(j)
    BY <1>2 DEF SameFate, Settled
  <2> QED
    BY <1>2, <2>1, WorkSimulates
<1>3. ASSUME NEW sg, Checkpoint(c, sg), Fenced(c),
             \A j \in Jobs \ {c.job} : conv'[j] = conv[j] /\ urls'[j] = urls[j]
                                       /\ consumed'[j] = consumed[j]
      PROVE  Simulates
  <2>1. \A j \in Jobs : SameFate(j)
    BY <1>3, CheckpointFates
  <2>2. \A j \in Jobs \ {c.job} : SameRecord(j)
    BY <1>3 DEF Checkpoint, SameRecord
  <2>3. DEFINE d == [c EXCEPT !.phase = IF @ = "cleared" THEN "running" ELSE @]
  <2>4. SameClaim(c, d)
    BY <1>1 DEF SameClaim, Claims
  <2>5. Replace(c, d) /\ UNCHANGED <<owner, version>>
    BY <1>3 DEF Checkpoint
  <2> HIDE DEF d
  <2> QED
    BY <1>3, <2>1, <2>2, <2>4, <2>5, WorkSimulates
<1>4. CASE StartExecution(c)
  <2>1. \/ Replace(c, [c EXCEPT !.phase = "settling", !.verdict = "retry",
                                !.failure = "transient"])
        \/ \E have : Replace(c, [c EXCEPT !.phase = "running", !.have = have,
                                         !.committed = @ \/ have = "final"])
    BY <1>4 DEF StartExecution
  <2>2. /\ SameClaim(c, [c EXCEPT !.phase = "settling", !.verdict = "retry",
                                  !.failure = "transient"])
        /\ \A have : SameClaim(c, [c EXCEPT !.phase = "running", !.have = have,
                                            !.committed = @ \/ have = "final"])
    BY <1>1 DEF SameClaim, Claims
  <2>3. \A j \in Jobs \ {c.job} : ready'[j] = ready[j]
    BY <1>1, <1>4 DEF StartExecution, TypeOK
  <2>4. UNCHANGED <<status, owner, version, conv, urls, consumed>> /\ Fenced(c)
    BY <1>4 DEF StartExecution, leaseVars
  <2> QED
    BY <1>2, <2>1, <2>2, <2>3, <2>4 DEF SameRecord
<1>5. CASE EnsureActive(c)
  BY <1>1, <1>2, <1>5 DEF EnsureActive, leaseVars, checkpointVars, SameRecord,
     SameClaim, Claims
<1>6. CASE CheckpointGenerating(c) \/ CheckpointTransforming(c) \/ CheckpointSaving(c)
  BY <1>3, <1>6 DEF CheckpointGenerating, CheckpointTransforming, CheckpointSaving,
     Running, Formatting
<1>7. CASE CheckpointResolving(c)
  BY <1>1, <1>3, <1>7 DEF CheckpointResolving, Running, TypeOK
<1>8. CASE CheckpointDownloading(c)
  BY <1>1, <1>3, <1>8 DEF CheckpointDownloading, Running, TypeOK
<1>9. CASE BeginCommit(c)
  <2>1. \A j \in Jobs \ {c.job} : SameRecord(j)
    BY <1>1, <1>9 DEF BeginCommit, SameRecord, TypeOK
  <2> QED
    BY <1>1, <1>2, <1>9, <2>1 DEF BeginCommit, Running, leaseVars, SameClaim, Claims
<1>10. ASSUME NEW kind, Formatting(c), RecordArtifact(c, kind) PROVE Simulates
  <2>1. \A j \in Jobs \ {c.job} : SameRecord(j)
    BY <1>1, <1>10 DEF RecordArtifact, SameRecord, TypeOK
  <2> QED
    BY <1>1, <1>2, <1>10, <2>1 DEF RecordArtifact, Formatting, leaseVars,
       SameClaim, Claims
<1>11. CASE StoreDownloaded(c) \/ StoreUpscaled(c)
  BY <1>10, <1>11 DEF StoreDownloaded, StoreUpscaled
<1>12. CASE CompleteJob(c)
  <2>1. PICK st : status' = [status EXCEPT ![c.job] = st]
    BY <1>12 DEF CompleteJob, MoveJob
  <2>2. \A j \in Jobs \ {c.job} : SameRecord(j)
    BY <1>1, <1>12 DEF CompleteJob, SameRecord, TypeOK
  <2>3. Fenced(c) /\ EndLease(c.job, c.version) /\ Drop(c)
    BY <1>12 DEF CompleteJob, Running, Formatting
  <2> QED
    BY <1>1, <2>1, <2>2, <2>3, OneJobMoves, GiveBackSimulates
<1> QED
  BY <1>4, <1>5, <1>6, <1>7, <1>8, <1>9, <1>11, <1>12 DEF Execute

LEMMA SettleSimulates ==
  ASSUME LeaseInv, LeaseInv', NEW c \in claims,
         \/ Settle(c)
         \/ \E f \in FailureClasses : Raise(c, f)
         \/ GateClosed(c) \/ Strand(c) \/ GiveUp(c)
  PROVE  Simulates
<1>1. c \in Claims /\ c.job \in Jobs /\ TypeOK
  BY DEF LeaseInv, TypeOK, Claims
<1>2. ASSUME NEW st, status' = [status EXCEPT ![c.job] = st], Fenced(c),
             EndLease(c.job, c.version), Drop(c),
             \A j \in Jobs \ {c.job} : SameRecord(j)
      PROVE  Simulates
  BY <1>1, <1>2, OneJobMoves, GiveBackSimulates
<1>3. ASSUME NEW refund, ReleaseClaim(c, refund) PROVE Simulates
  <2>1. PICK st : status' = [status EXCEPT ![c.job] = st]
    BY <1>3 DEF ReleaseClaim, MoveJob
  <2> QED
    BY <1>2, <1>3, <2>1 DEF ReleaseClaim, checkpointVars, SameRecord
<1>4. CASE ReleaseCanceled(c) \/ SettleRelease(c) \/ GateClosed(c)
  BY <1>3, <1>4 DEF ReleaseCanceled, SettleRelease, GateClosed
<1>5. CASE SettleRetry(c)
  <2>1. \A j \in Jobs \ {c.job} : SameRecord(j)
    BY <1>1, <1>5 DEF SettleRetry, SameRecord, TypeOK
  <2> QED
    BY <1>2, <1>5, <2>1 DEF SettleRetry, Settling, MoveJob
<1>6. CASE SettleFailure(c)
  BY <1>2, <1>6 DEF SettleFailure, Settling, MoveJob, checkpointVars, SameRecord
<1>7. CASE LoseClaim(c) \/ GiveUp(c)
  <2>1. \A j \in Jobs : SameFate(j) /\ SameRecord(j)
    BY <1>7 DEF LoseClaim, GiveUp, checkpointVars, SameFate, SameRecord, Settled
  <2> QED
    BY <1>7, <2>1, LoseSimulates DEF LoseClaim, GiveUp, leaseVars, Drop
<1>8. CASE Strand(c) \/ \E f \in FailureClasses : Raise(c, f)
  <2>1. \E d : Replace(c, d) /\ SameClaim(c, d)
    <3>1. CASE Strand(c)
      BY <1>1, <3>1 DEF Strand, SameClaim, Claims
    <3>2. ASSUME NEW f, Raise(c, f) PROVE \E d : Replace(c, d) /\ SameClaim(c, d)
      <4>1. DEFINE d == [c EXCEPT !.phase = "settling", !.failure = f,
                                  !.verdict = VerdictOn(c.job, f)]
      <4>2. SameClaim(c, d)
        BY <1>1 DEF SameClaim, Claims
      <4>3. Replace(c, d)
        BY <3>2 DEF Raise
      <4> HIDE DEF d
      <4> QED
        BY <4>2, <4>3
    <3> QED
      BY <1>8, <3>1, <3>2
  <2>2. \A j \in Jobs : SameFate(j) /\ SameRecord(j)
    BY <1>8 DEF Strand, Raise, checkpointVars, SameFate, SameRecord, Settled
  <2>3. UNCHANGED <<owner, version>>
    BY <1>8 DEF Strand, Raise, leaseVars
  <2> QED
    BY <2>1, <2>2, <2>3, RememberSimulates
<1> QED
  BY <1>4, <1>5, <1>6, <1>7, <1>8 DEF Settle

LEMMA WorkerSimulates ==
  ASSUME LeaseInv, LeaseInv', NEW w \in Workers, WorkerStep(w)
  PROVE  Simulates
<1>1. TypeOK
  BY DEF LeaseInv
<1>2. ASSUME NEW j \in Jobs, ClaimNextJob(w, j) PROVE Simulates
  <2>1. Waiting(j) /\ \E slot : TakeJob(w, j, slot)
    BY <1>2 DEF ClaimNextJob, Claimable, ClaimLocal, ClaimRemote
  <2> QED
    BY <2>1, TakeSimulates
<1>3. CASE ReclaimLeases(w) \/ Boot(w)
  BY <1>3, SweepSimulates DEF ReclaimLeases, Boot, workerVars
<1>4. CASE Heartbeat(w) \/ WorkerGoesStale(w) \/ Crash(w) \/ ListRecoverable(w)
           \/ StartWorker(w)
  <2>1. /\ UNCHANGED <<status, owner, version, conv, urls, consumed, ready>>
        /\ claims' \subseteq claims
    BY <1>4 DEF Heartbeat, WorkerGoesStale, Crash, ListRecoverable, StartWorker,
       leaseVars, checkpointVars
  <2>2. \A j \in Jobs : SameFate(j) /\ SameRecord(j)
    BY <2>1 DEF SameFate, SameRecord, Settled
  <2> QED
    BY <2>1, <2>2, LoseSimulates
<1>5. ASSUME NEW j \in Jobs, FailUnrecoverable(w, j) PROVE Simulates
  <2>1. owner[j] = None /\ UNCHANGED <<owner, version, claims>>
    BY <1>5 DEF FailUnrecoverable, Claimable, Waiting, WaitingStatuses, LeaseInv,
       OwnedIffActive, Active, ActiveStatuses, workerVars
  <2>2. status' = [status EXCEPT ![j] = "failed"] /\ UNCHANGED checkpointVars
    BY <1>5 DEF FailUnrecoverable, MoveJob
  <2>3. \A k \in Jobs \ {j} : SameFate(k) /\ SameRecord(k)
    BY <1>1, <2>2, OneJobMoves DEF SameRecord, checkpointVars
  <2> QED
    BY <2>1, <2>3, ArrangeSimulates
<1>6. ASSUME NEW r \in plan[w], RequeueForRecovery(w, r) PROVE Simulates
  <2>1. r.job \in Jobs
    BY <1>1, <1>6 DEF TypeOK
  <2>2. UNCHANGED <<owner, version, claims, conv, urls, consumed, ready>>
    BY <1>6 DEF RequeueForRecovery, leaseVars, checkpointVars
  <2>3. \/ status' = status
        \/ Waiting(r.job) /\ status' = [status EXCEPT ![r.job] = "queued"]
    BY <1>6 DEF RequeueForRecovery
  <2>4. \A j \in Jobs : SameFate(j) /\ SameRecord(j)
    BY <1>1, <2>1, <2>2, <2>3 DEF TypeOK, SameFate, SameRecord, Settled, Waiting,
       WaitingStatuses, TerminalJobStatuses
  <2> QED
    BY <2>2, <2>4, LoseSimulates
<1> QED
  BY <1>2, <1>3, <1>4, <1>5, <1>6 DEF WorkerStep, BootStep

LEMMA CallersSimulate ==
  ASSUME LeaseInv, LeaseInv', NEW j \in Jobs,
         \/ LeaseExpires(j) \/ BecomeDue(j) \/ ExpirePending(j)
         \/ FailUndeliverable(j)
         \/ \E k \in {"upscaled", "downloaded", "nothing"} : RequeueUndeliverable(j, k)
         \/ \E k \in ArtifactKinds : AdoptArtifact(j, k)
  PROVE  Simulates
<1>1. TypeOK
  BY DEF LeaseInv
<1>2. CASE LeaseExpires(j) \/ BecomeDue(j)
  <2>1. UNCHANGED <<status, owner, version, conv, urls, consumed, ready, claims>>
    BY <1>2 DEF LeaseExpires, BecomeDue, leaseVars, checkpointVars, workerVars
  <2>2. \A k \in Jobs : SameFate(k) /\ SameRecord(k)
    BY <2>1 DEF SameFate, SameRecord, Settled
  <2> QED
    BY <2>1, <2>2, LoseSimulates
<1>3. CASE ~LeaseExpires(j) /\ ~BecomeDue(j)
  <2>1. owner[j] = None /\ UNCHANGED <<version, claims>>
    BY <1>3 DEF ExpirePending, FailUndeliverable, RequeueUndeliverable, AdoptArtifact,
       Waiting, WaitingStatuses, TimedOut, LeaseInv, OwnedIffActive, Active,
       ActiveStatuses, leaseVars, workerVars
  <2>2. owner' = owner \/ owner' = [owner EXCEPT ![j] = None]
    BY <1>3 DEF ExpirePending, FailUndeliverable, RequeueUndeliverable, AdoptArtifact,
       leaseVars
  <2>3. \A k \in Jobs \ {j} : owner'[k] = owner[k]
    BY <1>1, <2>2 DEF TypeOK
  <2>4. owner'[j] = None
    BY <1>1, <2>1, <2>2 DEF TypeOK
  <2>5. status' = status \/ \E st : status' = [status EXCEPT ![j] = st]
    BY <1>3 DEF ExpirePending, FailUndeliverable, RequeueUndeliverable, AdoptArtifact,
       MoveJob
  <2>6. \A k \in Jobs \ {j} : SameFate(k)
    BY <1>1, <2>5 DEF TypeOK, SameFate, Settled
  <2>7. UNCHANGED <<conv, urls, consumed>>
    BY <1>3 DEF ExpirePending, FailUndeliverable, RequeueUndeliverable, AdoptArtifact,
       checkpointVars
  <2>8. ready' = ready \/ \E s : ready' = [ready EXCEPT ![j] = s]
    BY <1>3 DEF ExpirePending, FailUndeliverable, RequeueUndeliverable, AdoptArtifact,
       checkpointVars
  <2>9. \A k \in Jobs \ {j} : SameRecord(k)
    BY <1>1, <2>7, <2>8 DEF TypeOK, SameRecord
  <2> QED
    BY <2>1, <2>3, <2>4, <2>6, <2>9, ArrangeSimulates
<1> QED
  BY <1>2, <1>3

LEMMA TaskOperationsSimulate ==
  ASSUME LeaseInv, LeaseInv', NEW t \in Tasks, RequestCancel(t) \/ ResumeFailed(t)
  PROVE  Simulates
<1>1. UNCHANGED <<owner, version, claims, conv, urls, consumed, ready>>
  BY DEF RequestCancel, ResumeFailed, leaseVars, checkpointVars, workerVars
<1>2. ASSUME NEW j \in Jobs, owner[j] # None PROVE SameFate(j)
  <2>1. status'[j] = status[j]
    BY <1>2 DEF RequestCancel, ResumeFailed, Waiting, WaitingStatuses, LeaseInv,
       OwnedIffActive, Active, ActiveStatuses
  <2> QED
    BY <2>1 DEF SameFate, Settled
<1> QED
  BY <1>1, <1>2, ArrangeSimulates DEF SameRecord

\* Every step of the queue is a step of the lock with fencing tickets.
LEMMA NextSimulates ==
  ASSUME LeaseInv, LeaseInv', [Next]_vars
  PROVE  Simulates
<1>1. CASE UNCHANGED vars \/ ListAdoptable
  <2>1. UNCHANGED <<status, owner, version, conv, urls, consumed, ready, claims>>
    BY <1>1 DEF vars, ListAdoptable, leaseVars, checkpointVars, workerVars
  <2>2. \A j \in Jobs : SameFate(j) /\ SameRecord(j)
    BY <2>1 DEF SameFate, SameRecord, Settled
  <2> QED
    BY <2>1, <2>2, LoseSimulates
<1>2. ASSUME NEW w \in Workers, WorkerStep(w) PROVE Simulates
  BY <1>2, WorkerSimulates
<1>3. ASSUME NEW j \in Jobs, JobStep(j) PROVE Simulates
  <2>1. CASE ClaimStep(j)
    BY <2>1, ExecuteSimulates, SettleSimulates DEF ClaimStep
  <2>2. CASE ~ClaimStep(j)
    BY <1>3, <2>2, CallersSimulate DEF JobStep
  <2> QED
    BY <2>1, <2>2
<1>4. ASSUME NEW c \in claims, GateClosed(c) \/ Strand(c) \/ GiveUp(c) PROVE Simulates
  BY <1>4, SettleSimulates
<1>5. ASSUME NEW t \in Tasks, RequestCancel(t) \/ ResumeFailed(t) PROVE Simulates
  BY <1>5, TaskOperationsSimulate
<1> QED
  BY <1>1, <1>2, <1>3, <1>4, <1>5 DEF Next

\* The durable queue implements the lock with fencing tickets: while a job is
\* held only the claim of its current version writes its checkpoint, gives it
\* back or settles it, through every crash, pause, sweep, retry and API call.
THEOREM QueueImplementsOwnership == Spec => Ownership!Spec
<1>1. Init => Ownership!Init
  <2> SUFFICES ASSUME Init PROVE Ownership!Init
    OBVIOUS
  <2>1. holder = [j \in Jobs |-> None]
    BY DEF Init, holder
  <2>2. closed = [j \in Jobs |-> FALSE]
    <3>1. \A j \in Jobs : Settled(j) = FALSE
      BY DEF Init, Settled, TerminalJobStatuses
    <3> QED
      BY <3>1, Zenon DEF closed
  <2>3. record = [j \in Jobs |-> [conv |-> None, urls |-> FALSE, consumed |-> FALSE,
                                  ready |-> {}]]
    BY DEF Init, record
  <2>4. tickets = {} /\ version = [j \in Jobs |-> 0]
    BY DEF Init, tickets
  <2> QED
    BY <2>1, <2>2, <2>3, <2>4 DEF Ownership!Init
<1>2. LeaseInv /\ LeaseInv' /\ [Next]_vars => [Ownership!Next]_(Ownership!ownershipVars)
  BY NextSimulates DEF Simulates
<1> QED
  BY <1>1, <1>2, LeaseInvariance, PTL DEF Spec, Ownership!Spec

\* The refinement together with the claims that stay lost.
THEOREM OwnershipIsKept == Spec => OwnershipHolds
BY QueueImplementsOwnership, LostClaimsNeverReturn, PTL DEF OwnershipHolds
=============================================================================
