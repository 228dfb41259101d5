---------------------- MODULE ImageQueueClaims_proofs -----------------------
(*************************************************************************)
(* What a job has recorded and where recovery resumes it, what its       *)
(* claims may rely on, and what its task says of it: one section for     *)
(* each.                                                                 *)
(*************************************************************************)
EXTENDS ImageQueueLease_proofs

-----------------------------------------------------------------------------
(***************************************************************************)
(* What a job has recorded and where recovery resumes it.  Every decision  *)
(* of the recovery code looks at the stage, the conversation and the URLs  *)
(* of a row; these theorems say that the late stages, the artifacts, the   *)
(* commits and the plans of starting processes always have the URLs they   *)
(* presuppose, and that a paid job never starts over.                      *)
(*                                                                         *)
(* Each action is shown to keep three facts: of the rows, of the claims in *)
(* memory and of the recovery plans.  URLs are never forgotten (UrlsKept), *)
(* so a claim or a plan that an action leaves alone keeps its fact.        *)
(***************************************************************************)

LateStages == {"downloading"} \cup SaveStages

RowOK(j) ==
  /\ urls[j] <=> consumed[j]
  /\ ready[j] # {} => urls[j]
  /\ stage[j] \in LateStages => urls[j]
  /\ status[j] = "running" /\ stage[j] = "generating" => ~urls[j]

ClaimOK(c) ==
  c.have # "nothing" \/ c.committed \/ c.phase = "formatting" => urls[c.job]

PlanOK(r) == r.stage \in LateStages => urls[r.job]

\* The inductive invariant.
CheckpointInv ==
  /\ TypeOK
  /\ \A j \in Jobs : RowOK(j)
  /\ \A c \in claims : ClaimOK(c)
  /\ \A w \in Workers : \A r \in plan[w] : PlanOK(r)

UrlsKept == \A j \in Jobs : urls[j] => urls'[j]

\* What a step adds to the claims and the plans has the URLs it presupposes.
ClaimsAndPlansKept ==
  /\ \A d \in claims' : d \in claims \/ ClaimOK(d)'
  /\ \A w \in Workers : \A r \in plan'[w] : r \in plan[w] \/ PlanOK(r)'

Kept == UrlsKept /\ (\A j \in Jobs : RowOK(j)') /\ ClaimsAndPlansKept

-----------------------------------------------------------------------------
(* Which steps keep the invariant.                                         *)

LEMMA KeptKeepsInv ==
  ASSUME CheckpointInv, TypeOK', Kept
  PROVE  CheckpointInv'
<1>1. ASSUME NEW d \in claims', d \in claims PROVE ClaimOK(d)'
  <2>1. d \in Claims /\ d.job \in Jobs
    BY <1>1 DEF CheckpointInv, TypeOK, Claims
  <2> QED
    BY <1>1, <2>1 DEF CheckpointInv, ClaimOK, Kept, UrlsKept
<1>2. ASSUME NEW w \in Workers, NEW r \in plan'[w], r \in plan[w]
      PROVE  PlanOK(r)'
  <2>1. r.job \in Jobs
    BY <1>2 DEF CheckpointInv, TypeOK
  <2> QED
    BY <1>2, <2>1 DEF CheckpointInv, PlanOK, Kept, UrlsKept
<1> QED
  BY <1>1, <1>2 DEF CheckpointInv, Kept, ClaimsAndPlansKept

\* A step that records nothing: it may move jobs that are not running, and
\* rows go only to stages whose URLs they have.
LEMMA MovesKeep ==
  ASSUME CheckpointInv, UNCHANGED <<urls, consumed>>,
         \A j \in Jobs : ready'[j] \subseteq ready[j] \/ urls[j],
         \A j \in Jobs :
           \/ status'[j] = status[j] /\ stage'[j] = stage[j]
           \/ /\ status'[j] # "running"
              /\ stage'[j] \in LateStages => urls[j],
         ClaimsAndPlansKept
  PROVE  Kept
<1>1. ASSUME NEW j \in Jobs PROVE RowOK(j)'
  <2>1. (urls[j] <=> consumed[j])'
    BY DEF CheckpointInv, RowOK
  <2>2. (ready[j] # {} => urls[j])'
    BY DEF CheckpointInv, RowOK
  <2>3. (stage[j] \in LateStages => urls[j])'
    BY DEF CheckpointInv, RowOK
  <2>4. (status[j] = "running" /\ stage[j] = "generating" => ~urls[j])'
    BY DEF CheckpointInv, RowOK
  <2> QED
    BY <2>1, <2>2, <2>3, <2>4 DEF RowOK
<1> QED
  BY <1>1 DEF Kept, UrlsKept

\* A claim that has something in hand, or commits, has its URLs recorded.
LEMMA InHand ==
  ASSUME CheckpointInv, NEW c \in claims,
         c.have # "nothing" \/ c.committed \/ c.phase = "formatting"
  PROVE  urls[c.job] /\ consumed[c.job]
<1>1. c.job \in Jobs
  BY DEF CheckpointInv, TypeOK, Claims
<1> QED
  BY <1>1 DEF CheckpointInv, ClaimOK, RowOK

\* checkpoint_job with what it records: the stage may be late if the URLs are
\* there, and generating only if they are not.
LEMMA CheckpointKeeps ==
  ASSUME CheckpointInv, NEW c \in claims, NEW sg, Checkpoint(c, sg),
         UNCHANGED <<urls, consumed>>,
         sg \in LateStages => urls[c.job],
         sg = "generating" => ~urls[c.job]
  PROVE  Kept
<1>1. c \in Claims /\ c.job \in Jobs
  BY DEF CheckpointInv, TypeOK, Claims
<1>2. ASSUME NEW j \in Jobs PROVE RowOK(j)'
  <2>1. CASE j = c.job
    <3>1. stage'[j] = sg /\ ready' = ready
      BY <1>1, <2>1 DEF Checkpoint, CheckpointInv, TypeOK
    <3> QED
      BY <2>1, <3>1 DEF CheckpointInv, RowOK
  <2>2. CASE j # c.job
    <3>1. stage'[j] = stage[j] /\ status'[j] = status[j] /\ ready' = ready
      BY <1>1, <2>2 DEF Checkpoint, CheckpointInv, TypeOK
    <3> QED
      BY <3>1 DEF CheckpointInv, RowOK
  <2> QED
    BY <2>1, <2>2
<1>3. ClaimsAndPlansKept
  <2>1. DEFINE d == [c EXCEPT !.phase = IF @ = "cleared" THEN "running" ELSE @]
  <2>2. ClaimOK(d)'
    <3>1. d.have = c.have /\ d.committed = c.committed /\ d.job = c.job
          /\ (d.phase = "formatting" => c.phase = "formatting")
      BY <1>1 DEF Claims
    <3> QED
      BY <3>1 DEF ClaimOK, CheckpointInv
  <2>3. claims' = (claims \ {c}) \cup {d} /\ plan' = plan
    BY DEF Checkpoint, Replace, bootVars
  <2> QED
    BY <2>2, <2>3 DEF ClaimsAndPlansKept
<1> QED
  BY <1>2, <1>3 DEF Kept, UrlsKept

-----------------------------------------------------------------------------
(* The steps of a claim thread.                                            *)

\* The files a claim may find are those of its rows, or the row has URLs.
LEMMA FoundFiles ==
  ASSUME CheckpointInv, NEW j \in Jobs, NEW found \in SUBSET ArtifactKinds,
         FilesFound(j, found)
  PROVE  found # {} => urls[j]
BY DEF FilesFound, CheckpointInv, RowOK

LEMMA StartExecutionKeeps ==
  ASSUME CheckpointInv, NEW c \in claims, StartExecution(c)
  PROVE  Kept
<1>1. c \in Claims /\ c.job \in Jobs
  BY DEF CheckpointInv, TypeOK, Claims
<1>2. PICK found \in SUBSET ArtifactKinds :
        /\ FilesFound(c.job, found)
        /\ LET have == Resumable(c.job, found) IN
           IF ~c.slotted /\ have = "nothing" /\ ready[c.job] # {}
           THEN /\ ready' = [ready EXCEPT ![c.job] = {}]
                /\ Replace(c, [c EXCEPT !.phase = "settling",
                                        !.verdict = "retry",
                                        !.failure = "transient"])
           ELSE /\ ready' = [ready EXCEPT ![c.job] =
                     IF have \in {"downloaded", "upscaled"} THEN @ \cup {have}
                     ELSE @]
                /\ Replace(c, [c EXCEPT !.phase = "running", !.have = have,
                                        !.committed = @ \/ have = "final"])
  BY DEF StartExecution
<1>3. UNCHANGED <<status, stage, urls, consumed, plan>>
  BY DEF StartExecution, bootVars
<1> DEFINE have == Resumable(c.job, found)
<1>4. have # "nothing" => urls[c.job]
  BY <1>1, <1>2, FoundFiles DEF Resumable
<1>5. \A j \in Jobs : ready'[j] \subseteq ready[j] \/ urls[j]
  <2>1. \A j \in Jobs \ {c.job} : ready'[j] = ready[j]
    BY <1>1, <1>2 DEF CheckpointInv, TypeOK
  <2>2. ready'[c.job] = {} \/ ready'[c.job] = ready[c.job] \/ have # "nothing"
    BY <1>1, <1>2 DEF CheckpointInv, TypeOK
  <2> QED
    BY <1>4, <2>1, <2>2
<1>6. ClaimsAndPlansKept
  <2>1. ASSUME NEW d, Replace(c, d), d.job = c.job, d.phase # "formatting",
               d.have # "nothing" \/ d.committed =>
                 c.have # "nothing" \/ c.committed \/ have # "nothing"
        PROVE  ClaimsAndPlansKept
    <3>1. ClaimOK(d)'
      BY <1>3, <1>4, <2>1, InHand DEF ClaimOK
    <3> QED
      BY <1>3, <2>1, <3>1 DEF ClaimsAndPlansKept, Replace
  <2>2. CASE Replace(c, [c EXCEPT !.phase = "settling", !.verdict = "retry",
                                  !.failure = "transient"])
    <3>1. DEFINE d == [c EXCEPT !.phase = "settling", !.verdict = "retry",
                                !.failure = "transient"]
    <3>2. /\ d.job = c.job /\ d.phase = "settling"
          /\ d.have = c.have /\ d.committed = c.committed
      BY <1>1 DEF Claims
    <3> QED
      BY <2>1, <2>2, <3>2
  <2>3. CASE Replace(c, [c EXCEPT !.phase = "running", !.have = have,
                                  !.committed = @ \/ have = "final"])
    <3>1. DEFINE d == [c EXCEPT !.phase = "running", !.have = have,
                                !.committed = @ \/ have = "final"]
    <3>2. /\ d.job = c.job /\ d.phase = "running" /\ d.have = have
          /\ d.committed = (c.committed \/ have = "final")
      BY <1>1, Zenon DEF Claims
    <3> HIDE DEF have, d
    <3>3. d.committed => c.committed \/ have # "nothing"
      BY <3>2
    <3> QED
      BY <2>1, <2>3, <3>2, <3>3 DEF d
  <2> QED
    BY <1>2, <2>2, <2>3
<1> QED
  BY <1>3, <1>5, <1>6, MovesKeep

\* A claim that only changes its phase.
LEMMA PhaseKeeps ==
  ASSUME CheckpointInv, NEW c \in claims, NEW d, Replace(c, d),
         d.job = c.job, d.have = c.have,
         d.committed => c.committed, d.phase # "formatting",
         UNCHANGED <<status, stage, urls, consumed, ready, plan>>
  PROVE  Kept
<1>1. ClaimOK(d)'
  BY InHand DEF ClaimOK
<1>2. ClaimsAndPlansKept
  BY <1>1 DEF ClaimsAndPlansKept, Replace
<1> QED
  BY <1>2, MovesKeep

LEMMA ExecuteKeeps ==
  ASSUME CheckpointInv, NEW c \in claims, Execute(c)
  PROVE  Kept
<1>1. c \in Claims /\ c.job \in Jobs
  BY DEF CheckpointInv, TypeOK, Claims
<1>2. CASE StartExecution(c)
  BY <1>2, StartExecutionKeeps
<1>3. CASE EnsureActive(c)
  BY <1>1, <1>3, PhaseKeeps DEF EnsureActive, checkpointVars, bootVars, Claims
<1>4. CASE CheckpointGenerating(c)
  BY <1>4, CheckpointKeeps DEF CheckpointGenerating, LateStages, SaveStages
<1>5. CASE CheckpointResolving(c)
  BY <1>5, CheckpointKeeps DEF CheckpointResolving, LateStages, SaveStages
<1>6. CASE CheckpointDownloading(c)
  <2>1. /\ urls' = [urls EXCEPT ![c.job] = TRUE]
        /\ consumed' = [consumed EXCEPT ![c.job] = TRUE]
        /\ Checkpoint(c, "downloading")
    BY <1>6 DEF CheckpointDownloading
  <2>2. UNCHANGED <<ready, plan>>
    BY <2>1 DEF Checkpoint, bootVars
  <2>3. ASSUME NEW j \in Jobs PROVE RowOK(j)'
    <3>1. CASE j = c.job
      <4>1. urls'[j] /\ consumed'[j]
        BY <1>1, <2>1, <3>1 DEF CheckpointInv, TypeOK
      <4>2. stage'[j] = "downloading"
        BY <1>1, <2>1, <3>1 DEF Checkpoint, CheckpointInv, TypeOK
      <4> QED
        BY <4>1, <4>2 DEF RowOK
    <3>2. CASE j # c.job
      <4>1. urls'[j] = urls[j] /\ consumed'[j] = consumed[j]
        BY <1>1, <2>1, <3>2 DEF CheckpointInv, TypeOK
      <4>2. stage'[j] = stage[j] /\ status'[j] = status[j]
        BY <1>1, <2>1, <3>2 DEF Checkpoint, CheckpointInv, TypeOK
      <4> QED
        BY <2>2, <4>1, <4>2 DEF RowOK, CheckpointInv
    <3> QED
      BY <3>1, <3>2
  <2>4. UrlsKept
    BY <1>1, <2>1 DEF UrlsKept, CheckpointInv, TypeOK
  <2>5. ClaimsAndPlansKept
    <3>1. DEFINE d == [c EXCEPT !.phase = IF @ = "cleared" THEN "running" ELSE @]
    <3>2. d.job = c.job
      BY <1>1 DEF Claims
    <3>3. urls'[c.job]
      BY <1>1, <2>1 DEF CheckpointInv, TypeOK
    <3>4. ClaimOK(d)'
      BY <3>2, <3>3 DEF ClaimOK
    <3>5. claims' = (claims \ {c}) \cup {d}
      BY <2>1 DEF Checkpoint, Replace
    <3> QED
      BY <2>2, <3>4, <3>5 DEF ClaimsAndPlansKept
  <2> QED
    BY <2>3, <2>4, <2>5 DEF Kept
<1>7. CASE BeginCommit(c)
  <2>1. urls[c.job] /\ consumed[c.job]
    <3>1. CASE c.have = "nothing" /\ stage[c.job] = "downloading"
      BY <1>1, <3>1 DEF CheckpointInv, RowOK, LateStages
    <3>2. CASE c.have = "downloaded"
      BY <3>2, InHand
    <3> QED
      BY <1>7, <3>1, <3>2 DEF BeginCommit
  <2>2. consumed' = consumed
    BY <1>1, <1>7, <2>1 DEF BeginCommit, CheckpointInv, TypeOK
  <2>3. UNCHANGED <<status, stage, urls, ready, plan>>
    BY <1>7 DEF BeginCommit, bootVars
  <2>4. ClaimsAndPlansKept
    <3>1. DEFINE d == [c EXCEPT !.phase = "formatting", !.committed = TRUE]
    <3>2. ClaimOK(d)'
      <4>1. d.job = c.job
        BY <1>1 DEF Claims
      <4> QED
        BY <2>1, <2>3, <4>1 DEF ClaimOK
    <3>3. claims' = (claims \ {c}) \cup {d}
      BY <1>7 DEF BeginCommit, Replace
    <3> QED
      BY <2>3, <3>2, <3>3 DEF ClaimsAndPlansKept
  <2> QED
    BY <2>2, <2>3, <2>4, MovesKeep
<1>8. ASSUME NEW kind \in ArtifactKinds, Formatting(c), RecordArtifact(c, kind)
      PROVE  Kept
  <2>1. urls[c.job]
    BY <1>8, InHand DEF Formatting
  <2>2. UNCHANGED <<status, stage, urls, consumed, plan>>
    BY <1>8 DEF RecordArtifact, bootVars
  <2>3. \A j \in Jobs : ready'[j] \subseteq ready[j] \/ urls[j]
    BY <1>1, <1>8, <2>1 DEF RecordArtifact, CheckpointInv, TypeOK
  <2>4. ClaimsAndPlansKept
    <3>1. DEFINE d == [c EXCEPT !.have = kind]
    <3>2. d.job = c.job
      BY <1>1 DEF Claims
    <3>3. ClaimOK(d)'
      BY <2>1, <2>2, <3>2 DEF ClaimOK
    <3>4. claims' = (claims \ {c}) \cup {d}
      BY <1>8 DEF RecordArtifact, Replace
    <3> QED
      BY <2>2, <3>3, <3>4 DEF ClaimsAndPlansKept
  <2> QED
    BY <2>2, <2>3, <2>4, MovesKeep
<1>9. CASE StoreDownloaded(c) \/ StoreUpscaled(c)
  BY <1>8, <1>9 DEF StoreDownloaded, StoreUpscaled, ArtifactKinds
<1>10. CASE CheckpointTransforming(c)
  <2>1. urls[c.job]
    BY <1>10, InHand DEF CheckpointTransforming
  <2> QED
    BY <1>10, <2>1, CheckpointKeeps DEF CheckpointTransforming
<1>11. CASE CheckpointSaving(c)
  <2>1. urls[c.job]
    BY <1>11, InHand DEF CheckpointSaving
  <2> QED
    BY <1>11, <2>1, CheckpointKeeps DEF CheckpointSaving
<1>12. CASE CompleteJob(c)
  <2>1. urls[c.job] /\ consumed[c.job]
    BY <1>12, InHand DEF CompleteJob
  <2>2. UNCHANGED <<urls, plan>> /\ Drop(c)
    BY <1>12 DEF CompleteJob, bootVars
  <2>3. consumed' = consumed
    <3>1. \/ consumed' = consumed
          \/ consumed' = [consumed EXCEPT ![c.job] = TRUE]
      BY <1>12 DEF CompleteJob
    <3>2. consumed \in [Jobs -> BOOLEAN] /\ consumed[c.job] = TRUE
      BY <1>1, <2>1 DEF CheckpointInv, TypeOK
    <3>3. [consumed EXCEPT ![c.job] = TRUE] = consumed
      BY <3>2, Zenon
    <3> QED
      BY <3>1, <3>3
  <2>4. \A j \in Jobs : ready'[j] \subseteq ready[j] \/ urls[j]
    BY <1>1, <1>12, <2>1 DEF CompleteJob, CheckpointInv, TypeOK
  <2>5. PICK st \in {"canceled", "success"} :
          /\ status' = [status EXCEPT ![c.job] = st]
          /\ stage' = [stage EXCEPT ![c.job] = st]
    BY <1>12 DEF CompleteJob, MoveJob
  <2>6. \A j \in Jobs :
          \/ status'[j] = status[j] /\ stage'[j] = stage[j]
          \/ status'[j] # "running" /\ stage'[j] \notin LateStages
    BY <1>1, <2>5 DEF CheckpointInv, TypeOK, LateStages, SaveStages
  <2>7. ClaimsAndPlansKept
    BY <2>2 DEF ClaimsAndPlansKept, Drop
  <2> QED
    BY <2>2, <2>3, <2>4, <2>6, <2>7, MovesKeep
<1> QED
  BY <1>2, <1>3, <1>4, <1>5, <1>6, <1>7, <1>9, <1>10, <1>11, <1>12 DEF Execute

\* release_claim sends a job to a stage it can resume from.
LEMMA ReleasedStageHasUrls ==
  ASSUME CheckpointInv, NEW j \in Jobs, ReleasedStage(j) \in LateStages
  PROVE  urls[j]
BY DEF ReleasedStage, LateStages, SaveStages, CheckpointInv, RowOK

\* A transaction that moves one job to a status that is not running.
LEMMA MoveKeeps ==
  ASSUME CheckpointInv, UNCHANGED <<urls, consumed>>,
         \A k \in Jobs : ready'[k] \subseteq ready[k] \/ urls[k],
         NEW j \in Jobs, NEW st, NEW sg,
         st # "running", sg \in LateStages => urls[j],
         status' = [status EXCEPT ![j] = st], stage' = [stage EXCEPT ![j] = sg],
         ClaimsAndPlansKept
  PROVE  Kept
<1>1. ASSUME NEW k \in Jobs
      PROVE  \/ status'[k] = status[k] /\ stage'[k] = stage[k]
             \/ status'[k] # "running" /\ (stage'[k] \in LateStages => urls[k])
  BY DEF CheckpointInv, TypeOK
<1> QED
  BY <1>1, MovesKeep

LEMMA DropKeeps ==
  ASSUME NEW c \in claims, Drop(c), UNCHANGED plan
  PROVE  ClaimsAndPlansKept
BY DEF Drop, ClaimsAndPlansKept

LEMMA ReleaseClaimKeeps ==
  ASSUME CheckpointInv, NEW c \in claims, NEW refund, ReleaseClaim(c, refund)
  PROVE  Kept
<1>1. c.job \in Jobs
  BY DEF CheckpointInv, TypeOK, Claims
<1>2. UNCHANGED <<urls, consumed, ready, plan>> /\ Drop(c)
  BY DEF ReleaseClaim, checkpointVars, bootVars
<1>3. ClaimsAndPlansKept
  BY <1>2, DropKeeps
<1>4. CASE MoveJob(c.job, "canceled", "canceled")
  BY <1>1, <1>2, <1>3, <1>4, MoveKeeps DEF MoveJob, LateStages, SaveStages
<1>5. CASE MoveJob(c.job, "queued", ReleasedStage(c.job))
  BY <1>1, <1>2, <1>3, <1>5, MoveKeeps, ReleasedStageHasUrls DEF MoveJob
<1> QED
  BY <1>4, <1>5 DEF ReleaseClaim

LEMMA SettleKeeps ==
  ASSUME CheckpointInv, NEW c \in claims,
         \/ Settle(c)
         \/ \E f \in FailureClasses : Raise(c, f)
         \/ GateClosed(c) \/ Strand(c) \/ GiveUp(c)
  PROVE  Kept
<1>1. c \in Claims /\ c.job \in Jobs
  BY DEF CheckpointInv, TypeOK, Claims
<1>2. CASE ReleaseCanceled(c) \/ SettleRelease(c) \/ GateClosed(c)
  BY <1>2, ReleaseClaimKeeps DEF ReleaseCanceled, SettleRelease, GateClosed
<1>3. CASE SettleRetry(c)
  <2>1. /\ UNCHANGED <<urls, consumed, ready, plan>> /\ Drop(c)
        /\ MoveJob(c.job, "retry_wait", stage[c.job])
    BY <1>3 DEF SettleRetry, bootVars
  <2>2. stage[c.job] \in LateStages => urls[c.job]
    BY <1>1 DEF CheckpointInv, RowOK
  <2> QED
    BY <1>1, <2>1, <2>2, DropKeeps, MoveKeeps DEF MoveJob
<1>4. CASE SettleFailure(c)
  <2>1. /\ UNCHANGED <<urls, consumed, ready, plan>> /\ Drop(c)
        /\ MoveJob(c.job, "failed", "failed")
    BY <1>4 DEF SettleFailure, checkpointVars, bootVars
  <2> QED
    BY <1>1, <2>1, DropKeeps, MoveKeeps DEF MoveJob, LateStages, SaveStages
<1>5. CASE LoseClaim(c) \/ GiveUp(c)
  <2>1. /\ UNCHANGED <<status, stage, urls, consumed, ready, plan>>
        /\ Drop(c)
    BY <1>5 DEF LoseClaim, GiveUp, checkpointVars, bootVars
  <2> QED
    BY <2>1, DropKeeps, MovesKeep
<1>6. CASE Strand(c)
  BY <1>1, <1>6, PhaseKeeps DEF Strand, checkpointVars, bootVars, Claims
<1>7. ASSUME NEW f \in FailureClasses, Raise(c, f) PROVE Kept
  BY <1>1, <1>7, PhaseKeeps DEF Raise, checkpointVars, bootVars, Claims
<1> QED
  BY <1>2, <1>3, <1>4, <1>5, <1>6, <1>7 DEF Settle

-----------------------------------------------------------------------------
(* Claiming, sweeping, recovering.                                         *)

LEMMA TakeJobKeeps ==
  ASSUME CheckpointInv, NEW w \in Workers, NEW j \in Jobs, NEW slot,
         TakeJob(w, j, slot)
  PROVE  Kept
<1>1. UNCHANGED <<urls, consumed, ready, plan>>
  BY DEF TakeJob, checkpointVars, bootVars
<1>2. ASSUME NEW k \in Jobs
      PROVE  \/ status'[k] = status[k] /\ stage'[k] = stage[k]
             \/ status'[k] # "running" /\ (stage'[k] \in LateStages => urls[k])
  <2>1. stage'[k] = stage[k] \/ stage'[k] = "leased"
    BY DEF TakeJob, CheckpointInv, TypeOK
  <2>2. \/ status'[k] = status[k] /\ stage'[k] = stage[k]
        \/ status'[k] = "leased"
    BY DEF TakeJob, CheckpointInv, TypeOK
  <2>3. stage[k] \in LateStages => urls[k]
    BY DEF CheckpointInv, RowOK
  <2> QED
    BY <2>1, <2>2, <2>3 DEF LateStages, SaveStages
<1>3. ClaimsAndPlansKept
  <2>1. ASSUME NEW d, d = NewClaim(w, j, slot # None) PROVE ClaimOK(d)'
    BY <1>1, <2>1 DEF NewClaim, ClaimOK, CheckpointInv, RowOK
  <2> QED
    BY <1>1, <2>1 DEF TakeJob, ClaimsAndPlansKept
<1> QED
  BY <1>1, <1>2, <1>3, MovesKeep

LEMMA SweepKeeps ==
  ASSUME CheckpointInv, NEW js \in SUBSET Jobs, SweepLeases(js),
         UNCHANGED <<claims, plan>>
  PROVE  Kept
<1>1. UNCHANGED <<urls, consumed, ready>>
  BY DEF SweepLeases, checkpointVars
<1>2. ASSUME NEW k \in Jobs
      PROVE  \/ status'[k] = status[k] /\ stage'[k] = stage[k]
             \/ status'[k] # "running" /\ (stage'[k] \in LateStages => urls[k])
  <2>1. CASE k \notin js
    BY <2>1 DEF SweepLeases
  <2>2. CASE k \in js
    <3>1. status'[k] \in {"canceled", "queued"}
      BY <2>2 DEF SweepLeases
    <3>2. stage'[k] \in {"canceled", ReclaimedStage(k)}
      BY <2>2 DEF SweepLeases
    <3>3. ReclaimedStage(k) \in LateStages => urls[k]
      BY DEF ReclaimedStage, LateStages, SaveStages, CheckpointInv, RowOK
    <3> QED
      BY <3>1, <3>2, <3>3 DEF LateStages, SaveStages
  <2> QED
    BY <2>1, <2>2
<1> QED
  BY <1>1, <1>2, MovesKeep DEF ClaimsAndPlansKept

LEMMA WorkerKeeps ==
  ASSUME CheckpointInv, NEW w \in Workers, WorkerStep(w)
  PROVE  Kept
<1>1. ASSUME NEW j \in Jobs, ClaimNextJob(w, j) PROVE Kept
  BY <1>1, TakeJobKeeps DEF ClaimNextJob, ClaimLocal, ClaimRemote
<1>2. ASSUME NEW j \in Jobs, FailUnrecoverable(w, j) PROVE Kept
  <2>1. /\ UNCHANGED <<urls, consumed, ready, plan, claims>>
        /\ MoveJob(j, "failed", "failed")
    BY <1>2 DEF FailUnrecoverable, checkpointVars, workerVars, bootVars
  <2> QED
    BY <2>1, MoveKeeps DEF MoveJob, LateStages, SaveStages, ClaimsAndPlansKept
<1>3. CASE Heartbeat(w) \/ WorkerGoesStale(w) \/ StartWorker(w)
  <2>1. UNCHANGED <<status, stage, urls, consumed, ready, plan, claims>>
    BY <1>3 DEF Heartbeat, WorkerGoesStale, StartWorker, checkpointVars, bootVars
  <2> QED
    BY <2>1, MovesKeep DEF ClaimsAndPlansKept
<1>4. CASE ReclaimLeases(w) \/ Boot(w)
  BY <1>4, SweepKeeps DEF ReclaimLeases, Boot, Reclaimable, workerVars, bootVars
<1>5. CASE Crash(w)
  <2>1. /\ UNCHANGED <<status, stage, urls, consumed, ready>>
        /\ claims' \subseteq claims
        /\ \A v \in Workers : plan'[v] \subseteq plan[v]
    BY <1>5 DEF Crash, checkpointVars, CheckpointInv, TypeOK
  <2> QED
    BY <2>1, MovesKeep DEF ClaimsAndPlansKept
<1>6. CASE ListRecoverable(w)
  <2>1. UNCHANGED <<status, stage, urls, consumed, ready, claims>>
    BY <1>6 DEF ListRecoverable, checkpointVars
  <2>2. ASSUME NEW v \in Workers, NEW r \in plan'[v], r \notin plan[v]
        PROVE  PlanOK(r)'
    <3>1. PICK j \in Jobs : r = [job |-> j, stage |-> RecoveryStage(j)]
      BY <1>6, <2>2 DEF ListRecoverable, CheckpointInv, TypeOK
    <3>2. RecoveryStage(j) \in LateStages => urls[j]
      BY DEF RecoveryStage, LateStages, SaveStages, CheckpointInv, RowOK
    <3> QED
      BY <2>1, <3>1, <3>2 DEF PlanOK
  <2> QED
    BY <2>1, <2>2, MovesKeep DEF ClaimsAndPlansKept
<1>7. ASSUME NEW r \in plan[w], RequeueForRecovery(w, r) PROVE Kept
  <2>1. /\ UNCHANGED <<urls, consumed, ready, claims>>
        /\ \A v \in Workers : plan'[v] \subseteq plan[v]
    BY <1>7 DEF RequeueForRecovery, checkpointVars, CheckpointInv, TypeOK
  <2>2. ClaimsAndPlansKept
    BY <2>1 DEF ClaimsAndPlansKept
  <2>3. CASE UNCHANGED <<status, stage>>
    BY <2>1, <2>2, <2>3, MovesKeep
  <2>4. CASE /\ status' = [status EXCEPT ![r.job] = "queued"]
             /\ stage' = [stage EXCEPT ![r.job] = r.stage]
    <3>1. r.job \in Jobs /\ (r.stage \in LateStages => urls[r.job])
      BY <1>7 DEF CheckpointInv, TypeOK, PlanOK
    <3> QED
      BY <2>1, <2>2, <2>4, <3>1, MoveKeeps
  <2> QED
    BY <1>7, <2>3, <2>4 DEF RequeueForRecovery
<1> QED
  BY <1>1, <1>2, <1>3, <1>4, <1>5, <1>6, <1>7 DEF WorkerStep, BootStep

-----------------------------------------------------------------------------
(* Callers and time.                                                       *)

LEMMA JobKeeps ==
  ASSUME CheckpointInv, NEW j \in Jobs,
         \/ LeaseExpires(j) \/ BecomeDue(j) \/ ExpirePending(j)
         \/ FailUndeliverable(j)
         \/ \E k \in {"upscaled", "downloaded", "nothing"} : RequeueUndeliverable(j, k)
         \/ \E k \in ArtifactKinds : AdoptArtifact(j, k)
  PROVE  Kept
<1>1. CASE LeaseExpires(j) \/ BecomeDue(j)
  <2>1. UNCHANGED <<status, stage, urls, consumed, ready, plan, claims>>
    BY <1>1 DEF LeaseExpires, BecomeDue, checkpointVars, workerVars, bootVars
  <2> QED
    BY <2>1, MovesKeep DEF ClaimsAndPlansKept
<1>2. CASE ExpirePending(j) \/ FailUndeliverable(j)
  <2>1. /\ UNCHANGED <<urls, consumed, plan, claims>>
        /\ MoveJob(j, "failed", "failed")
    BY <1>2 DEF ExpirePending, FailUndeliverable, checkpointVars, workerVars, bootVars
  <2>2. \A k \in Jobs : ready'[k] \subseteq ready[k]
    <3>1. \/ ready' = ready
          \/ ready' = [ready EXCEPT ![j] = @ \ {"final"}]
      BY <1>2 DEF ExpirePending, FailUndeliverable, checkpointVars
    <3> QED
      BY <3>1, SMTT(30) DEF CheckpointInv, TypeOK
  <2> QED
    BY <2>1, <2>2, MoveKeeps DEF MoveJob, LateStages, SaveStages, ClaimsAndPlansKept
<1>3. ASSUME NEW k \in {"upscaled", "downloaded", "nothing"}, RequeueUndeliverable(j, k)
      PROVE  Kept
  <2>1. PICK sg : /\ sg \in {"saving", "transforming"} => ready[j] # {}
                  /\ sg \in {"saving", "transforming", CheckpointStage(j)}
                  /\ stage' = [stage EXCEPT ![j] = sg]
    BY <1>3 DEF RequeueUndeliverable, CheckpointStage
  <2>2. sg \in LateStages => urls[j]
    BY <2>1 DEF CheckpointInv, RowOK, CheckpointStage, LateStages, SaveStages
  <2>3. /\ UNCHANGED <<urls, consumed, plan, claims>>
        /\ status' = [status EXCEPT ![j] = "queued"]
    BY <1>3 DEF RequeueUndeliverable, workerVars, bootVars
  <2>4. \A i \in Jobs : ready'[i] \subseteq ready[i]
    BY <1>3 DEF RequeueUndeliverable, CheckpointInv, TypeOK
  <2> QED
    BY <2>1, <2>2, <2>3, <2>4, MoveKeeps DEF ClaimsAndPlansKept
<1>4. ASSUME NEW k \in ArtifactKinds, AdoptArtifact(j, k) PROVE Kept
  <2>1. UNCHANGED <<urls, consumed, plan, claims>> /\ urls[j]
    BY <1>4 DEF AdoptArtifact
  <2>2. \A i \in Jobs : ready'[i] \subseteq ready[i] \/ urls[i]
    BY <1>4, <2>1 DEF AdoptArtifact, CheckpointInv, TypeOK
  <2>3. CASE UNCHANGED <<status, stage>>
    BY <2>1, <2>2, <2>3, MovesKeep DEF ClaimsAndPlansKept
  <2>4. ASSUME NEW sg, status' = [status EXCEPT ![j] = "queued"],
               stage' = [stage EXCEPT ![j] = sg]
        PROVE  Kept
    BY <2>1, <2>2, <2>4, MoveKeeps DEF ClaimsAndPlansKept
  <2> QED
    BY <1>4, <2>3, <2>4 DEF AdoptArtifact
<1> QED
  BY <1>1, <1>2, <1>3, <1>4

LEMMA TaskKeeps ==
  ASSUME CheckpointInv, NEW t \in Tasks, RequestCancel(t) \/ ResumeFailed(t)
  PROVE  Kept
<1>1. UNCHANGED <<urls, consumed, ready, plan, claims>>
  BY DEF RequestCancel, ResumeFailed, checkpointVars, workerVars, bootVars
<1>2. ASSUME NEW j \in Jobs
      PROVE  \/ status'[j] = status[j] /\ stage'[j] = stage[j]
             \/ status'[j] # "running" /\ (stage'[j] \in LateStages => urls[j])
  BY DEF RequestCancel, ResumeFailed, CheckpointStage, LateStages, SaveStages
<1> QED
  BY <1>1, <1>2, MovesKeep DEF ClaimsAndPlansKept

LEMMA NextKeeps ==
  ASSUME CheckpointInv, [Next]_vars
  PROVE  Kept
<1>1. CASE UNCHANGED vars \/ ListAdoptable
  <2>1. UNCHANGED <<status, stage, urls, consumed, ready, plan, claims>>
    BY <1>1 DEF vars, ListAdoptable, checkpointVars, workerVars, bootVars
  <2> QED
    BY <2>1, MovesKeep DEF ClaimsAndPlansKept
<1>2. ASSUME NEW w \in Workers, WorkerStep(w) PROVE Kept
  BY <1>2, WorkerKeeps
<1>3. ASSUME NEW j \in Jobs, JobStep(j) PROVE Kept
  <2>1. CASE ClaimStep(j)
    BY <2>1, ExecuteKeeps, SettleKeeps DEF ClaimStep
  <2>2. CASE ~ClaimStep(j)
    BY <1>3, <2>2, JobKeeps DEF JobStep
  <2> QED
    BY <2>1, <2>2
<1>4. ASSUME NEW c \in claims, GateClosed(c) \/ Strand(c) \/ GiveUp(c) PROVE Kept
  BY <1>4, SettleKeeps
<1>5. ASSUME NEW t \in Tasks, RequestCancel(t) \/ ResumeFailed(t) PROVE Kept
  BY <1>5, TaskKeeps
<1> QED
  BY <1>1, <1>2, <1>3, <1>4, <1>5 DEF Next

-----------------------------------------------------------------------------
(* Theorems.                                                               *)

\* The inductive invariant holds in every behaviour: whatever a row, a claim in
\* memory or the plan of a starting process presupposes has been recorded.
THEOREM CheckpointInvariance == Spec => []CheckpointInv
<1>1. Init /\ TypeOK => CheckpointInv
  BY DEF Init, CheckpointInv, RowOK, LateStages, SaveStages
<1>2. CheckpointInv /\ TypeOK' /\ [Next]_vars => CheckpointInv'
  BY NextKeeps, KeptKeepsInv
<1> QED
  BY <1>1, <1>2, TypeCorrect, PTL DEF Spec

\* Recovery never resumes from something that is not there: artifacts and the
\* spent quota go with recorded URLs, and only a paid image is committed.
THEOREM RecoveryHasItsSource == Spec => []CheckpointsInOrder
<1>1. CheckpointInv => CheckpointsInOrder
  BY DEF CheckpointInv, RowOK, ClaimOK, CheckpointsInOrder, TypeOK, Claims
<1> QED
  BY <1>1, CheckpointInvariance, PTL

\* Once the quota of a job is spent, no crash, restart, retry or resumption
\* leads it to a generating checkpoint again.
THEOREM QuotaIsSpentOnce == Spec => PaidNeverRegenerated
<1>1. CheckpointInv /\ CheckpointInv' /\ [Next]_vars
        => [\A j \in Jobs : consumed[j] =>
              ~(status'[j] = "running" /\ stage'[j] = "generating")]_vars
  BY NextKeeps DEF CheckpointInv, RowOK, Kept, UrlsKept
<1> QED
  BY <1>1, CheckpointInvariance, PTL DEF Spec, PaidNeverRegenerated

-----------------------------------------------------------------------------
(***************************************************************************)
(* What a claim thread may rely on: the slot it works upstream with, what  *)
(* it remembers of its row, and, as long as no process is silenced, the    *)
(* row itself.                                                             *)
(*                                                                         *)
(* Each action is shown to be a step of two kinds.  Of the rows (RowsKept):*)
(* a job is left alone, is not active afterwards, or has what its stage    *)
(* needs.  Of the claims (ClaimsKept): at most the row of the one fenced   *)
(* claim that acts moves under a claim, and what that claim remembers      *)
(* afterwards is true.                                                     *)
(***************************************************************************)

UpstreamStages == {"generating", "resolving"}

\* A job that is worked on has its slot until the URLs are there, which a job
\* that still waits upstream has not; post-processing has no slot.
RowBacked(j) ==
  /\ Active(j) => urls[j] \/ accountLease[j] # None
  /\ status[j] = "running" /\ stage[j] \in UpstreamStages => ~urls[j]
  /\ status[j] = "running" /\ stage[j] \in SaveStages => accountLease[j] = None

\* What a claim that passes the fence remembers of its row.
ClaimBacked(c) ==
  /\ c.phase = "claimed" => c.have = "nothing"
  /\ Fenced(c) =>
       /\ c.phase = "claimed" => status[c.job] = "leased"
       /\ c.have \in {"downloaded", "upscaled"} => c.have \in ready[c.job]

BackInv ==
  /\ LeaseInv /\ CheckpointInv
  /\ \A j \in Jobs : RowBacked(j)
  /\ \A c \in claims : ClaimBacked(c)

\* Without pauses: nothing comes between a claim and its row, and the lease of
\* a claim never runs out.
HeldInv == \A c \in claims : Fenced(c) /\ timer[c.job] = "fresh"

-----------------------------------------------------------------------------
(* The kinds of step.                                                      *)

\* A job keeps what RowBacked speaks of.
Unmoved(j) ==
  /\ status'[j] = status[j] /\ stage'[j] = stage[j] /\ urls'[j] = urls[j]
  /\ accountLease'[j] = accountLease[j]

RowsKept == \A j \in Jobs : Unmoved(j) \/ ~Active(j)' \/ RowBacked(j)'

\* A job gives no claim that still passes the fence a reason to be wrong.
Still(j) ==
  \/ status'[j] = status[j] /\ ready[j] \subseteq ready'[j]
  \/ ~Active(j)
  \/ owner'[j] = None

ClaimsKept ==
  \/ /\ \A j \in Jobs : Still(j)
     /\ \A d \in claims' : d \in claims \/ ClaimBacked(d)'
  \/ \E c \in claims :
       /\ Fenced(c)
       /\ \A j \in Jobs \ {c.job} : Still(j)
       /\ \A d \in claims' : (d \in claims /\ d # c) \/ ClaimBacked(d)'

-----------------------------------------------------------------------------
(* Which steps keep the invariant.                                         *)

LEMMA RowsKeptKeepsRows ==
  ASSUME \A j \in Jobs : RowBacked(j), RowsKept
  PROVE  \A j \in Jobs : RowBacked(j)'
<1> SUFFICES ASSUME NEW j \in Jobs PROVE RowBacked(j)'
  OBVIOUS
<1>1. CASE Unmoved(j)
  <2>1. RowBacked(j)
    OBVIOUS
  <2> QED
    BY <1>1, <2>1 DEF Unmoved, RowBacked, Active
<1>2. CASE ~Active(j)'
  BY <1>2 DEF RowBacked, Active, ActiveStatuses
<1> QED
  BY <1>1, <1>2 DEF RowsKept

\* A claim that an action leaves alone, on a row that gives it no reason.
LEMMA StillKeepsClaim ==
  ASSUME LeaseInv, LeaseStep, NEW d \in claims, ClaimBacked(d), Still(d.job)
  PROVE  ClaimBacked(d)'
<1>1. d.job \in Jobs /\ d.worker \in Workers /\ d.worker # None
  BY QueueAssumption DEF LeaseInv, TypeOK, Claims
<1>2. Fenced(d)' => Fenced(d) /\ Active(d.job)
  BY <1>1, LeaseStepsLoseClaims DEF LeaseInv, OwnedIffActive, Fenced
<1>3. Fenced(d)' => owner'[d.job] # None
  BY <1>1 DEF Fenced
<1> QED
  BY <1>2, <1>3 DEF Still, ClaimBacked

LEMMA ClaimsKeptKeepsClaims ==
  ASSUME LeaseInv, LeaseStep, \A c \in claims : ClaimBacked(c), ClaimsKept
  PROVE  \A d \in claims' : ClaimBacked(d)'
<1>1. \A d \in claims : d.job \in Jobs /\ d.version \in Nat
  BY DEF LeaseInv, TypeOK, Claims
<1>2. CASE /\ \A j \in Jobs : Still(j)
           /\ \A d \in claims' : d \in claims \/ ClaimBacked(d)'
  BY <1>1, <1>2, StillKeepsClaim
<1>3. ASSUME NEW c \in claims, Fenced(c),
             \A j \in Jobs \ {c.job} : Still(j),
             \A d \in claims' : (d \in claims /\ d # c) \/ ClaimBacked(d)'
      PROVE  \A d \in claims' : ClaimBacked(d)'
  <2> SUFFICES ASSUME NEW d \in claims, d # c PROVE ClaimBacked(d)'
    BY <1>3
  <2>1. CASE d.job = c.job
    <3>1. ~Fenced(d)
      BY <1>3, <2>1 DEF LeaseInv, UniqueClaims, Fenced
    <3>2. ~Fenced(d)'
      BY <3>1, LeaseStepsLoseClaims
    <3> QED
      BY <3>2 DEF ClaimBacked
  <2>2. CASE d.job # c.job
    BY <1>1, <1>3, <2>2, StillKeepsClaim
  <2> QED
    BY <2>1, <2>2
<1> QED
  BY <1>2, <1>3 DEF ClaimsKept

\* A step that touches neither the rows nor the claims, but may drop claims.
LEMMA QuietSteps ==
  ASSUME UNCHANGED <<status, stage, urls, ready, accountLease>>,
         claims' \subseteq claims
  PROVE  RowsKept /\ ClaimsKept
BY DEF RowsKept, Unmoved, ClaimsKept, Still

\* A step that moves only jobs that are not active, and does not wake them.
LEMMA IdleSteps ==
  ASSUME claims' \subseteq claims, urls' = urls,
         \A j \in Jobs : accountLease'[j] = accountLease[j] \/ ~Active(j)',
         \A j \in Jobs : \/ /\ status'[j] = status[j] /\ stage'[j] = stage[j]
                            /\ ready[j] \subseteq ready'[j]
                         \/ ~Active(j) /\ ~Active(j)'
  PROVE  RowsKept /\ ClaimsKept
<1>1. RowsKept
  BY DEF RowsKept, Unmoved
<1>2. ClaimsKept
  BY DEF ClaimsKept, Still
<1> QED
  BY <1>1, <1>2

-----------------------------------------------------------------------------
(* The steps of a claim thread.                                            *)

\* A fenced claim that only changes what it remembers.
LEMMA RememberSteps ==
  ASSUME NEW c \in claims, Fenced(c), NEW d, Replace(c, d), ClaimBacked(d)',
         UNCHANGED <<status, stage, urls, accountLease>>,
         \A j \in Jobs \ {c.job} : ready[j] \subseteq ready'[j]
  PROVE  RowsKept /\ ClaimsKept
<1>1. RowsKept
  BY DEF RowsKept, Unmoved
<1>2. ClaimsKept
  BY DEF ClaimsKept, Still, Replace
<1> QED
  BY <1>1, <1>2

\* A fenced claim that gives its row back.
LEMMA EndSteps ==
  ASSUME BackInv, NEW c \in claims, Fenced(c), EndLease(c.job, c.version),
         Drop(c), urls' = urls,
         NEW st \in JobStatuses \ ActiveStatuses, NEW sg,
         status' = [status EXCEPT ![c.job] = st],
         stage' = [stage EXCEPT ![c.job] = sg],
         \A j \in Jobs \ {c.job} : ready'[j] = ready[j]
  PROVE  RowsKept /\ ClaimsKept
<1>1. c.job \in Jobs /\ TypeOK
  BY DEF BackInv, LeaseInv, TypeOK, Claims
<1>2. ~Active(c.job)' /\ owner'[c.job] = None
  BY <1>1 DEF Active, EndLease, TypeOK
<1>3. \A j \in Jobs \ {c.job} :
        /\ status'[j] = status[j] /\ stage'[j] = stage[j]
        /\ accountLease'[j] = accountLease[j]
  BY <1>1 DEF EndLease, ReleasedSlot, TypeOK
<1>4. RowsKept
  BY <1>2, <1>3 DEF RowsKept, Unmoved
<1>5. ClaimsKept
  BY <1>2, <1>3 DEF ClaimsKept, Still, Drop
<1> QED
  BY <1>4, <1>5

\* checkpoint_job, with the URLs it records: upstream stages need a row without
\* URLs, and the others need them.
LEMMA CheckpointBacked ==
  ASSUME BackInv, NEW c \in claims, Fenced(c), NEW sg \in Stages, Checkpoint(c, sg),
         c.phase # "claimed",
         urls' = urls \/ urls' = [urls EXCEPT ![c.job] = TRUE],
         sg \in UpstreamStages => ~urls[c.job] /\ ~urls'[c.job],
         sg \notin UpstreamStages => urls'[c.job]
  PROVE  RowsKept /\ ClaimsKept
<1>1. c \in Claims /\ c.job \in Jobs /\ TypeOK
  BY DEF BackInv, LeaseInv, TypeOK, Claims
<1>2. \A j \in Jobs \ {c.job} : Unmoved(j) /\ ready'[j] = ready[j]
  BY <1>1 DEF Checkpoint, Unmoved, ReleasedSlot, TypeOK
<1>3. RowBacked(c.job)'
  <2>1. status'[c.job] = "running" /\ stage'[c.job] = sg
    BY <1>1 DEF Checkpoint, TypeOK
  <2>2. Active(c.job)
    BY <1>1, QueueAssumption DEF BackInv, LeaseInv, OwnedIffActive, Fenced, Claims
  <2>3. CASE sg \in UpstreamStages
    <3>1. accountLease[c.job] # None
      BY <1>1, <2>2, <2>3 DEF BackInv, RowBacked
    <3>2. sg \notin SaveStages
      BY <2>3 DEF UpstreamStages, SaveStages
    <3>3. accountLease'[c.job] # None
      BY <3>1, <3>2 DEF Checkpoint
    <3> QED
      BY <2>1, <2>3, <3>2, <3>3 DEF RowBacked
  <2>4. CASE sg \in SaveStages
    <3>1. accountLease[c.job] # None => accountLease[c.job].version = c.version
      BY <1>1 DEF BackInv, LeaseInv, SlotsBelongToLeases, Fenced
    <3>2. accountLease'[c.job] = None
      BY <1>1, <2>4, <3>1 DEF Checkpoint, ReleasedSlot, TypeOK
    <3>3. sg \notin UpstreamStages
      BY <2>4 DEF UpstreamStages, SaveStages
    <3> QED
      BY <2>1, <3>2, <3>3 DEF RowBacked
  <2>5. CASE sg \notin UpstreamStages /\ sg \notin SaveStages
    BY <2>1, <2>5 DEF RowBacked
  <2> QED
    BY <2>3, <2>4, <2>5
<1>4. RowsKept
  BY <1>2, <1>3 DEF RowsKept
<1>5. ClaimsKept
  <2>1. DEFINE d == [c EXCEPT !.phase = IF @ = "cleared" THEN "running" ELSE @]
  <2>2. d.job = c.job /\ d.have = c.have /\ d.phase # "claimed"
        /\ d.worker = c.worker /\ d.version = c.version
    BY <1>1 DEF Claims
  <2>3. ClaimBacked(c)
    BY DEF BackInv
  <2>4. ready' = ready /\ owner' = owner /\ version' = version
    BY DEF Checkpoint
  <2>5. ClaimBacked(d)'
    BY <2>2, <2>3, <2>4 DEF ClaimBacked, Fenced
  <2>6. claims' = (claims \ {c}) \cup {d}
    BY DEF Checkpoint, Replace
  <2>7. \A j \in Jobs \ {c.job} : Still(j)
    BY <1>2 DEF Unmoved, Still
  <2> QED
    BY <2>5, <2>6, <2>7 DEF ClaimsKept
<1> QED
  BY <1>4, <1>5

LEMMA StartExecutionBacked ==
  ASSUME BackInv, NEW c \in claims, StartExecution(c)
  PROVE  RowsKept /\ ClaimsKept
<1>1. c \in Claims /\ c.job \in Jobs /\ TypeOK /\ Fenced(c)
  BY DEF BackInv, LeaseInv, TypeOK, Claims, StartExecution
<1>2. UNCHANGED <<status, stage, urls, accountLease, owner, version>>
  BY DEF StartExecution, leaseVars
<1>3. PICK found \in SUBSET ArtifactKinds :
        LET have == Resumable(c.job, found) IN
          IF ~c.slotted /\ have = "nothing" /\ ready[c.job] # {}
          THEN /\ ready' = [ready EXCEPT ![c.job] = {}]
               /\ Replace(c, [c EXCEPT !.phase = "settling",
                                       !.verdict = "retry",
                                       !.failure = "transient"])
          ELSE /\ ready' = [ready EXCEPT ![c.job] =
                    IF have \in {"downloaded", "upscaled"} THEN @ \cup {have}
                    ELSE @]
               /\ Replace(c, [c EXCEPT !.phase = "running", !.have = have,
                                       !.committed = @ \/ have = "final"])
  BY DEF StartExecution
<1> DEFINE have == Resumable(c.job, found)
<1>4. \A j \in Jobs \ {c.job} : ready'[j] = ready[j]
  BY <1>1, <1>3 DEF TypeOK
<1>5. c.have = "nothing"
  BY DEF StartExecution, BackInv, ClaimBacked
<1>6. CASE Replace(c, [c EXCEPT !.phase = "settling", !.verdict = "retry",
                                !.failure = "transient"])
  <2>1. DEFINE d == [c EXCEPT !.phase = "settling", !.verdict = "retry",
                              !.failure = "transient"]
  <2>2. d.phase = "settling" /\ d.have = "nothing"
    BY <1>1, <1>5 DEF Claims
  <2>3. ClaimBacked(d)'
    BY <2>2 DEF ClaimBacked
  <2> QED
    BY <1>1, <1>2, <1>4, <1>6, <2>3, RememberSteps
<1>7. ASSUME NEW d, Replace(c, d), d.job = c.job, d.phase = "running",
             d.have \in {"downloaded", "upscaled"} => d.have \in ready'[c.job]
      PROVE  RowsKept /\ ClaimsKept
  <2>1. ClaimBacked(d)'
    BY <1>7 DEF ClaimBacked
  <2> QED
    BY <1>1, <1>2, <1>4, <1>7, <2>1, RememberSteps
<1>8. CASE /\ ready' = [ready EXCEPT ![c.job] =
                IF have \in {"downloaded", "upscaled"} THEN @ \cup {have} ELSE @]
           /\ Replace(c, [c EXCEPT !.phase = "running", !.have = have,
                                   !.committed = @ \/ have = "final"])
  <2>1. DEFINE d == [c EXCEPT !.phase = "running", !.have = have,
                              !.committed = @ \/ have = "final"]
  <2>2. d.job = c.job /\ d.phase = "running" /\ d.have = have
    BY <1>1, Zenon DEF Claims
  <2>3. have \in {"downloaded", "upscaled"} => have \in ready'[c.job]
    BY <1>1, <1>8 DEF TypeOK
  <2>4. Replace(c, d)
    BY <1>8
  <2> HIDE DEF have, d
  <2> QED
    BY <1>7, <2>2, <2>3, <2>4
<1> QED
  BY <1>3, <1>6, <1>8

LEMMA ExecuteBacked ==
  ASSUME BackInv, NEW c \in claims, Execute(c)
  PROVE  RowsKept /\ ClaimsKept
<1>1. c \in Claims /\ c.job \in Jobs /\ TypeOK /\ ClaimBacked(c)
  BY DEF BackInv, LeaseInv, TypeOK, Claims
<1>2. CASE StartExecution(c)
  BY <1>2, StartExecutionBacked
<1>3. ASSUME NEW d, Replace(c, d), Fenced(c), d.job = c.job, d.have = c.have,
             d.phase # "claimed", d.worker = c.worker, d.version = c.version,
             UNCHANGED <<status, stage, urls, ready, accountLease, owner, version>>
      PROVE  RowsKept /\ ClaimsKept
  <2>1. ClaimBacked(d)'
    BY <1>1, <1>3 DEF ClaimBacked, Fenced
  <2> QED
    BY <1>3, <2>1, RememberSteps
<1>4. CASE EnsureActive(c)
  BY <1>1, <1>3, <1>4 DEF EnsureActive, leaseVars, checkpointVars, Claims
<1>5. CASE CheckpointGenerating(c)
  <2>1. /\ Fenced(c) /\ c.phase # "claimed" /\ urls' = urls /\ ~urls[c.job]
        /\ Checkpoint(c, "generating")
    BY <1>5 DEF CheckpointGenerating, Running
  <2> QED
    BY <2>1, CheckpointBacked DEF Stages, GenerationStages, UpstreamStages
<1>6. CASE CheckpointResolving(c)
  <2>1. /\ Fenced(c) /\ c.phase # "claimed" /\ urls' = urls /\ ~urls[c.job]
        /\ Checkpoint(c, "resolving")
    BY <1>6 DEF CheckpointResolving, Running
  <2> QED
    BY <2>1, CheckpointBacked DEF Stages, DownloadStages, UpstreamStages
<1>7. CASE CheckpointDownloading(c)
  <2>1. /\ Fenced(c) /\ c.phase # "claimed"
        /\ urls' = [urls EXCEPT ![c.job] = TRUE]
        /\ Checkpoint(c, "downloading")
    BY <1>7 DEF CheckpointDownloading, Running
  <2>2. urls'[c.job]
    BY <1>1, <2>1 DEF TypeOK
  <2> QED
    BY <2>1, <2>2, CheckpointBacked DEF Stages, DownloadStages, UpstreamStages
<1>8. CASE BeginCommit(c)
  BY <1>1, <1>3, <1>8 DEF BeginCommit, Running, leaseVars, Claims
<1>9. ASSUME NEW kind \in ArtifactKinds, Formatting(c), RecordArtifact(c, kind)
      PROVE  RowsKept /\ ClaimsKept
  <2>1. DEFINE d == [c EXCEPT !.have = kind]
  <2>2. d.job = c.job /\ d.phase = "formatting" /\ d.have = kind
    BY <1>1, <1>9 DEF Claims, Formatting
  <2>3. kind \in ready'[c.job] /\ \A j \in Jobs \ {c.job} : ready'[j] = ready[j]
    BY <1>1, <1>9 DEF RecordArtifact, TypeOK
  <2>4. ClaimBacked(d)'
    BY <2>2, <2>3 DEF ClaimBacked
  <2>5. UNCHANGED <<status, stage, urls, accountLease>> /\ Replace(c, d) /\ Fenced(c)
    BY <1>9 DEF RecordArtifact, leaseVars, Formatting
  <2> QED
    BY <2>3, <2>4, <2>5, RememberSteps
<1>10. CASE StoreDownloaded(c) \/ StoreUpscaled(c)
  BY <1>9, <1>10 DEF StoreDownloaded, StoreUpscaled, ArtifactKinds
<1>11. ASSUME NEW sg \in SaveStages, Formatting(c) \/ Running(c), Checkpoint(c, sg),
              c.have # "nothing", urls' = urls
       PROVE  RowsKept /\ ClaimsKept
  <2>1. urls[c.job]
    BY <1>11, InHand DEF BackInv
  <2>2. Fenced(c) /\ c.phase # "claimed"
    BY <1>11 DEF Formatting, Running
  <2>3. sg \in Stages /\ sg \notin UpstreamStages
    BY DEF SaveStages, Stages, UpstreamStages
  <2> QED
    BY <1>11, <2>1, <2>2, <2>3, CheckpointBacked
<1>12. CASE CheckpointTransforming(c)
  BY <1>11, <1>12 DEF CheckpointTransforming, SaveStages
<1>13. CASE CheckpointSaving(c)
  BY <1>11, <1>13 DEF CheckpointSaving, SaveStages
<1>14. CASE CompleteJob(c)
  <2>1. PICK st \in {"canceled", "success"} :
          /\ status' = [status EXCEPT ![c.job] = st]
          /\ stage' = [stage EXCEPT ![c.job] = st]
    BY <1>14 DEF CompleteJob, MoveJob
  <2>2. st \in JobStatuses \ ActiveStatuses
    BY DEF JobStatuses, TerminalJobStatuses, ActiveStatuses
  <2>3. Fenced(c) /\ EndLease(c.job, c.version) /\ Drop(c) /\ urls' = urls
    BY <1>14 DEF CompleteJob, Running, Formatting
  <2>4. \A j \in Jobs \ {c.job} : ready'[j] = ready[j]
    BY <1>1, <1>14 DEF CompleteJob, TypeOK
  <2> QED
    BY <2>1, <2>2, <2>3, <2>4, EndSteps
<1> QED
  BY <1>2, <1>4, <1>5, <1>6, <1>7, <1>8, <1>10, <1>12, <1>13, <1>14 DEF Execute

LEMMA SettleBacked ==
  ASSUME BackInv, NEW c \in claims,
         \/ Settle(c)
         \/ \E f \in FailureClasses : Raise(c, f)
         \/ GateClosed(c) \/ Strand(c) \/ GiveUp(c)
  PROVE  RowsKept /\ ClaimsKept
<1>1. c \in Claims /\ c.job \in Jobs /\ TypeOK /\ ClaimBacked(c)
  BY DEF BackInv, LeaseInv, TypeOK, Claims
<1>2. ASSUME NEW refund, ReleaseClaim(c, refund) PROVE RowsKept /\ ClaimsKept
  <2>1. PICK st \in {"canceled", "queued"} :
          \E sg : /\ status' = [status EXCEPT ![c.job] = st]
                 /\ stage' = [stage EXCEPT ![c.job] = sg]
    BY <1>2 DEF ReleaseClaim, MoveJob
  <2>2. PICK sg : /\ status' = [status EXCEPT ![c.job] = st]
                  /\ stage' = [stage EXCEPT ![c.job] = sg]
    BY <2>1
  <2>3. st \in JobStatuses \ ActiveStatuses
    BY DEF JobStatuses, WaitingStatuses, TerminalJobStatuses, ActiveStatuses
  <2>4. /\ Fenced(c) /\ EndLease(c.job, c.version) /\ Drop(c)
        /\ UNCHANGED <<urls, ready>>
    BY <1>2 DEF ReleaseClaim, checkpointVars
  <2> QED
    BY <2>2, <2>3, <2>4, EndSteps
<1>3. CASE ReleaseCanceled(c) \/ SettleRelease(c) \/ GateClosed(c)
  BY <1>2, <1>3 DEF ReleaseCanceled, SettleRelease, GateClosed
<1>4. CASE SettleRetry(c)
  <2>1. /\ status' = [status EXCEPT ![c.job] = "retry_wait"]
        /\ stage' = [stage EXCEPT ![c.job] = stage[c.job]]
        /\ Fenced(c) /\ EndLease(c.job, c.version) /\ Drop(c)
        /\ UNCHANGED <<urls, ready>>
    BY <1>4 DEF SettleRetry, Settling, MoveJob
  <2>2. "retry_wait" \in JobStatuses \ ActiveStatuses
    BY DEF JobStatuses, WaitingStatuses, ActiveStatuses
  <2> QED
    BY <2>1, <2>2, EndSteps
<1>5. CASE SettleFailure(c)
  <2>1. /\ status' = [status EXCEPT ![c.job] = "failed"]
        /\ stage' = [stage EXCEPT ![c.job] = "failed"]
        /\ Fenced(c) /\ EndLease(c.job, c.version) /\ Drop(c)
        /\ UNCHANGED <<urls, ready>>
    BY <1>5 DEF SettleFailure, Settling, MoveJob, checkpointVars
  <2>2. "failed" \in JobStatuses \ ActiveStatuses
    BY DEF JobStatuses, TerminalJobStatuses, ActiveStatuses
  <2> QED
    BY <2>1, <2>2, EndSteps
<1>6. CASE LoseClaim(c) \/ GiveUp(c)
  <2>1. UNCHANGED <<status, stage, urls, ready, accountLease>> /\ Drop(c)
    BY <1>6 DEF LoseClaim, GiveUp, leaseVars, checkpointVars
  <2> QED
    BY <2>1, QuietSteps DEF Drop
<1>7. CASE Strand(c)
  <2>1. DEFINE d == [c EXCEPT !.phase = "stranded"]
  <2>2. /\ UNCHANGED <<status, stage, urls, ready, accountLease, owner, version>>
        /\ Replace(c, d)
    BY <1>7 DEF Strand, leaseVars, checkpointVars
  <2>3. /\ d.job = c.job /\ d.worker = c.worker /\ d.version = c.version
        /\ d.phase = "stranded" /\ d.have = c.have
    BY <1>1 DEF Claims
  <2>4. ClaimBacked(d)'
    BY <1>1, <2>2, <2>3 DEF ClaimBacked, Fenced
  <2>5. (\A j \in Jobs : Still(j)) /\ RowsKept
    BY <2>2 DEF Still, RowsKept, Unmoved
  <2> QED
    BY <2>2, <2>4, <2>5 DEF ClaimsKept, Replace
<1>8. ASSUME NEW d, Replace(c, d), Fenced(c), d.job = c.job, d.have = c.have,
             d.phase = "settling", d.worker = c.worker, d.version = c.version,
             UNCHANGED <<status, stage, urls, ready, accountLease, owner, version>>
      PROVE  RowsKept /\ ClaimsKept
  <2>1. ClaimBacked(d)'
    BY <1>1, <1>8 DEF ClaimBacked, Fenced
  <2> QED
    BY <1>8, <2>1, RememberSteps
<1>9. ASSUME NEW f \in FailureClasses, Raise(c, f) PROVE RowsKept /\ ClaimsKept
  <2>1. DEFINE d == [c EXCEPT !.phase = "settling", !.failure = f,
                              !.verdict = VerdictOn(c.job, f)]
  <2>2. /\ UNCHANGED <<status, stage, urls, ready, accountLease, owner, version>>
        /\ Replace(c, d) /\ Fenced(c)
    BY <1>9 DEF Raise, leaseVars, checkpointVars
  <2>3. /\ d.job = c.job /\ d.worker = c.worker /\ d.version = c.version
        /\ d.phase = "settling" /\ d.have = c.have
    BY <1>1 DEF Claims
  <2> HIDE DEF d
  <2> QED
    BY <1>8, <2>2, <2>3
<1> QED
  BY <1>3, <1>4, <1>5, <1>6, <1>7, <1>9 DEF Settle

-----------------------------------------------------------------------------
(* Claiming, sweeping, recovering, and the callers.                        *)

LEMMA TakeJobBacked ==
  ASSUME BackInv, NEW w \in Workers, NEW j \in Jobs, NEW slot, Waiting(j),
         slot # None \/ urls[j], TakeJob(w, j, slot)
  PROVE  RowsKept /\ ClaimsKept
<1>1. TypeOK /\ ~Active(j)
  BY DEF BackInv, LeaseInv, Waiting, WaitingStatuses, Active, ActiveStatuses
<1>2. /\ UNCHANGED <<urls, ready>>
      /\ claims' = claims \cup {NewClaim(w, j, slot # None)}
  BY DEF TakeJob, checkpointVars
<1>3. \A k \in Jobs \ {j} : Unmoved(k)
  BY <1>1 DEF Unmoved, TakeJob, checkpointVars, TypeOK
<1>4. status'[j] = "leased" /\ accountLease'[j] = slot
  BY <1>1 DEF TakeJob, TypeOK
<1>5. RowsKept
  BY <1>2, <1>3, <1>4 DEF RowsKept, RowBacked
<1>6. \A k \in Jobs : Still(k)
  BY <1>1, <1>2, <1>3 DEF Still, Unmoved
<1>7. ASSUME NEW d, d = NewClaim(w, j, slot # None) PROVE ClaimBacked(d)'
  BY <1>4, <1>7 DEF NewClaim, ClaimBacked
<1>8. ClaimsKept
  BY <1>2, <1>6, <1>7 DEF ClaimsKept
<1> QED
  BY <1>5, <1>8

LEMMA SweepBacked ==
  ASSUME BackInv, NEW js \in SUBSET Jobs, SweepLeases(js), UNCHANGED claims
  PROVE  RowsKept /\ ClaimsKept
<1>1. \A j \in js : ~Active(j)' /\ owner'[j] = None
  BY DEF SweepLeases, Active, ActiveStatuses
<1>2. \A j \in Jobs \ js : Unmoved(j) /\ ready'[j] = ready[j]
  BY DEF SweepLeases, Unmoved, checkpointVars
<1>3. RowsKept
  BY <1>1, <1>2 DEF RowsKept
<1>4. ClaimsKept
  BY <1>1, <1>2 DEF ClaimsKept, Still, Unmoved
<1> QED
  BY <1>3, <1>4

LEMMA WorkerBacked ==
  ASSUME BackInv, NEW w \in Workers, WorkerStep(w)
  PROVE  RowsKept /\ ClaimsKept
<1>1. TypeOK
  BY DEF BackInv, LeaseInv
<1>2. ASSUME NEW j \in Jobs, ClaimNextJob(w, j) PROVE RowsKept /\ ClaimsKept
  <2>1. Waiting(j)
    BY <1>2 DEF ClaimNextJob, Claimable
  <2>2. CASE ClaimLocal(w, j)
    <3>1. urls[j]
      BY <2>2 DEF ClaimLocal, LocalRecovery, BackInv, CheckpointInv, RowOK
    <3> QED
      BY <2>1, <2>2, <3>1, TakeJobBacked DEF ClaimLocal
  <2>3. CASE ClaimRemote(w, j)
    <3>1. PICK candidates \in SUBSET Accounts :
            IF AccountlessRecovery(j, candidates) THEN TakeJob(w, j, None)
            ELSE \E a \in EligibleAccounts(j, candidates), s \in Slots :
                   /\ SlotFree(a, s)
                   /\ TakeJob(w, j, [account |-> a, slot |-> s,
                                     version |-> version[j] + 1])
      BY <2>3 DEF ClaimRemote
    <3>2. CASE AccountlessRecovery(j, candidates)
      BY <2>1, <3>1, <3>2, TakeJobBacked DEF AccountlessRecovery
    <3>3. CASE ~AccountlessRecovery(j, candidates)
      <4>1. PICK a \in EligibleAccounts(j, candidates), s \in Slots :
              TakeJob(w, j, [account |-> a, slot |-> s, version |-> version[j] + 1])
        BY <3>1, <3>3
      <4>2. a \in Accounts
        BY DEF EligibleAccounts
      <4>3. [account |-> a, slot |-> s, version |-> version[j] + 1] # None
        BY <1>1, <4>2, QueueAssumption DEF TypeOK
      <4> QED
        BY <2>1, <4>1, <4>3, TakeJobBacked
    <3> QED
      BY <3>2, <3>3
  <2> QED
    BY <1>2, <2>2, <2>3 DEF ClaimNextJob
<1>3. ASSUME NEW j \in Jobs, FailUnrecoverable(w, j) PROVE RowsKept /\ ClaimsKept
  <2>1. /\ ~Active(j) /\ UNCHANGED <<urls, ready, claims>>
        /\ status' = [status EXCEPT ![j] = "failed"]
        /\ stage' = [stage EXCEPT ![j] = "failed"]
        /\ accountLease' = [accountLease EXCEPT ![j] = None]
    BY <1>3 DEF FailUnrecoverable, Claimable, Waiting, WaitingStatuses, Active,
       ActiveStatuses, MoveJob, checkpointVars, workerVars
  <2>2. ~Active(j)'
    BY <1>1, <2>1 DEF Active, ActiveStatuses, TypeOK
  <2>3. \A k \in Jobs \ {j} :
          /\ status'[k] = status[k] /\ stage'[k] = stage[k]
          /\ accountLease'[k] = accountLease[k]
    BY <1>1, <2>1 DEF TypeOK
  <2> QED
    BY <2>1, <2>2, <2>3, IdleSteps
<1>4. CASE Heartbeat(w) \/ WorkerGoesStale(w) \/ Crash(w) \/ ListRecoverable(w)
           \/ StartWorker(w)
  <2>1. /\ UNCHANGED <<status, stage, urls, ready, accountLease>>
        /\ claims' \subseteq claims
    BY <1>4 DEF Heartbeat, WorkerGoesStale, Crash, ListRecoverable, StartWorker,
       leaseVars, checkpointVars
  <2> QED
    BY <2>1, QuietSteps
<1>5. CASE ReclaimLeases(w) \/ Boot(w)
  BY <1>5, SweepBacked DEF ReclaimLeases, Boot, Reclaimable, workerVars
<1>6. ASSUME NEW r \in plan[w], RequeueForRecovery(w, r) PROVE RowsKept /\ ClaimsKept
  <2>1. r.job \in Jobs
    BY <1>1, <1>6 DEF TypeOK
  <2>2. UNCHANGED <<urls, ready, accountLease, claims>>
    BY <1>6 DEF RequeueForRecovery, leaseVars, checkpointVars
  <2>3. CASE UNCHANGED <<status, stage>>
    BY <2>2, <2>3, QuietSteps
  <2>4. CASE /\ Waiting(r.job)
             /\ status' = [status EXCEPT ![r.job] = "queued"]
             /\ stage' = [stage EXCEPT ![r.job] = r.stage]
    <3>1. ~Active(r.job) /\ ~Active(r.job)'
      BY <1>1, <2>1, <2>4 DEF Waiting, WaitingStatuses, Active, ActiveStatuses, TypeOK
    <3>2. \A k \in Jobs \ {r.job} : status'[k] = status[k] /\ stage'[k] = stage[k]
      BY <1>1, <2>1, <2>4 DEF TypeOK
    <3> QED
      BY <2>2, <3>1, <3>2, IdleSteps
  <2> QED
    BY <1>6, <2>3, <2>4 DEF RequeueForRecovery
<1> QED
  BY <1>2, <1>3, <1>4, <1>5, <1>6 DEF WorkerStep, BootStep

\* An operation of a caller that moves one job that nobody works on.
LEMMA MoveIdleJob ==
  ASSUME TypeOK, NEW j \in Jobs, ~Active(j), NEW st \in JobStatuses \ ActiveStatuses,
         NEW sg, status' = [status EXCEPT ![j] = st], stage' = [stage EXCEPT ![j] = sg],
         UNCHANGED <<urls, accountLease, claims>>,
         \A k \in Jobs \ {j} : ready'[k] = ready[k]
  PROVE  RowsKept /\ ClaimsKept
<1>1. ~Active(j)'
  BY DEF Active, TypeOK
<1>2. \A k \in Jobs \ {j} : status'[k] = status[k] /\ stage'[k] = stage[k]
  BY DEF TypeOK
<1> QED
  BY <1>1, <1>2, IdleSteps

LEMMA CallerBacked ==
  ASSUME BackInv, NEW j \in Jobs,
         \/ LeaseExpires(j) \/ BecomeDue(j) \/ ExpirePending(j)
         \/ FailUndeliverable(j)
         \/ \E k \in {"upscaled", "downloaded", "nothing"} : RequeueUndeliverable(j, k)
         \/ \E k \in ArtifactKinds : AdoptArtifact(j, k)
  PROVE  RowsKept /\ ClaimsKept
<1>1. TypeOK
  BY DEF BackInv, LeaseInv
<1>2. CASE LeaseExpires(j) \/ BecomeDue(j)
  <2>1. UNCHANGED <<status, stage, urls, ready, accountLease, claims>>
    BY <1>2 DEF LeaseExpires, BecomeDue, leaseVars, checkpointVars, workerVars
  <2> QED
    BY <2>1, QuietSteps
<1>3. {"queued", "failed"} \subseteq JobStatuses \ ActiveStatuses
  BY DEF JobStatuses, WaitingStatuses, TerminalJobStatuses, ActiveStatuses
<1>4. CASE ExpirePending(j) \/ FailUndeliverable(j)
  <2>1. /\ ~Active(j) /\ UNCHANGED <<urls, accountLease, claims>>
        /\ status' = [status EXCEPT ![j] = "failed"]
        /\ stage' = [stage EXCEPT ![j] = "failed"]
    BY <1>4 DEF ExpirePending, FailUndeliverable, MoveJob, Active, ActiveStatuses,
       checkpointVars, workerVars
  <2>2. \/ ready' = ready
        \/ ready' = [ready EXCEPT ![j] = @ \ {"final"}]
    BY <1>4 DEF ExpirePending, FailUndeliverable, checkpointVars
  <2>3. \A k \in Jobs \ {j} : ready'[k] = ready[k]
    BY <1>1, <2>2 DEF TypeOK
  <2> QED
    BY <1>1, <1>3, <2>1, <2>3, MoveIdleJob
<1>5. ASSUME NEW k \in {"upscaled", "downloaded", "nothing"}, RequeueUndeliverable(j, k)
      PROVE  RowsKept /\ ClaimsKept
  <2>1. /\ ~Active(j) /\ UNCHANGED <<urls, accountLease, claims>>
        /\ status' = [status EXCEPT ![j] = "queued"]
    BY <1>5 DEF RequeueUndeliverable, Active, ActiveStatuses, leaseVars, workerVars
  <2>2. PICK sg : stage' = [stage EXCEPT ![j] = sg]
    BY <1>5 DEF RequeueUndeliverable
  <2>3. \A i \in Jobs \ {j} : ready'[i] = ready[i]
    BY <1>1, <1>5 DEF RequeueUndeliverable, TypeOK
  <2> QED
    BY <1>1, <1>3, <2>1, <2>2, <2>3, MoveIdleJob
<1>6. ASSUME NEW k \in ArtifactKinds, AdoptArtifact(j, k) PROVE RowsKept /\ ClaimsKept
  <2>1. /\ UNCHANGED <<urls, accountLease, claims>>
        /\ ~Active(j)
        /\ ready' = [ready EXCEPT ![j] = @ \cup {k}]
    BY <1>6 DEF AdoptArtifact, Waiting, WaitingStatuses, TimedOut, Active, ActiveStatuses
  <2>2. \A i \in Jobs : ready[i] \subseteq ready'[i]
    BY <1>1, <2>1 DEF TypeOK
  <2>3. CASE UNCHANGED <<status, stage>>
    BY <2>1, <2>2, <2>3, IdleSteps
  <2>4. ASSUME NEW sg, status' = [status EXCEPT ![j] = "queued"],
               stage' = [stage EXCEPT ![j] = sg]
        PROVE  RowsKept /\ ClaimsKept
    <3>1. \A i \in Jobs \ {j} : ready'[i] = ready[i]
      BY <1>1, <2>1 DEF TypeOK
    <3> QED
      BY <1>1, <1>3, <2>1, <2>4, <3>1, MoveIdleJob
  <2> QED
    BY <1>6, <2>3, <2>4 DEF AdoptArtifact
<1> QED
  BY <1>2, <1>4, <1>5, <1>6

LEMMA NextBacked ==
  ASSUME BackInv, [Next]_vars
  PROVE  RowsKept /\ ClaimsKept
<1>1. CASE UNCHANGED vars \/ ListAdoptable
  <2>1. UNCHANGED <<status, stage, urls, ready, accountLease, claims>>
    BY <1>1 DEF vars, ListAdoptable, leaseVars, checkpointVars, workerVars
  <2> QED
    BY <2>1, QuietSteps
<1>2. ASSUME NEW w \in Workers, WorkerStep(w) PROVE RowsKept /\ ClaimsKept
  BY <1>2, WorkerBacked
<1>3. ASSUME NEW j \in Jobs, JobStep(j) PROVE RowsKept /\ ClaimsKept
  <2>1. CASE ClaimStep(j)
    BY <2>1, ExecuteBacked, SettleBacked DEF ClaimStep
  <2>2. CASE ~ClaimStep(j)
    BY <1>3, <2>2, CallerBacked DEF JobStep
  <2> QED
    BY <2>1, <2>2
<1>4. ASSUME NEW c \in claims, GateClosed(c) \/ Strand(c) \/ GiveUp(c)
      PROVE  RowsKept /\ ClaimsKept
  BY <1>4, SettleBacked
<1>5. ASSUME NEW t \in Tasks, RequestCancel(t) \/ ResumeFailed(t)
      PROVE  RowsKept /\ ClaimsKept
  <2>1. UNCHANGED <<urls, ready, accountLease, claims>>
    BY <1>5 DEF RequestCancel, ResumeFailed, leaseVars, checkpointVars, workerVars
  <2>2. ASSUME NEW j \in Jobs
        PROVE  \/ status'[j] = status[j] /\ stage'[j] = stage[j]
               \/ ~Active(j) /\ ~Active(j)'
    BY <1>5 DEF RequestCancel, ResumeFailed, Active, ActiveStatuses, Waiting,
       WaitingStatuses
  <2> QED
    BY <2>1, <2>2, IdleSteps
<1> QED
  BY <1>1, <1>2, <1>3, <1>4, <1>5 DEF Next

-----------------------------------------------------------------------------
(* Theorems.                                                               *)

\* The inductive invariant: rows that are worked on have their slot or their
\* URLs, and every claim that passes the fence remembers its row as it is.
THEOREM BackInvariance == Spec => []BackInv
<1>1. Init /\ LeaseInv /\ CheckpointInv => BackInv
  BY DEF Init, BackInv, RowBacked, Active, ActiveStatuses
<1>2. BackInv /\ LeaseInv' /\ CheckpointInv' /\ [Next]_vars => BackInv'
  <2> SUFFICES ASSUME BackInv, LeaseInv', CheckpointInv', [Next]_vars PROVE BackInv'
    OBVIOUS
  <2>1. RowsKept /\ ClaimsKept
    BY NextBacked
  <2>2. LeaseStep
    BY NextIsLeaseStep DEF BackInv, LeaseInv
  <2>3. \A j \in Jobs : RowBacked(j)'
    BY <2>1, RowsKeptKeepsRows DEF BackInv
  <2>4. \A d \in claims' : ClaimBacked(d)'
    BY <2>1, <2>2, ClaimsKeptKeepsClaims DEF BackInv
  <2> QED
    BY <2>3, <2>4 DEF BackInv
<1> QED
  BY <1>1, <1>2, LeaseInvariance, CheckpointInvariance, PTL DEF Spec

\* A job that generates or waits upstream holds a slot of its account, and one
\* that is post-processed has given it back, whatever fails or restarts.
THEOREM UpstreamHoldsASlot == Spec => []SlotHeldWhileUpstream
<1>1. BackInv => SlotHeldWhileUpstream
  <2> SUFFICES ASSUME BackInv, NEW j \in Jobs, status[j] = "running"
               PROVE  /\ stage[j] \in {"generating", "resolving"} => accountLease[j] # None
                      /\ stage[j] \in SaveStages => accountLease[j] = None
    BY DEF SlotHeldWhileUpstream
  <2>1. Active(j) /\ RowBacked(j)
    BY DEF Active, ActiveStatuses, BackInv
  <2> QED
    BY <2>1 DEF RowBacked, UpstreamStages
<1> QED
  BY <1>1, BackInvariance, PTL

\* What a claim that passes the fence remembers of its row is true: the row is
\* active, leased while it has not started, and has the files in its hands.
THEOREM ClaimsKnowTheirRows == Spec => []ClaimMatchesRow
<1>1. BackInv => ClaimMatchesRow
  BY QueueAssumption DEF BackInv, ClaimBacked, ClaimMatchesRow, Fenced, LeaseInv,
     OwnedIffActive, TypeOK, Claims
<1> QED
  BY <1>1, BackInvariance, PTL

-----------------------------------------------------------------------------
(* Without pauses no claim loses its row.  The lease of a held job never    *)
(* runs out, so no sweep takes it; everything else that ends a lease is     *)
(* done by the one claim that holds it, or to a job that nobody holds.      *)

Unshaken(j) ==
  /\ owner'[j] = owner[j] /\ version'[j] = version[j]
  /\ timer'[j] = timer[j] \/ timer'[j] = "fresh"

HeldStep ==
  \A d \in claims' : \/ Fenced(d)' /\ timer'[d.job] = "fresh"
                     \/ \E c \in claims : SameClaim(c, d) /\ Unshaken(c.job)

LEMMA HeldStepKeepsInv ==
  ASSUME HeldInv, HeldStep
  PROVE  HeldInv'
BY DEF HeldInv, HeldStep, SameClaim, Unshaken, Fenced

\* A step that leaves the lease columns, and adds no claim.
LEMMA LeavesLeases ==
  ASSUME UNCHANGED <<owner, version, timer>>,
         \A d \in claims' : \E c \in claims : SameClaim(c, d)
  PROVE  HeldStep
BY DEF HeldStep, Unshaken

LEMMA LeavesLeasesAndClaims ==
  ASSUME UNCHANGED <<owner, version, timer>>, claims' \subseteq claims
  PROVE  HeldStep
<1>1. \A d \in claims' : \E c \in claims : SameClaim(c, d)
  BY DEF SameClaim
<1> QED
  BY <1>1, LeavesLeases

\* A job that nobody works on is not held by a claim.
LEMMA HeldIsActive ==
  ASSUME LeaseInv, HeldInv, NEW c \in claims
  PROVE  /\ c \in Claims /\ c.job \in Jobs /\ Active(c.job) /\ Fenced(c)
         /\ timer[c.job] = "fresh"
<1>1. c \in Claims /\ c.job \in Jobs /\ c.worker # None
  BY QueueAssumption DEF LeaseInv, TypeOK, Claims
<1> QED
  BY <1>1 DEF LeaseInv, OwnedIffActive, HeldInv, Fenced

LEMMA ClearsIdleLease ==
  ASSUME LeaseInv, HeldInv, NEW j \in Jobs, ~Active(j),
         owner' = [owner EXCEPT ![j] = None], timer' = [timer EXCEPT ![j] = "fresh"],
         UNCHANGED <<version, claims>>
  PROVE  HeldStep
<1>1. ASSUME NEW d \in claims PROVE Unshaken(d.job)
  <2>1. d.job \in Jobs /\ d.job # j
    BY <1>1, HeldIsActive
  <2> QED
    BY <2>1 DEF Unshaken, LeaseInv, TypeOK
<1> QED
  BY <1>1 DEF HeldStep, SameClaim

\* The claim that ends its lease is the only one of its job.
LEMMA EndsOwnLease ==
  ASSUME LeaseInv, HeldInv, NEW c \in claims, EndLease(c.job, c.version), Drop(c)
  PROVE  HeldStep
<1>1. ASSUME NEW d \in claims, d # c PROVE Unshaken(d.job)
  <2>1. d.job # c.job
    BY <1>1, HeldIsActive DEF LeaseInv, UniqueClaims, Fenced
  <2>2. d.job \in Jobs
    BY <1>1, HeldIsActive
  <2> QED
    BY <2>1, <2>2 DEF Unshaken, EndLease, LeaseInv, TypeOK
<1> QED
  BY <1>1 DEF HeldStep, SameClaim, Drop

LEMMA ThreadHolds ==
  ASSUME LeaseInv, HeldInv, TypeOK', NEW c \in claims,
         \/ Execute(c) \/ Settle(c)
         \/ \E f \in FailureClasses : Raise(c, f)
         \/ GateClosed(c) \/ Strand(c) \/ GiveUp(c)
  PROVE  HeldStep
<1>1. c \in Claims
  BY HeldIsActive
<1>2. CASE EndLease(c.job, c.version) /\ Drop(c)
  BY <1>2, EndsOwnLease
<1>3. CASE UNCHANGED <<owner, version, timer>> /\ Drop(c)
  BY <1>3, LeavesLeasesAndClaims DEF Drop
<1>4. ASSUME NEW d, Replace(c, d), SameClaim(c, d), UNCHANGED <<owner, version, timer>>
      PROVE  HeldStep
  BY <1>4, LeavesLeases DEF Replace, SameClaim
<1>5. CASE StartExecution(c)
  <2>1. \/ Replace(c, [c EXCEPT !.phase = "settling", !.verdict = "retry",
                                !.failure = "transient"])
        \/ \E have : Replace(c, [c EXCEPT !.phase = "running", !.have = have,
                                         !.committed = @ \/ have = "final"])
    BY <1>5 DEF StartExecution
  <2>2. /\ SameClaim(c, [c EXCEPT !.phase = "settling", !.verdict = "retry",
                                  !.failure = "transient"])
        /\ \A have : SameClaim(c, [c EXCEPT !.phase = "running", !.have = have,
                                            !.committed = @ \/ have = "final"])
    BY <1>1 DEF SameClaim, Claims
  <2> QED
    BY <1>4, <1>5, <2>1, <2>2 DEF StartExecution, leaseVars
<1>6. CASE EnsureActive(c) \/ BeginCommit(c) \/ Strand(c)
  BY <1>1, <1>4, <1>6 DEF EnsureActive, BeginCommit, Strand, leaseVars, SameClaim, Claims
<1>7. ASSUME NEW sg, Checkpoint(c, sg) PROVE HeldStep
  <2>1. DEFINE d == [c EXCEPT !.phase = IF @ = "cleared" THEN "running" ELSE @]
  <2>2. SameClaim(c, d)
    BY <1>1 DEF SameClaim, Claims
  <2> QED
    BY <1>4, <1>7, <2>2 DEF Checkpoint
<1>8. CASE \/ CheckpointGenerating(c) \/ CheckpointResolving(c)
           \/ CheckpointDownloading(c) \/ CheckpointTransforming(c)
           \/ CheckpointSaving(c)
  BY <1>7, <1>8 DEF CheckpointGenerating, CheckpointResolving,
     CheckpointDownloading, CheckpointTransforming, CheckpointSaving
<1>9. CASE StoreDownloaded(c) \/ StoreUpscaled(c)
  BY <1>1, <1>4, <1>9 DEF StoreDownloaded, StoreUpscaled, RecordArtifact,
     leaseVars, SameClaim, Claims
<1>10. CASE CompleteJob(c)
  BY <1>2, <1>10 DEF CompleteJob
<1>11. CASE ReleaseCanceled(c) \/ SettleRelease(c) \/ GateClosed(c)
  BY <1>2, <1>11 DEF ReleaseCanceled, SettleRelease, GateClosed, ReleaseClaim
<1>12. CASE SettleRetry(c) \/ SettleFailure(c)
  BY <1>2, <1>12 DEF SettleRetry, SettleFailure
<1>13. CASE LoseClaim(c) \/ GiveUp(c)
  BY <1>3, <1>13 DEF LoseClaim, GiveUp, leaseVars
<1>14. ASSUME NEW f \in FailureClasses, Raise(c, f) PROVE HeldStep
  BY <1>1, <1>4, <1>14 DEF Raise, leaseVars, SameClaim, Claims
<1> QED
  BY <1>5, <1>6, <1>8, <1>9, <1>10, <1>11, <1>12, <1>13, <1>14 DEF Execute, Settle

\* A claim is made for a job that nobody holds, with a fresh lease.
LEMMA TakesFresh ==
  ASSUME LeaseInv, HeldInv, NEW w \in Workers, NEW j \in Jobs, Waiting(j),
         NEW slot, TakeJob(w, j, slot)
  PROVE  HeldStep
<1>1. TypeOK /\ ~Active(j)
  BY DEF LeaseInv, Waiting, WaitingStatuses, Active, ActiveStatuses
<1>2. ASSUME NEW d \in claims PROVE Unshaken(d.job)
  <2>1. d.job \in Jobs /\ d.job # j
    BY <1>1, <1>2, HeldIsActive
  <2> QED
    BY <1>1, <2>1 DEF Unshaken, TakeJob, TypeOK
<1>3. ASSUME NEW d, d = NewClaim(w, j, slot # None)
      PROVE  Fenced(d)' /\ timer'[d.job] = "fresh"
  BY <1>1, <1>3 DEF NewClaim, TakeJob, Fenced, TypeOK
<1>4. claims' = claims \cup {NewClaim(w, j, slot # None)}
  BY DEF TakeJob
<1> QED
  BY <1>2, <1>3, <1>4 DEF HeldStep, SameClaim

\* A sweep takes only leases that ran out.
LEMMA SweepSparesHeld ==
  ASSUME LeaseInv, HeldInv, NEW w \in Workers, SweepLeases(Reclaimable(w)),
         UNCHANGED claims
  PROVE  HeldStep
<1>1. ASSUME NEW d \in claims PROVE Unshaken(d.job)
  <2>1. d.job \in Jobs /\ d.job \notin Reclaimable(w)
    BY <1>1, HeldIsActive DEF Reclaimable
  <2> QED
    BY <2>1 DEF Unshaken, SweepLeases
<1> QED
  BY <1>1 DEF HeldStep, SameClaim

LEMMA NextHolds ==
  ASSUME "pause" \notin Disruptions, LeaseInv, HeldInv, TypeOK', [Next]_vars
  PROVE  HeldStep
<1>1. CASE UNCHANGED vars \/ ListAdoptable
  BY <1>1, LeavesLeasesAndClaims DEF vars, ListAdoptable, leaseVars, workerVars
<1>2. ASSUME NEW w \in Workers, WorkerStep(w) PROVE HeldStep
  <2>1. ASSUME NEW j \in Jobs, ClaimNextJob(w, j) PROVE HeldStep
    <3>1. Waiting(j)
      BY <2>1 DEF ClaimNextJob, Claimable
    <3>2. \E slot : TakeJob(w, j, slot)
      BY <2>1 DEF ClaimNextJob, ClaimLocal, ClaimRemote
    <3> QED
      BY <3>1, <3>2, TakesFresh
  <2>2. CASE Heartbeat(w)
    BY <2>2, HeldIsActive DEF Heartbeat, HeldStep, SameClaim, Unshaken
  <2>3. CASE ReclaimLeases(w) \/ Boot(w)
    BY <2>3, SweepSparesHeld DEF ReclaimLeases, Boot, workerVars
  <2>4. CASE \/ WorkerGoesStale(w) \/ Crash(w) \/ ListRecoverable(w) \/ StartWorker(w)
             \/ \E j \in Jobs : FailUnrecoverable(w, j)
             \/ \E r \in plan[w] : RequeueForRecovery(w, r)
    <3>1. UNCHANGED <<owner, version, timer>> /\ claims' \subseteq claims
      BY <2>4 DEF WorkerGoesStale, Crash, ListRecoverable, StartWorker,
         FailUnrecoverable, RequeueForRecovery, leaseVars, workerVars
    <3> QED
      BY <3>1, LeavesLeasesAndClaims
  <2> QED
    BY <1>2, <2>1, <2>2, <2>3, <2>4 DEF WorkerStep, BootStep
<1>3. ASSUME NEW j \in Jobs, JobStep(j) PROVE HeldStep
  <2>1. CASE ClaimStep(j)
    BY <2>1, ThreadHolds DEF ClaimStep
  <2>2. CASE LeaseExpires(j)
    <3>1. ~Held(j)
      BY <2>2 DEF LeaseExpires, Disturb
    <3>2. ASSUME NEW d \in claims PROVE Unshaken(d.job)
      <4>1. d.job \in Jobs /\ d.job # j
        BY <3>1, <3>2, HeldIsActive DEF Held
      <4> QED
        BY <2>2, <4>1 DEF LeaseExpires, Unshaken, LeaseInv, TypeOK
    <3> QED
      BY <2>2, <3>2 DEF LeaseExpires, workerVars, HeldStep, SameClaim
  <2>3. CASE \/ BecomeDue(j)
             \/ \E k \in {"upscaled", "downloaded", "nothing"} : RequeueUndeliverable(j, k)
    BY <2>3, LeavesLeasesAndClaims DEF BecomeDue, RequeueUndeliverable, leaseVars, workerVars
  <2>4. CASE ExpirePending(j) \/ FailUndeliverable(j)
    <3>1. ~Active(j)
      BY <2>4 DEF ExpirePending, FailUndeliverable, Active, ActiveStatuses
    <3> QED
      BY <2>4, <3>1, ClearsIdleLease DEF ExpirePending, FailUndeliverable, workerVars
  <2>5. ASSUME NEW k \in ArtifactKinds, AdoptArtifact(j, k) PROVE HeldStep
    <3>1. ~Active(j) /\ UNCHANGED <<version, claims>>
      BY <2>5 DEF AdoptArtifact, Waiting, WaitingStatuses, TimedOut, Active, ActiveStatuses
    <3> QED
      BY <2>5, <3>1, ClearsIdleLease, LeavesLeasesAndClaims DEF AdoptArtifact
  <2> QED
    BY <1>3, <2>1, <2>2, <2>3, <2>4, <2>5 DEF JobStep
<1>4. ASSUME NEW c \in claims, GateClosed(c) \/ Strand(c) \/ GiveUp(c) PROVE HeldStep
  BY <1>4, ThreadHolds
<1>5. ASSUME NEW t \in Tasks, RequestCancel(t) \/ ResumeFailed(t) PROVE HeldStep
  BY <1>5, LeavesLeasesAndClaims DEF RequestCancel, ResumeFailed, leaseVars, workerVars
<1> QED
  BY <1>1, <1>2, <1>3, <1>4, <1>5 DEF Next

\* Nothing takes a job from the thread that works on it (a cancel, a sweep, the
\* start of another worker, an expiry, an operation of the API) unless a pause
\* of its process lets the lease run out.
THEOREM OnlyPausesLoseRows ==
  ASSUME "pause" \notin Disruptions
  PROVE  Spec => []ClaimsKeepTheirRows
<1>1. Init => HeldInv
  BY DEF Init, HeldInv
<1>2. LeaseInv /\ LeaseInv' /\ HeldInv /\ [Next]_vars => HeldInv'
  BY NextHolds, HeldStepKeepsInv DEF LeaseInv
<1>3. HeldInv => ClaimsKeepTheirRows
  BY DEF HeldInv, ClaimsKeepTheirRows
<1> QED
  BY <1>1, <1>2, <1>3, LeaseInvariance, PTL DEF Spec

\* A thread has behind it what it relies on, as long as no process is paused:
\* its slot, what it remembers of its row, and the row itself.
THEOREM ClaimsHaveBacking ==
  ASSUME "pause" \notin Disruptions
  PROVE  Spec => []ClaimsAreBacked
BY OnlyPausesLoseRows, UpstreamHoldsASlot, ClaimsKnowTheirRows, PTL DEF ClaimsAreBacked

-----------------------------------------------------------------------------
(***************************************************************************)
(* The task row and its jobs.  No transaction computes the status of a     *)
(* task from what it was: it is recomputed from all jobs, or it is left    *)
(* alone while no job settles or is reopened, or it becomes running when   *)
(* a job is taken.  The theorems follow from these three kinds of step,    *)
(* and from the fence: a claim that may write has an active job.           *)
(***************************************************************************)

\* The inductive invariant.
TaskInv == LeaseInv /\ TaskFollowsJobs

AllSettled(t) == \A j \in JobsOf(t) : Settled(j)

LeftAlone(t) ==
  /\ UNCHANGED <<taskStatus[t], completed[t], cancelRequested[t]>>
  /\ \A j \in JobsOf(t) :
       \/ status'[j] = status[j]
       \/ ~Settled(j) /\ ~Settled(j)'

Recomputed(t) ==
  /\ cancelRequested[t] => cancelRequested'[t]
  /\ taskStatus'[t] = AggregatedStatus(t, cancelRequested'[t], status', stage')
  /\ \E was \in BOOLEAN :
       /\ ~AllSettled(t)' => ~was
       /\ completed'[t] = AggregatedCompletion(t, cancelRequested'[t], status', was)

Started(t) ==
  /\ taskStatus'[t] = "running"
  /\ UNCHANGED <<completed[t], cancelRequested[t]>>
  /\ ~AllSettled(t) /\ ~AllSettled(t)'

TaskStep ==
  /\ \A t \in Tasks : LeftAlone(t) \/ Recomputed(t) \/ Started(t)
  /\ \A j \in Jobs : status[j] = "canceled" => status'[j] = "canceled"

-----------------------------------------------------------------------------
(* The kinds of step keep the invariant.                                   *)

\* What _aggregate_task computes is what the jobs say.
LEMMA RecomputedFollows ==
  ASSUME TypeOK', NEW t \in Tasks, Recomputed(t)
  PROVE  /\ (Terminal(t) <=> AllSettled(t))'
         /\ (completed[t] <=> Terminal(t))'
         /\ taskStatus'[t] = "success" => \A j \in JobsOf(t) : status'[j] = "success"
         /\ taskStatus'[t] = "canceled" => cancelRequested'[t]
<1>1. CASE AllSettled(t)'
  <2>1. /\ taskStatus'[t] = IF cancelRequested'[t] THEN "canceled"
                            ELSE IF \A j \in JobsOf(t) : status'[j] = "success"
                            THEN "success" ELSE "failed"
        /\ completed'[t] = TRUE
    BY <1>1 DEF Recomputed, AggregatedStatus, AggregatedCompletion, AllSettled,
       Settled, JobsOf
  <2> QED
    BY <1>1, <2>1 DEF Terminal, TerminalTaskStatuses
<1>2. CASE ~AllSettled(t)'
  <2>1. taskStatus'[t] \in {"saving", "retrying", "running", "queued"}
    BY <1>2 DEF Recomputed, AggregatedStatus, AllSettled, Settled, JobsOf
  <2>2. completed'[t] = FALSE
    BY <1>2 DEF Recomputed, AggregatedCompletion, AllSettled, Settled, JobsOf
  <2> QED
    BY <1>2, <2>1, <2>2 DEF Terminal, TerminalTaskStatuses
<1> QED
  BY <1>1, <1>2

LEMMA TaskStepsKeepInv ==
  ASSUME TaskInv, LeaseInv', TaskStep
  PROVE  TaskInv'
<1> USE DEF TaskInv, LeaseInv
<1> SUFFICES ASSUME NEW t \in Tasks
             PROVE  /\ (Terminal(t) <=> AllSettled(t))'
                    /\ (completed[t] <=> Terminal(t))'
                    /\ taskStatus'[t] = "success" =>
                         \A j \in JobsOf(t) : status'[j] = "success"
                    /\ taskStatus'[t] = "canceled" => cancelRequested'[t]
  BY DEF TaskFollowsJobs, AllSettled, JobsOf
<1>1. CASE LeftAlone(t)
  <2>1. AllSettled(t)' <=> AllSettled(t)
    BY <1>1 DEF LeftAlone, AllSettled, Settled, JobsOf
  <2>2. taskStatus[t] = "success" => \A j \in JobsOf(t) : status'[j] = "success"
    BY <1>1 DEF LeftAlone, TaskFollowsJobs, Settled, TerminalJobStatuses
  <2> QED
    BY <1>1, <2>1, <2>2 DEF LeftAlone, TaskFollowsJobs, Terminal, AllSettled, JobsOf
<1>2. CASE Recomputed(t)
  BY <1>2, RecomputedFollows
<1>3. CASE Started(t)
  BY <1>3 DEF Started, TaskFollowsJobs, Terminal, TerminalTaskStatuses, AllSettled, JobsOf
<1> QED
  BY <1>1, <1>2, <1>3 DEF TaskStep

-----------------------------------------------------------------------------
(* Which transactions are steps of these kinds.                            *)

\* No job settles, is reopened or changes its task.
LEMMA QuietStep ==
  ASSUME UNCHANGED taskVars,
         \A j \in Jobs : \/ status'[j] = status[j]
                         \/ ~Settled(j) /\ ~Settled(j)'
  PROVE  TaskStep
<1>1. \A t \in Tasks : LeftAlone(t)
  BY DEF LeftAlone, taskVars, JobsOf
<1>2. \A j \in Jobs : status[j] = "canceled" => status'[j] = "canceled"
  BY DEF Settled, TerminalJobStatuses
<1> QED
  BY <1>1, <1>2 DEF TaskStep

\* The tasks in ts are aggregated after jobs of theirs moved: open jobs to
\* anywhere, settled ones to another end.
LEMMA AggregateStep ==
  ASSUME TaskInv, NEW ts \in SUBSET Tasks,
         Aggregate(ts, status', stage'), UNCHANGED cancelRequested,
         \A j \in Jobs :
           \/ status'[j] = status[j]
           \/ /\ TaskOf[j] \in ts
              /\ ~Settled(j) \/ (Settled(j)' /\ status[j] # "canceled")
  PROVE  TaskStep
<1>1. ASSUME NEW t \in Tasks, t \in ts PROVE Recomputed(t)
  <2>1. ~AllSettled(t)' => ~completed[t]
    BY DEF AllSettled, Settled, TaskInv, TaskFollowsJobs, JobsOf
  <2>2. completed[t] \in BOOLEAN
    BY DEF TaskInv, LeaseInv, TypeOK
  <2> QED
    BY <1>1, <2>1, <2>2 DEF Recomputed, Aggregate
<1>2. ASSUME NEW t \in Tasks, t \notin ts PROVE LeftAlone(t)
  BY <1>2 DEF LeftAlone, Aggregate, JobsOf
<1>3. \A j \in Jobs : status[j] = "canceled" => status'[j] = "canceled"
  BY DEF Settled, TerminalJobStatuses
<1> QED
  BY <1>1, <1>2, <1>3 DEF TaskStep

LEMMA MoveStep ==
  ASSUME TaskInv, NEW j \in Jobs, NEW st, NEW sg, MoveJob(j, st, sg),
         UNCHANGED cancelRequested,
         ~Settled(j) \/ (st \in TerminalJobStatuses /\ status[j] # "canceled")
  PROVE  TaskStep
<1>1. {TaskOf[j]} \in SUBSET Tasks
  BY QueueAssumption
<1>2. \A k \in Jobs :
        \/ status'[k] = status[k]
        \/ k = j /\ (~Settled(k) \/ (Settled(k)' /\ status[k] # "canceled"))
  BY DEF MoveJob, Settled, TaskInv, LeaseInv, TypeOK
<1>3. Aggregate({TaskOf[j]}, status', stage')
  BY DEF MoveJob
<1> QED
  BY <1>1, <1>2, <1>3, AggregateStep

\* One task is recomputed with completed_at cleared, after jobs of it moved.
LEMMA ReopenStep ==
  ASSUME TaskInv, NEW t \in Tasks, Reopen(t, status', stage'),
         UNCHANGED cancelRequested,
         \A j \in Jobs : \/ status'[j] = status[j]
                         \/ TaskOf[j] = t /\ status[j] # "canceled"
  PROVE  TaskStep
<1>1. Recomputed(t)
  BY DEF Recomputed, Reopen, TaskInv, LeaseInv, TypeOK
<1>2. \A u \in Tasks \ {t} : LeftAlone(u)
  BY DEF LeftAlone, Reopen, JobsOf, TaskInv, LeaseInv, TypeOK
<1> QED
  BY <1>1, <1>2 DEF TaskStep

\* The fence: a claim that may write has an open job.
LEMMA FencedIsOpen ==
  ASSUME LeaseInv, NEW c \in claims, Fenced(c)
  PROVE  c.job \in Jobs /\ Active(c.job) /\ ~Settled(c.job)
<1>1. c.job \in Jobs /\ c.worker \in Workers
  BY DEF LeaseInv, TypeOK, Claims
<1>2. Active(c.job)
  BY <1>1, QueueAssumption DEF LeaseInv, OwnedIffActive, Fenced
<1> QED
  BY <1>1, <1>2 DEF Active, Settled, ActiveStatuses, TerminalJobStatuses

LEMMA FencedMoveStep ==
  ASSUME TaskInv, NEW c \in claims, Fenced(c), NEW st, NEW sg,
         MoveJob(c.job, st, sg), UNCHANGED cancelRequested
  PROVE  TaskStep
BY FencedIsOpen, MoveStep DEF TaskInv

\* Steps that leave the rows of jobs and tasks alone.
LEMMA SameRowsStep ==
  ASSUME UNCHANGED <<status, taskVars>>
  PROVE  TaskStep
BY QuietStep

-----------------------------------------------------------------------------
(* Every transaction is a step of these kinds.                             *)

LEMMA ClaimThreadTaskStep ==
  ASSUME TaskInv, NEW c \in claims,
         \/ Execute(c) \/ Settle(c)
         \/ \E f \in FailureClasses : Raise(c, f)
         \/ GateClosed(c) \/ Strand(c) \/ GiveUp(c)
  PROVE  TaskStep
<1>1. ASSUME NEW sg, Fenced(c), Checkpoint(c, sg) PROVE TaskStep
  <2>1. MoveJob(c.job, "running", sg) /\ UNCHANGED cancelRequested
    BY <1>1 DEF Checkpoint, MoveJob
  <2> QED
    BY <1>1, <2>1, FencedMoveStep
<1>2. ASSUME NEW refund, ReleaseClaim(c, refund) PROVE TaskStep
  <2>1. Fenced(c) /\ UNCHANGED cancelRequested
    BY <1>2 DEF ReleaseClaim
  <2>2. \E st, sg : MoveJob(c.job, st, sg)
    BY <1>2 DEF ReleaseClaim
  <2> QED
    BY <2>1, <2>2, FencedMoveStep
<1>3. CASE StartExecution(c) \/ EnsureActive(c) \/ BeginCommit(c)
           \/ StoreDownloaded(c) \/ StoreUpscaled(c)
  BY <1>3, SameRowsStep DEF StartExecution, EnsureActive, BeginCommit,
     StoreDownloaded, StoreUpscaled, RecordArtifact
<1>4. CASE CheckpointGenerating(c) \/ CheckpointResolving(c)
           \/ CheckpointDownloading(c) \/ CheckpointTransforming(c)
           \/ CheckpointSaving(c)
  BY <1>1, <1>4 DEF CheckpointGenerating, CheckpointResolving,
     CheckpointDownloading, CheckpointTransforming, CheckpointSaving,
     Running, Formatting
<1>5. CASE CompleteJob(c)
  <2>1. Fenced(c) /\ UNCHANGED cancelRequested
    BY <1>5 DEF CompleteJob, Running, Formatting
  <2>2. \E st, sg : MoveJob(c.job, st, sg)
    BY <1>5 DEF CompleteJob
  <2> QED
    BY <2>1, <2>2, FencedMoveStep
<1>6. CASE ReleaseCanceled(c) \/ SettleRelease(c) \/ GateClosed(c)
  BY <1>2, <1>6 DEF ReleaseCanceled, SettleRelease, GateClosed
<1>7. CASE SettleRetry(c)
  BY <1>7, FencedMoveStep DEF SettleRetry, Settling
<1>8. CASE SettleFailure(c)
  BY <1>8, FencedMoveStep DEF SettleFailure, Settling
<1>9. CASE LoseClaim(c) \/ GiveUp(c) \/ Strand(c)
  BY <1>9, SameRowsStep DEF LoseClaim, GiveUp, Strand
<1>10. ASSUME NEW f \in FailureClasses, Raise(c, f) PROVE TaskStep
  BY <1>10, SameRowsStep DEF Raise
<1> QED
  BY <1>3, <1>4, <1>5, <1>6, <1>7, <1>8, <1>9, <1>10 DEF Execute, Settle

\* A job is taken: its task is running.
LEMMA TakeJobTaskStep ==
  ASSUME TaskInv, NEW w \in Workers, NEW j \in Jobs, Waiting(j), NEW slot,
         TakeJob(w, j, slot)
  PROVE  TaskStep
<1> USE DEF TaskInv, LeaseInv
<1>1. TaskOf[j] \in Tasks /\ j \in JobsOf(TaskOf[j])
  BY QueueAssumption DEF JobsOf
<1>2. ~Settled(j) /\ ~Settled(j)'
  BY DEF TakeJob, Waiting, WaitingStatuses, Settled, TerminalJobStatuses, TypeOK
<1>3. Started(TaskOf[j])
  BY <1>1, <1>2 DEF Started, TakeJob, AllSettled, JobsOf, TypeOK
<1>4. \A t \in Tasks \ {TaskOf[j]} : LeftAlone(t)
  BY DEF LeftAlone, TakeJob, JobsOf, TypeOK
<1>5. \A k \in Jobs : status[k] = "canceled" => status'[k] = "canceled"
  BY DEF TakeJob, Waiting, WaitingStatuses, TypeOK
<1> QED
  BY <1>3, <1>4, <1>5 DEF TaskStep

LEMMA SweepTaskStep ==
  ASSUME TaskInv, NEW js \in SUBSET {j \in Jobs : Active(j)}, SweepLeases(js)
  PROVE  TaskStep
<1>1. {TaskOf[j] : j \in js} \in SUBSET Tasks
  BY QueueAssumption
<1>2. \A j \in Jobs : \/ status'[j] = status[j]
                      \/ TaskOf[j] \in {TaskOf[k] : k \in js} /\ ~Settled(j)
  BY DEF SweepLeases, Active, ActiveStatuses, Settled, TerminalJobStatuses
<1>3. Aggregate({TaskOf[j] : j \in js}, status', stage')
      /\ UNCHANGED cancelRequested
  BY DEF SweepLeases
<1> QED
  BY <1>1, <1>2, <1>3, AggregateStep

LEMMA WorkerTaskStep ==
  ASSUME TaskInv, NEW w \in Workers, WorkerStep(w)
  PROVE  TaskStep
<1>1. ASSUME NEW j \in Jobs, ClaimNextJob(w, j) PROVE TaskStep
  BY <1>1, TakeJobTaskStep DEF ClaimNextJob, ClaimLocal, ClaimRemote, Claimable
<1>2. ASSUME NEW j \in Jobs, FailUnrecoverable(w, j) PROVE TaskStep
  BY <1>2, MoveStep DEF FailUnrecoverable, Claimable, Waiting, WaitingStatuses,
     Settled, TerminalJobStatuses
<1>3. CASE Heartbeat(w) \/ WorkerGoesStale(w) \/ StartWorker(w) \/ Crash(w)
           \/ ListRecoverable(w)
  BY <1>3, SameRowsStep DEF Heartbeat, WorkerGoesStale, StartWorker, Crash,
     ListRecoverable
<1>4. CASE ReclaimLeases(w) \/ Boot(w)
  BY <1>4, SweepTaskStep DEF ReclaimLeases, Boot, Reclaimable
<1>5. ASSUME NEW r \in plan[w], RequeueForRecovery(w, r) PROVE TaskStep
  <2>1. \A j \in Jobs : \/ status'[j] = status[j]
                        \/ status[j] \in WaitingStatuses /\ status'[j] = "queued"
    BY <1>5 DEF RequeueForRecovery, Waiting, TaskInv, LeaseInv, TypeOK
  <2>2. \A j \in Jobs : \/ status'[j] = status[j]
                        \/ ~Settled(j) /\ ~Settled(j)'
    BY <2>1 DEF Settled, TerminalJobStatuses, WaitingStatuses
  <2> QED
    BY <1>5, <2>2, QuietStep DEF RequeueForRecovery
<1> QED
  BY <1>1, <1>2, <1>3, <1>4, <1>5 DEF WorkerStep, BootStep

LEMMA JobTaskStep ==
  ASSUME TaskInv, NEW j \in Jobs,
         \/ LeaseExpires(j) \/ BecomeDue(j) \/ ExpirePending(j)
         \/ FailUndeliverable(j)
         \/ \E k \in {"upscaled", "downloaded", "nothing"} : RequeueUndeliverable(j, k)
         \/ \E k \in ArtifactKinds : AdoptArtifact(j, k)
  PROVE  TaskStep
<1>1. CASE LeaseExpires(j) \/ BecomeDue(j)
  BY <1>1, SameRowsStep DEF LeaseExpires, BecomeDue
<1>2. CASE ExpirePending(j)
  BY <1>2, MoveStep DEF ExpirePending, Settled, TerminalJobStatuses
<1>3. CASE FailUndeliverable(j)
  BY <1>3, MoveStep DEF FailUndeliverable, TerminalJobStatuses
<1>4. ASSUME status[j] # "canceled", status' = [status EXCEPT ![j] = "queued"],
             Reopen(TaskOf[j], status', stage'), UNCHANGED cancelRequested
      PROVE  TaskStep
  <2>1. TaskOf[j] \in Tasks
    BY QueueAssumption
  <2>2. \A k \in Jobs : status'[k] = status[k] \/ k = j
    BY <1>4 DEF TaskInv, LeaseInv, TypeOK
  <2> QED
    BY <1>4, <2>1, <2>2, ReopenStep
<1>5. ASSUME NEW k \in {"upscaled", "downloaded", "nothing"}, RequeueUndeliverable(j, k)
      PROVE  TaskStep
  BY <1>4, <1>5 DEF RequeueUndeliverable
<1>6. ASSUME NEW k \in ArtifactKinds, AdoptArtifact(j, k) PROVE TaskStep
  <2>1. CASE TimedOut(j)
    BY <1>4, <1>6, <2>1 DEF AdoptArtifact, TimedOut
  <2>2. CASE ~TimedOut(j)
    BY <1>6, <2>2, SameRowsStep DEF AdoptArtifact, taskVars
  <2> QED
    BY <2>1, <2>2
<1> QED
  BY <1>1, <1>2, <1>3, <1>5, <1>6

LEMMA CallerTaskStep ==
  ASSUME TaskInv, NEW t \in Tasks, RequestCancel(t) \/ ResumeFailed(t)
  PROVE  TaskStep
<1> USE DEF TaskInv, LeaseInv
<1>1. CASE RequestCancel(t)
  <2>1. Recomputed(t)
    <3>1. ~completed[t] /\ completed[t] \in BOOLEAN
      BY <1>1 DEF RequestCancel, TaskFollowsJobs, TypeOK
    <3>2. /\ cancelRequested'[t] = TRUE
          /\ taskStatus'[t] = AggregatedStatus(t, TRUE, status', stage')
          /\ completed'[t] = AggregatedCompletion(t, TRUE, status', completed[t])
      BY <1>1 DEF RequestCancel, TypeOK
    <3> QED
      BY <3>1, <3>2 DEF Recomputed
  <2>2. ASSUME NEW u \in Tasks, u # t PROVE LeftAlone(u)
    <3>1. \A j \in JobsOf(u) : status'[j] = status[j]
      BY <1>1, <2>2 DEF RequestCancel, JobsOf
    <3>2. UNCHANGED <<taskStatus[u], completed[u], cancelRequested[u]>>
      BY <1>1, <2>2 DEF RequestCancel, TypeOK
    <3> QED
      BY <3>1, <3>2 DEF LeftAlone
  <2>3. \A j \in Jobs : status[j] = "canceled" => status'[j] = "canceled"
    BY <1>1 DEF RequestCancel
  <2> QED
    BY <2>1, <2>2, <2>3 DEF TaskStep
<1>2. CASE ResumeFailed(t)
  <2>1. \A j \in Jobs : \/ status'[j] = status[j]
                        \/ TaskOf[j] = t /\ status[j] # "canceled"
    BY <1>2 DEF ResumeFailed, JobsOf
  <2> QED
    BY <1>2, <2>1, ReopenStep DEF ResumeFailed
<1> QED
  BY <1>1, <1>2

LEMMA NextIsTaskStep ==
  ASSUME TaskInv, [Next]_vars
  PROVE  TaskStep
<1>1. CASE UNCHANGED vars \/ ListAdoptable
  BY <1>1, SameRowsStep DEF vars, ListAdoptable
<1>2. ASSUME NEW w \in Workers, WorkerStep(w) PROVE TaskStep
  BY <1>2, WorkerTaskStep
<1>3. ASSUME NEW j \in Jobs, JobStep(j) PROVE TaskStep
  <2>1. CASE ClaimStep(j)
    BY <2>1, ClaimThreadTaskStep DEF ClaimStep
  <2>2. CASE ~ClaimStep(j)
    BY <1>3, <2>2, JobTaskStep DEF JobStep
  <2> QED
    BY <2>1, <2>2
<1>4. ASSUME NEW c \in claims, GateClosed(c) \/ Strand(c) \/ GiveUp(c) PROVE TaskStep
  BY <1>4, ClaimThreadTaskStep
<1>5. ASSUME NEW t \in Tasks, RequestCancel(t) \/ ResumeFailed(t) PROVE TaskStep
  BY <1>5, CallerTaskStep
<1> QED
  BY <1>1, <1>2, <1>3, <1>4, <1>5 DEF Next

-----------------------------------------------------------------------------
(* Theorems.                                                               *)

\* The task row follows its jobs in every behaviour: terminal exactly when all
\* jobs are, completed_at set exactly then, success only if every image
\* succeeded, canceled only on request.
THEOREM TaskAggregatesItsJobs == Spec => []TaskFollowsJobs
<1>1. Init /\ LeaseInv => TaskInv
  BY QueueAssumption DEF Init, TaskInv, TaskFollowsJobs, Terminal,
     TerminalTaskStatuses, Settled, TerminalJobStatuses, JobsOf
<1>2. TaskInv /\ LeaseInv' /\ [Next]_vars => TaskInv'
  BY NextIsTaskStep, TaskStepsKeepInv
<1>3. TaskInv => TaskFollowsJobs
  BY DEF TaskInv
<1> QED
  BY <1>1, <1>2, <1>3, LeaseInvariance, PTL DEF Spec

\* A canceled job stays canceled: no sweep, recovery plan, adoption or
\* resumption that had listed it brings it back.
THEOREM CanceledIsFinal == Spec => CanceledJobsStay
<1>1. TaskInv /\ [Next]_vars
        => [\A j \in Jobs : status[j] = "canceled" => status'[j] = "canceled"]_vars
  BY NextIsTaskStep DEF TaskStep
<1>2. LeaseInv /\ TaskFollowsJobs => TaskInv
  BY DEF TaskInv
<1> QED
  BY <1>1, <1>2, LeaseInvariance, TaskAggregatesItsJobs, PTL DEF Spec, CanceledJobsStay

=============================================================================
