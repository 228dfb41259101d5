-------------------------- MODULE ImageParts_proofs --------------------------
(*************************************************************************)
(* Proofs about five parts beside the image queue, each for any number   *)
(* of its actors and without the bounds of the runs: the life of the     *)
(* worker, restores into a running process, editable files, retention    *)
(* cleanups, and the prompt library. The parts share no state; each      *)
(* section has the inductive invariant of one. The last sections add the *)
(* parts of ImageResults_proofs and show that all keep their types and   *)
(* what they promise when one of them, whichever, is at work.            *)
(*************************************************************************)
EXTENDS MCImageParts, ImageResults_proofs

-----------------------------------------------------------------------------
(* The life of the queue worker *)

Live == In({"running", "stranded"}) # {}
HeldClaims == In({"held"}) # {}
OneHeld == \A j, k \in Jobs : claimOf[j] = "held" /\ claimOf[k] = "held" => j = k

\* No claim is in anybody's hands, and the dispatcher cannot get one.
NoWork == dispatcher = "gone" /\ ~claiming /\ ~Live

\* The claim that the dispatcher holds is in flight.
HandsInv ==
  /\ claiming <=> dispatcher \in {"asking", "holding"}
  /\ HeldClaims => dispatcher = "holding"
  /\ OneHeld

\* The stop event is set when nothing is left to do, or by a failure that keeps
\* the dispatcher from claiming.
StopInv ==
  /\ stopEvent => ~claiming /\ ~Live
  /\ stopEvent /\ ~fatal => dispatcher = "gone"
  /\ fatal => ~active
  /\ heartbeat = "failing" => fatal /\ ~claiming /\ ~Live
  /\ dispatcher = "failing" => fatal

\* One caller at a time, and what it has found.
CallersInv ==
  /\ stopping["submission"] # "no" => submission = "reset"
  /\ stopping["restore"] # "no" => submission = "none"
  /\ \A c \in Callers : stopping[c] # "no" => worker
  /\ \A c \in Callers : stopping[c] \in {"quiet", "joinBeat", "down"} => NoWork
  /\ stopping["restore"] \in {"joinBeat", "down"} => stopEvent
  /\ stopping["restore"] = "down" => heartbeat = "gone"
  /\ submission \in {"open", "boot"} => NoWork
  /\ submission = "boot" => worker

\* StoppedIsQuiet
QuietInv == ~worker => NoWork /\ ~HeldClaims /\ heartbeat = "gone"

\* The inductive invariant of the threads.
LifeInv == LifecycleTypeOK /\ HandsInv /\ StopInv /\ CallersInv /\ QuietInv

\* What a claim can be.
LEMMA ClaimsAre ==
  /\ Live <=> \E j \in Jobs : claimOf[j] \in {"running", "stranded"}
  /\ HeldClaims <=> \E j \in Jobs : claimOf[j] = "held"
  /\ HasLiveClaims <=> claiming \/ Live
  /\ Drained <=> ~Live /\ ~DispatcherAlive /\ ~claiming
BY DEF Live, HeldClaims, In, HasLiveClaims, Drained

\* Steps that leave the claims alone leave what is said of them.
LEMMA SameClaims ==
  ASSUME UNCHANGED claimOf
  PROVE  (Live' <=> Live) /\ (HeldClaims' <=> HeldClaims) /\ (OneHeld' <=> OneHeld)
BY DEF Live, HeldClaims, OneHeld, In

\* Taking finished claims out changes nothing of what is live or held.
LEMMA ReapEffect ==
  ASSUME LifecycleTypeOK, Reap(claimOf)
  PROVE  /\ Live' <=> Live
         /\ HeldClaims' <=> HeldClaims
         /\ OneHeld' <=> OneHeld
         /\ claimOf' \in [Jobs -> {"free", "held", "running", "done", "stranded"}]
         /\ stopEvent' \in BOOLEAN
         /\ stopEvent' <=> stopEvent \/ ((fatal \/ ~active) /\ ~DispatcherAlive /\ ~claiming /\ ~Live)
<1>1. claimOf \in [Jobs -> {"free", "held", "running", "done", "stranded"}]
  BY DEF LifecycleTypeOK
<1>2. \A j \in Jobs : claimOf'[j] = IF claimOf[j] = "done" THEN "free" ELSE claimOf[j]
  BY DEF Reap
<1>3. claimOf' \in [Jobs -> {"free", "held", "running", "done", "stranded"}]
  BY <1>1 DEF Reap
<1>4. (Live' <=> Live) /\ (HeldClaims' <=> HeldClaims) /\ (OneHeld' <=> OneHeld)
  BY <1>1, <1>2 DEF Live, HeldClaims, OneHeld, In
<1>5. (\A j \in Jobs : claimOf[j] \in {"free", "held", "done"}) <=> ~Live
  BY <1>1 DEF Live, In
<1>6. stopEvent' \in BOOLEAN
  BY DEF Reap
<1> QED
  BY <1>3, <1>4, <1>5, <1>6 DEF Reap

\* The worker has not been started.
LEMMA InitLife == LifecycleInit => LifeInv
<1> SUFFICES ASSUME LifecycleInit PROVE LifeInv
  OBVIOUS
<1>1. ~Live /\ ~HeldClaims /\ OneHeld
  BY DEF LifecycleInit, Live, HeldClaims, OneHeld, In
<1> QED
  BY <1>1 DEF LifecycleInit, Callers, LifeInv, LifecycleTypeOK, HandsInv, StopInv, CallersInv, QuietInv, NoWork, DispatcherAlive,
             HeartbeatAlive

\* The steps that leave the claims where they are.
LEMMA QuietStepKeepsLife ==
  ASSUME LifeInv,
         \/ DispatchTurn \/ DispatcherFails \/ DispatchGoes \/ HeartbeatState \/ HeartbeatFails
         \/ HeartbeatWaits \/ HeartbeatDies \/ HealthCheck \/ IdentityTaken
         \/ SubmissionFindsIdle \/ RestoreStarts \/ StartLooks \/ StartAfterReset
  PROVE  LifeInv'
<1> USE SameClaims, ClaimsAre DEF Callers, LifeInv, LifecycleTypeOK, HandsInv, StopInv, CallersInv, QuietInv, NoWork, DispatcherAlive,
             HeartbeatAlive
<1>1. CASE DispatchTurn
  BY <1>1 DEF DispatchTurn, EnsureHeartbeat
<1>2. CASE DispatcherFails
  BY <1>2 DEF DispatcherFails
<1>3. CASE DispatchGoes
  BY <1>3 DEF DispatchGoes
<1>4. CASE HeartbeatState
  BY <1>4 DEF HeartbeatState, SetFatal
<1>5. CASE HeartbeatFails
  BY <1>5 DEF HeartbeatFails
<1>6. CASE HeartbeatWaits
  BY <1>6 DEF HeartbeatWaits
<1>7. CASE HeartbeatDies
  BY <1>7 DEF HeartbeatDies
<1>8. CASE HealthCheck
  BY <1>8 DEF HealthCheck, EnsureHeartbeat
<1>9. CASE IdentityTaken
  <2>1. LifecycleTypeOK'
    BY <1>9 DEF IdentityTaken
  <2>2. HandsInv'
    BY <1>9 DEF IdentityTaken
  <2>3. StopInv'
    BY <1>9 DEF IdentityTaken
  <2>4. CallersInv'
    BY <1>9 DEF IdentityTaken
  <2>5. QuietInv'
    BY <1>9 DEF IdentityTaken
  <2> QED
    BY <2>1, <2>2, <2>3, <2>4, <2>5 DEF LifeInv
<1>10. CASE SubmissionFindsIdle
  BY <1>10 DEF SubmissionFindsIdle, HasActiveClaims
<1>11. CASE RestoreStarts
  <2>1. LifecycleTypeOK'
    BY <1>11 DEF RestoreStarts
  <2>2. HandsInv'
    BY <1>11 DEF RestoreStarts
  <2>3. StopInv'
    BY <1>11 DEF RestoreStarts
  <2>4. CallersInv'
    BY <1>11 DEF RestoreStarts
  <2>5. QuietInv'
    BY <1>11 DEF RestoreStarts
  <2> QED
    BY <2>1, <2>2, <2>3, <2>4, <2>5 DEF LifeInv
<1>12. CASE StartLooks
  <2>1. LifecycleTypeOK'
    BY <1>12 DEF StartLooks, HasActiveClaims, OnlyLeftoverHeartbeat
  <2>2. HandsInv'
    BY <1>12 DEF StartLooks, HasActiveClaims, OnlyLeftoverHeartbeat
  <2>3. StopInv'
    BY <1>12 DEF StartLooks, HasActiveClaims, OnlyLeftoverHeartbeat
  <2>4. CallersInv'
    BY <1>12 DEF StartLooks, HasActiveClaims, OnlyLeftoverHeartbeat
  <2>5. QuietInv'
    BY <1>12 DEF StartLooks, HasActiveClaims, OnlyLeftoverHeartbeat
  <2> QED
    BY <2>1, <2>2, <2>3, <2>4, <2>5 DEF LifeInv
<1>13. CASE StartAfterReset
  <2>1. LifecycleTypeOK'
    BY <1>13 DEF StartAfterReset, HasActiveClaims, Move
  <2>2. HandsInv'
    BY <1>13 DEF StartAfterReset, HasActiveClaims, Move
  <2>3. StopInv'
    BY <1>13 DEF StartAfterReset, HasActiveClaims, Move
  <2>4. CallersInv'
    BY <1>13 DEF StartAfterReset, HasActiveClaims, Move
  <2>5. QuietInv'
    BY <1>13 DEF StartAfterReset, HasActiveClaims, Move
  <2> QED
    BY <2>1, <2>2, <2>3, <2>4, <2>5 DEF LifeInv
<1> QED
  BY <1>1, <1>2, <1>3, <1>4, <1>5, <1>6, <1>7, <1>8, <1>9, <1>10, <1>11, <1>12, <1>13

\* stop(), but for the claims it takes out.
LEMMA StopKeepsLife ==
  ASSUME LifeInv, NEW c \in Callers,
         \/ BeginStop(c) \/ StopJoins(c) \/ StopDecides(c) \/ StopQuiets(c)
         \/ StopJoinsHeartbeat(c) \/ StopReturns(c)
  PROVE  LifeInv'
<1> USE SameClaims, ClaimsAre DEF Callers, Move, LifeInv, LifecycleTypeOK, HandsInv, StopInv, CallersInv, QuietInv, NoWork, DispatcherAlive,
             HeartbeatAlive
<1>1. CASE BeginStop(c)
  BY <1>1, ZenonT(60) DEF BeginStop
<1>2. CASE StopJoins(c)
  BY <1>2 DEF StopJoins
<1>3. CASE StopDecides(c)
  <2>1. LifecycleTypeOK'
    BY <1>3, ZenonT(60) DEF StopDecides, ResumeDispatcher
  <2>2. HandsInv'
    BY <1>3 DEF StopDecides, ResumeDispatcher
  <2>3. StopInv'
    BY <1>3 DEF StopDecides, ResumeDispatcher
  <2>4. CallersInv'
    BY <1>3 DEF StopDecides, ResumeDispatcher
  <2>5. QuietInv'
    BY <1>3 DEF StopDecides, ResumeDispatcher
  <2> QED
    BY <2>1, <2>2, <2>3, <2>4, <2>5 DEF LifeInv
<1>4. CASE StopQuiets(c)
  <2>1. LifecycleTypeOK'
    BY <1>4 DEF StopQuiets
  <2>2. HandsInv'
    BY <1>4 DEF StopQuiets
  <2>3. StopInv'
    BY <1>4 DEF StopQuiets
  <2>4. CallersInv'
    BY <1>4 DEF StopQuiets
  <2>5. QuietInv'
    BY <1>4 DEF StopQuiets
  <2> QED
    BY <2>1, <2>2, <2>3, <2>4, <2>5 DEF LifeInv
<1>5. CASE StopJoinsHeartbeat(c)
  BY <1>5 DEF StopJoinsHeartbeat
<1>6. CASE StopReturns(c)
  <2>1. LifecycleTypeOK'
    BY <1>6, ZenonT(60) DEF StopReturns
  <2>2. HandsInv'
    BY <1>6 DEF StopReturns
  <2>3. StopInv'
    BY <1>6 DEF StopReturns
  <2>4. CallersInv'
    BY <1>6 DEF StopReturns
  <2>5. QuietInv'
    BY <1>6 DEF StopReturns
  <2> QED
    BY <2>1, <2>2, <2>3, <2>4, <2>5 DEF LifeInv
<1> QED
  BY <1>1, <1>2, <1>3, <1>4, <1>5, <1>6

\* The steps that move claims.
LEMMA ClaimStepKeepsLife ==
  ASSUME LifeInv,
         \/ DispatchEvaluates \/ DispatchClaims \/ DispatchHandsOver \/ ClaimEnds
         \/ HeartbeatTurn \/ (\E c \in Callers : StopDrains(c)) \/ StartOpens \/ WorkerStarts
  PROVE  LifeInv'
<1> DEFINE States == {"free", "held", "running", "done", "stranded"}
<1> USE ClaimsAre DEF Callers, LifeInv, LifecycleTypeOK, HandsInv, StopInv, CallersInv, QuietInv, NoWork, DispatcherAlive,
             HeartbeatAlive
<1>t. claimOf \in [Jobs -> States]
  OBVIOUS
<1>1. CASE DispatchEvaluates
  <2>1. CASE usurped
    BY <1>1, <2>1, SameClaims DEF DispatchEvaluates, SetFatal
  <2>2. CASE ~usurped
    <3>1. LifecycleTypeOK'
      BY <1>1, <2>2, ReapEffect DEF DispatchEvaluates
    <3>2. HandsInv'
      BY <1>1, <2>2, ReapEffect DEF DispatchEvaluates
    <3>3. StopInv'
      BY <1>1, <2>2, ReapEffect DEF DispatchEvaluates
    <3>4. CallersInv'
      BY <1>1, <2>2, ReapEffect DEF DispatchEvaluates
    <3>5. QuietInv'
      BY <1>1, <2>2, ReapEffect DEF DispatchEvaluates
    <3> QED
      BY <3>1, <3>2, <3>3, <3>4, <3>5 DEF LifeInv
  <2> QED
    BY <2>1, <2>2
<1>2. CASE DispatchClaims
  <2>1. CASE claimOf' = claimOf
    <3>1. LifecycleTypeOK'
      BY <1>2, <2>1, SameClaims DEF DispatchClaims, SetFatal
    <3>2. HandsInv'
      BY <1>2, <2>1, SameClaims DEF DispatchClaims, SetFatal
    <3>3. StopInv'
      <4>1. ~stopEvent \/ fatal
        BY <1>2 DEF DispatchClaims
      <4>2. CASE usurped
        BY <1>2, <2>1, <4>1, <4>2, SameClaims DEF DispatchClaims, SetFatal
      <4>3. CASE ~usurped
        <5>1. /\ UNCHANGED <<stopEvent, fatal, active, heartbeat>>
              /\ dispatcher' \in {"top", "holding"} /\ (claiming' => claiming)
          BY <1>2, <4>3 DEF DispatchClaims
        <5> QED
          BY <2>1, <4>1, <5>1, SameClaims
      <4> QED
        BY <4>2, <4>3
    <3>4. CallersInv'
      BY <1>2, <2>1, SameClaims DEF DispatchClaims, SetFatal
    <3>5. QuietInv'
      BY <1>2, <2>1, SameClaims DEF DispatchClaims, SetFatal
    <3> QED
      BY <3>1, <3>2, <3>3, <3>4, <3>5 DEF LifeInv
  <2>2. CASE /\ \E j \in In({"free"}) : claimOf' = [claimOf EXCEPT ![j] = "held"]
             /\ dispatcher' = "holding" /\ UNCHANGED <<fatal, active, claiming>>
    <3>1. PICK j \in Jobs : claimOf[j] = "free" /\ claimOf' = [claimOf EXCEPT ![j] = "held"]
      BY <2>2 DEF In
    <3>2. (Live' <=> Live) /\ OneHeld' /\ claimOf' \in [Jobs -> States]
      BY <1>2, <1>t, <3>1 DEF Live, HeldClaims, OneHeld, In, DispatchClaims
    <3> QED
      BY <1>2, <2>2, <3>2 DEF DispatchClaims
  <2> QED
    BY <1>2, <2>1, <2>2 DEF DispatchClaims
<1>3. CASE DispatchHandsOver
  <2>1. PICK j \in Jobs, next \in {"running", "free", "stranded"} :
          claimOf[j] = "held" /\ claimOf' = [claimOf EXCEPT ![j] = next]
    BY <1>3 DEF DispatchHandsOver, In
  <2>2. claimOf' \in [Jobs -> States]
    BY <1>t, <2>1
  <2>3. dispatcher = "holding" /\ dispatcher' = "top" /\ ~claiming'
    BY <1>3 DEF DispatchHandsOver
  <2>4. ~HeldClaims' /\ OneHeld'
    BY <1>t, <2>1 DEF OneHeld, HeldClaims, In
  <2> QED
    BY <1>3, <2>2, <2>3, <2>4 DEF DispatchHandsOver
<1>4. CASE ClaimEnds
  <2>1. PICK j \in Jobs : claimOf[j] = "running" /\ claimOf' = [claimOf EXCEPT ![j] = "done"]
    BY <1>4 DEF ClaimEnds, In
  <2>2. /\ (Live' => Live) /\ (HeldClaims' <=> HeldClaims) /\ (OneHeld' <=> OneHeld)
        /\ claimOf' \in [Jobs -> States]
    BY <1>t, <2>1 DEF Live, HeldClaims, OneHeld, In
  <2> QED
    BY <1>4, <2>2 DEF ClaimEnds
<1>5. CASE HeartbeatTurn
  <2>1. CASE stopEvent
    BY <1>5, <2>1, SameClaims DEF HeartbeatTurn
  <2>2. CASE ~stopEvent
    <3>1. LifecycleTypeOK'
      BY <1>5, <2>2, ReapEffect DEF HeartbeatTurn
    <3>2. HandsInv'
      BY <1>5, <2>2, ReapEffect DEF HeartbeatTurn
    <3>3. StopInv'
      BY <1>5, <2>2, ReapEffect DEF HeartbeatTurn
    <3>4. CallersInv'
      BY <1>5, <2>2, ReapEffect DEF HeartbeatTurn
    <3>5. QuietInv'
      BY <1>5, <2>2, ReapEffect DEF HeartbeatTurn
    <3> QED
      BY <3>1, <3>2, <3>3, <3>4, <3>5 DEF LifeInv
  <2> QED
    BY <2>1, <2>2
<1>6. ASSUME NEW c \in Callers, StopDrains(c) PROVE LifeInv'
  <2>1. LifecycleTypeOK'
    BY <1>6, ReapEffect DEF StopDrains, Move
  <2>2. HandsInv'
    BY <1>6, ReapEffect DEF StopDrains, Move
  <2>3. StopInv'
    BY <1>6, ReapEffect DEF StopDrains, Move
  <2>4. CallersInv'
    BY <1>6, ReapEffect DEF StopDrains, Move
  <2>5. QuietInv'
    BY <1>6, ReapEffect DEF StopDrains, Move
  <2> QED
    BY <2>1, <2>2, <2>3, <2>4, <2>5 DEF LifeInv
<1>7. CASE StartOpens
  <2>1. CASE worker
    BY <1>7, <2>1, SameClaims DEF StartOpens
  <2>2. CASE ~worker
    <3>1. ~Live' /\ ~HeldClaims' /\ OneHeld' /\ claimOf' \in [Jobs -> States]
      BY <1>7, <2>2 DEF StartOpens, Live, HeldClaims, OneHeld, In
    <3> QED
      BY <1>7, <2>2, <3>1 DEF StartOpens
  <2> QED
    BY <2>1, <2>2
<1>8. CASE WorkerStarts
  <2>1. CASE claimOf' = claimOf
    BY <1>8, <2>1, SameClaims DEF WorkerStarts
  <2>2. CASE claimOf' # claimOf
    <3>1. ~Live' /\ ~HeldClaims' /\ OneHeld' /\ claimOf' \in [Jobs -> States]
      BY <1>8, <2>2 DEF WorkerStarts, Live, HeldClaims, OneHeld, In
    <3> QED
      BY <1>8, <2>2, <3>1 DEF WorkerStarts
  <2> QED
    BY <2>1, <2>2
<1> QED
  BY <1>1, <1>2, <1>3, <1>4, <1>5, <1>6, <1>7, <1>8

\* One step of the worker, of a caller or of a claim.
LEMMA StepKeepsLife == LifeInv /\ [LifecycleNext]_lifecycleVars => LifeInv'
<1> SUFFICES ASSUME LifeInv, [LifecycleNext]_lifecycleVars PROVE LifeInv'
  OBVIOUS
<1>1. CASE UNCHANGED lifecycleVars
  BY <1>1, SameClaims DEF lifecycleVars, Callers, LifeInv, LifecycleTypeOK, HandsInv, StopInv, CallersInv, QuietInv, NoWork, DispatcherAlive,
             HeartbeatAlive
<1> QED
  BY <1>1, QuietStepKeepsLife, StopKeepsLife, ClaimStepKeepsLife DEF LifecycleNext

\* Whoever stops, restarts or loses the worker, nobody sets the stop event over a
\* live claim, and a worker that says it stopped has no thread and no claim.
THEOREM ClaimsStayAttended == LifecycleSpec => []ClaimsAreAttended
<1>1. LifeInv => ClaimsAreAttended
  BY DEF LifeInv, StopInv, QuietInv, NoWork, Live, HeldClaims, In, ClaimsAreAttended,
         LiveClaimsBeat, StoppedIsQuiet, DispatcherAlive, HeartbeatAlive
<1> QED
  BY <1>1, InitLife, StepKeepsLife, PTL DEF LifecycleSpec

-----------------------------------------------------------------------------
(* What is stopped while a restore is on its way, and what is known of the *)
(* leases of a restored dump wherever the restore was left.                *)

\* The part of the types that the rest relies on.
RestoreTypes ==
  /\ restoring \in BOOLEAN /\ backup \in BOOLEAN
  /\ dump \in BOOLEAN /\ marker \in BOOLEAN /\ unmarked \in BOOLEAN
  /\ queue \in {"running", "draining", "stopped"}
  /\ inHand \in Nat

\* From the check of the queue to the end of the replacement.
GuardPassed == Replacing \cup {"after"}

\* Backups and restores exclude each other once the archive is fetched.
BackupsKeepOut ==
  /\ restoring <=> restore # "idle"
  /\ restore \in {"guard"} \cup GuardPassed => ~backup

\* The guard found a queue that is stopped, and nothing starts it before the end.
QueueStaysDown ==
  /\ queue = "stopped" => inHand = 0
  /\ restore \in GuardPassed => queue = "stopped"

\* The leases of a dump are marked, or the restore is just about to mark them.
DumpIsMarked ==
  /\ dump /\ queue # "stopped" => unmarked
  /\ dump /\ ~marker /\ ~unmarked => restore = "marker"

RestoreInv == RestoreTypes /\ BackupsKeepOut /\ QueueStaysDown /\ DumpIsMarked

\* Everything runs.
LEMMA InitRestore == MaintenanceInit => RestoreInv
<1> SUFFICES ASSUME MaintenanceInit PROVE RestoreInv
  OBVIOUS
<1>1. RestoreTypes
  BY DEF MaintenanceInit, RestoreTypes
<1>2. BackupsKeepOut
  BY DEF MaintenanceInit, BackupsKeepOut, GuardPassed, Replacing
<1>3. QueueStaysDown /\ DumpIsMarked
  BY DEF MaintenanceInit, QueueStaysDown, DumpIsMarked, GuardPassed, Replacing
<1>4. QED
  BY <1>1, <1>2, <1>3 DEF RestoreInv

\* What runs beside a restore: jobs, registrations, threads and backups.
BesideRestore ==
  \/ ClaimJob \/ FinishJob \/ BeginRegistration \/ EndRegistration
  \/ SwitchRegistration \/ SchedulerLooks \/ SchedulerActs \/ ThreadEnds
  \/ StartBackup \/ FinishBackup

\* Jobs, registrations, threads and backups go on beside a restore.
LEMMA BesideKeepsRestore == RestoreInv /\ BesideRestore => RestoreInv'
<1> SUFFICES ASSUME RestoreInv, BesideRestore PROVE RestoreInv'
  OBVIOUS
<1> USE DEF RestoreInv, BackupsKeepOut, QueueStaysDown, DumpIsMarked,
        GuardPassed, Replacing, boundary, threads, registrationVars, queueVars,
        pushAndBackups, restoredData
<1>1. RestoreTypes'
  <2>1. CASE ClaimJob \/ FinishJob
    BY <2>1 DEF RestoreTypes, ClaimJob, FinishJob
  <2>2. CASE StartBackup \/ FinishBackup
    BY <2>2 DEF RestoreTypes, StartBackup, FinishBackup
  <2>3. CASE UNCHANGED <<boundary, queueVars, pushAndBackups, restoredData>>
    BY <2>3 DEF RestoreTypes
  <2>4. QED
    BY <2>1, <2>2, <2>3
       DEF BesideRestore, BeginRegistration, EndRegistration, SwitchRegistration,
           SchedulerLooks, SchedulerActs, ThreadEnds
<1>2. CASE ClaimJob \/ FinishJob
  BY <1>1, <1>2 DEF ClaimJob, FinishJob, RestoreTypes
<1>3. CASE StartBackup \/ FinishBackup
  BY <1>1, <1>3 DEF StartBackup, FinishBackup, RestoreTypes
<1>4. CASE UNCHANGED <<boundary, queueVars, pushAndBackups, restoredData>>
  BY <1>1, <1>4
<1>5. QED
  BY <1>2, <1>3, <1>4
     DEF BesideRestore, BeginRegistration, EndRegistration, SwitchRegistration,
         SchedulerLooks, SchedulerActs, ThreadEnds

\* The way to the restore and back: stopping the rest, or undoing it.
StopOrUndo ==
  \/ BeginRestore \/ ShutRegistration \/ StopQueue \/ StopPushAndBackups \/ JoinThreads
  \/ UndoStop

\* The rest is stopped, or started again after a failure.
LEMMA StopKeepsRestore == RestoreInv /\ StopOrUndo => RestoreInv'
<1> SUFFICES ASSUME RestoreInv, StopOrUndo PROVE RestoreInv'
  OBVIOUS
<1> USE DEF GuardPassed, Replacing, threads, registrationVars, queueVars,
        pushAndBackups, restoredData, RestoreInv
<1>1. RestoreTypes'
  <2>1. CASE BeginRestore \/ ShutRegistration \/ StopQueue
    BY <2>1 DEF RestoreTypes, BeginRestore, ShutRegistration, StopQueue
  <2>2. CASE StopPushAndBackups \/ JoinThreads
    BY <2>2 DEF RestoreTypes, StopPushAndBackups, JoinThreads
  <2>3. CASE UndoStop
    BY <2>3 DEF RestoreTypes, UndoStop, RegistrationStarts, QueueStarts
  <2>4. QED
    BY <2>1, <2>2, <2>3 DEF StopOrUndo
<1>2. BackupsKeepOut'
  BY <1>1 DEF RestoreTypes, BackupsKeepOut, StopOrUndo, BeginRestore, ShutRegistration, StopQueue,
         StopPushAndBackups, JoinThreads, UndoStop
<1>3. QueueStaysDown'
  BY <1>1 DEF RestoreTypes, QueueStaysDown, StopOrUndo, BeginRestore, ShutRegistration, StopQueue,
         StopPushAndBackups, JoinThreads, UndoStop, QueueStarts
<1>4. DumpIsMarked'
  BY <1>1 DEF RestoreTypes, DumpIsMarked, StopOrUndo, BeginRestore, ShutRegistration, StopQueue,
         StopPushAndBackups, JoinThreads, UndoStop, QueueStarts
<1>5. QED
  BY <1>1, <1>2, <1>3, <1>4

\* The restore itself, its end, and a new process.
RestoreOrRestart ==
  \/ RestoreFails \/ FetchArchive \/ GuardQueue \/ ReplaceQueueDb
  \/ LeaveMarker \/ ReplaceAppDb \/ ReplaceFiles \/ FinishMaintenance \/ RestartProcess

\* Data is replaced, or the process ends in between.
LEMMA RestoreStepKeepsRestore == RestoreInv /\ RestoreOrRestart => RestoreInv'
<1> SUFFICES ASSUME RestoreInv, RestoreOrRestart PROVE RestoreInv'
  OBVIOUS
<1> USE DEF GuardPassed, Replacing, threads, registrationVars, queueVars,
        pushAndBackups, restoredData, RestoreInv
<1>1. RestoreTypes'
  <2>1. CASE RestoreFails \/ FetchArchive \/ GuardQueue \/ ReplaceQueueDb
    BY <2>1 DEF RestoreTypes, RestoreFails, FetchArchive, GuardQueue, ReplaceQueueDb
  <2>2. CASE LeaveMarker \/ ReplaceAppDb \/ ReplaceFiles
    BY <2>2 DEF RestoreTypes, LeaveMarker, ReplaceAppDb, ReplaceFiles
  <2>3. CASE FinishMaintenance
    BY <2>3 DEF RestoreTypes, FinishMaintenance, RegistrationStarts, QueueStarts
  <2>4. CASE RestartProcess
    BY <2>4 DEF RestoreTypes, RestartProcess, QueueStarts
  <2>5. QED
    BY <2>1, <2>2, <2>3, <2>4 DEF RestoreOrRestart
<1>2. BackupsKeepOut'
  BY <1>1 DEF RestoreTypes, BackupsKeepOut, RestoreOrRestart, RestoreFails, FetchArchive, GuardQueue,
         ReplaceQueueDb, LeaveMarker, ReplaceAppDb, ReplaceFiles, FinishMaintenance,
         RestartProcess
<1>3. QueueStaysDown'
  BY <1>1 DEF RestoreTypes, QueueStaysDown, RestoreOrRestart, RestoreFails, FetchArchive, GuardQueue,
         ReplaceQueueDb, LeaveMarker, ReplaceAppDb, ReplaceFiles, FinishMaintenance,
         RestartProcess, QueueStarts
<1>4. DumpIsMarked'
  BY <1>1 DEF RestoreTypes, DumpIsMarked, QueueStaysDown, RestoreOrRestart, RestoreFails, FetchArchive,
         GuardQueue, ReplaceQueueDb, LeaveMarker, ReplaceAppDb, ReplaceFiles,
         FinishMaintenance, RestartProcess, QueueStarts
<1>5. QED
  BY <1>1, <1>2, <1>3, <1>4

\* Every step keeps what is stopped, and what is known of restored leases.
LEMMA RestoreStep == RestoreInv /\ [MaintenanceNext]_maintenanceVars => RestoreInv'
<1> SUFFICES ASSUME RestoreInv, [MaintenanceNext]_maintenanceVars PROVE RestoreInv'
  OBVIOUS
<1>1. CASE UNCHANGED maintenanceVars
  BY <1>1 DEF maintenanceVars, RestoreInv, RestoreTypes, BackupsKeepOut,
              QueueStaysDown, DumpIsMarked, GuardPassed, Replacing
<1>2. QED
  BY <1>1, BesideKeepsRestore, StopKeepsRestore, RestoreStepKeepsRestore
     DEF MaintenanceNext, BesideRestore, StopOrUndo, RestoreOrRestart

\* A restore replaces data only while no job is in hand, none can be claimed
\* and no backup reads, and a running queue never takes leases of a restored
\* dump for live ones (api/app.py:112, backup_service.py:378).
THEOREM RestoreStaysSafe == MaintenanceSpec => []RestoreIsSafe
<1>1. RestoreInv => RestoreIsSafe
  BY DEF RestoreInv, RestoreTypes, BackupsKeepOut, QueueStaysDown, DumpIsMarked, GuardPassed,
         Replacing, RestoreIsSafe, ReplacedWhileQuiet, RestoredLeasesReclaimed
<1>2. QED
  BY <1>1, InitRestore, RestoreStep, PTL DEF MaintenanceSpec

-----------------------------------------------------------------------------
(* Where the files of an editable task are, and who is about to work on it. *)

FileStatuses == {"none", "queued", "running", "success", "error"}
FileRows == [status : FileStatuses, pending : BOOLEAN, storage : Nat]
FileStages == {"none", "begin", "running", "exporting", "exported", "moved", "failing",
               "failed", "ending"}
FileThreads == [at : FileStages, storage : Nat, moved : BOOLEAN]

\* What changing one field of a row, or of a thread, gives.
LEMMA RowStatus ==
  ASSUME NEW r \in FileRows, NEW s \in FileStatuses
  PROVE  [r EXCEPT !.status = s] \in FileRows
  BY DEF FileRows

\* The same for the step a thread is at.
LEMMA ThreadAt ==
  ASSUME NEW t \in FileThreads, NEW a \in FileStages
  PROVE  [t EXCEPT !.at = a] \in FileThreads
  BY DEF FileThreads

\* The task that is gone and the thread that is not there.
LEMMA EmptyRows == NoTask \in FileRows /\ NoThread \in FileThreads
  BY DEF FileRows, FileThreads, FileStatuses, FileStages, NoTask, NoThread

FileTypes ==
  /\ fileRow \in FileRows /\ thread \in FileThreads
  /\ storages \in Nat
  /\ submits \in [Clients -> BOOLEAN]

\* Files belong to the row; a task that is gone has none.
FilesOfTheRow ==
  /\ staged \cup published \subseteq {fileRow.storage}
  /\ fileRow.status = "none" => staged \cup published = {}
  /\ fileRow.status = "success" /\ ~fileRow.pending => fileRow.storage \in published

\* The task is not deleted, and not done, under a thread that works on it.
ThreadHasTheRow ==
  /\ thread.at \in {"exporting", "exported", "moved"} =>
       fileRow.status \in Unfinished /\ thread.storage = fileRow.storage
  /\ thread.at \in {"running", "failing", "failed"} => fileRow.status \in Unfinished \cup {"none"}
  /\ thread.at = "moved" => thread.storage \in published

\* A thread is in flight; one that could not start or not record its step may have
\* left the task in flight without a thread.
InFlight ==
  /\ thread.at # "none" => inflight
  /\ inflight /\ thread.at = "none" => stranded

\* Somebody is about to work on an unfinished task.
SomeoneWillWork ==
  fileRow.status \in Unfinished /\ ~lost /\ ~stranded =>
    thread.at \notin {"none", "ending"} \/ \E c \in Clients : submits[c]

FilesInv == FileTypes /\ FilesOfTheRow /\ ThreadHasTheRow /\ InFlight /\ SomeoneWillWork

\* There is no task at first.
LEMMA InitFiles == EditableInit => FilesInv
<1> SUFFICES ASSUME EditableInit PROVE FilesInv
  OBVIOUS
<1>1. FileTypes
  BY EmptyRows DEF EditableInit, FileTypes
<1>2. FilesOfTheRow /\ ThreadHasTheRow
  BY DEF EditableInit, FilesOfTheRow, ThreadHasTheRow, NoTask, NoThread, Unfinished
<1>3. InFlight /\ SomeoneWillWork
  BY DEF EditableInit, InFlight, SomeoneWillWork, NoTask, NoThread, Unfinished
<1>4. QED
  BY <1>1, <1>2, <1>3 DEF FilesInv

\* Every step leaves the types as they are.
LEMMA StepKeepsFileTypes == FileTypes /\ EditableNext => FileTypes'
<1> SUFFICES ASSUME FileTypes, EditableNext PROVE FileTypes'
  OBVIOUS
<1> USE RowStatus, ThreadAt, EmptyRows DEF FileTypes
<1>1. ASSUME NEW c \in Clients, SubmitFile(c) PROVE FileTypes'
  <2>1. storages + 1 \in Nat /\ [status |-> "queued", pending |-> FALSE, storage |-> storages + 1] \in FileRows
    BY DEF FileRows, FileStatuses
  <2>2. [fileRow EXCEPT !.status = "queued"] \in FileRows
    BY DEF FileStatuses
  <2>3. QED
    BY <1>1, <2>1, <2>2 DEF SubmitFile
<1>2. ASSUME NEW c \in Clients, StartTask(c) PROVE FileTypes'
  <2>1. [NoThread EXCEPT !.at = "begin"] \in FileThreads
    BY DEF FileStages
  <2>2. QED
    BY <1>2, <2>1 DEF StartTask
<1>3. CASE DeleteTask
  <2>1. [fileRow EXCEPT !.pending = TRUE] \in FileRows
    BY DEF FileRows
  <2>2. QED
    BY <1>3, <2>1 DEF DeleteTask, editableBounds
<1>4. CASE MarkRunning \/ Prepare
  <2>1. [fileRow EXCEPT !.status = "running"] \in FileRows
    BY DEF FileStatuses
  <2>2. \A a \in {"running", "ending", "failing"} : [thread EXCEPT !.at = a] \in FileThreads
    BY DEF FileStages
  <2>3. [thread EXCEPT !.at = "exporting", !.storage = fileRow.storage] \in FileThreads
    BY DEF FileThreads, FileRows, FileStages
  <2>4. QED
    BY <1>4, <2>1, <2>2, <2>3 DEF MarkRunning, Prepare, RowRecorded, ThreadGoes, editableBounds
<1>5. CASE Export \/ PublishFiles \/ CleanUp \/ EndRun
  <2>1. \A a \in {"exported", "failing", "failed"} : [thread EXCEPT !.at = a] \in FileThreads
    BY DEF FileStages
  <2>2. [thread EXCEPT !.at = "moved", !.moved = TRUE] \in FileThreads
    <3>1. [thread EXCEPT !.at = "moved"] \in FileThreads
      BY DEF FileStages
    <3>2. \A t \in FileThreads : [t EXCEPT !.moved = TRUE] \in FileThreads
      BY DEF FileThreads
    <3>3. [[thread EXCEPT !.at = "moved"] EXCEPT !.moved = TRUE] \in FileThreads
      BY <3>1, <3>2
    <3>4. QED
      BY <3>3
  <2>3. QED
    BY <1>5, <2>1, <2>2 DEF Export, PublishFiles, CleanUp, EndRun, ThreadGoes, editableBounds
<1>6. CASE RecordSuccess \/ RecordError
  <2>1. \A s \in {"success", "error"} : [fileRow EXCEPT !.status = s] \in FileRows
    BY DEF FileStatuses
  <2>2. \A a \in {"ending", "failing"} : [thread EXCEPT !.at = a] \in FileThreads
    BY DEF FileStages
  <2>3. QED
    BY <1>6, <2>1, <2>2 DEF RecordSuccess, RecordError, RowRecorded, ThreadGoes
<1>7. CASE Restart
  <2>1. \A s \in {"queued", "error"} : [fileRow EXCEPT !.status = s] \in FileRows
    BY DEF FileStatuses
  <2>2. [NoThread EXCEPT !.at = "begin"] \in FileThreads
    BY DEF FileStages
  <2>3. QED
    BY <1>7, <2>1, <2>2 DEF Restart, PendingDeleted, UnfinishedResumed, fileDisk
<1>8. QED
  BY <1>1, <1>2, <1>3, <1>4, <1>5, <1>6, <1>7 DEF EditableNext

FilesRest == FilesOfTheRow /\ ThreadHasTheRow /\ InFlight /\ SomeoneWillWork

\* Clients submit, start and delete the task.
LEMMA ClientsKeepFiles ==
  ASSUME FilesInv, NEW c \in Clients, SubmitFile(c) \/ StartTask(c)
  PROVE FilesRest'
<1> USE DEF FilesInv, FilesRest, Unfinished, Terminal, fileDisk, editableBounds, FileTypes,
            FileRows, FileThreads
<1>1. CASE SubmitFile(c)
  <2>1. (FilesOfTheRow /\ ThreadHasTheRow /\ InFlight)'
    BY <1>1 DEF SubmitFile, FilesOfTheRow, ThreadHasTheRow, InFlight
  <2>2. SomeoneWillWork'
    BY <1>1 DEF SubmitFile, SomeoneWillWork
  <2>3. QED
    BY <2>1, <2>2
<1>2. CASE StartTask(c)
  <2>1. (FilesOfTheRow /\ ThreadHasTheRow /\ InFlight)'
    BY <1>2 DEF StartTask, Fault, NoThread, FilesOfTheRow, ThreadHasTheRow, InFlight
  <2>2. SomeoneWillWork'
    BY <1>2 DEF StartTask, NoThread, InFlight, SomeoneWillWork
  <2>3. QED
    BY <2>1, <2>2
<1>3. QED
  BY <1>1, <1>2

\* The task is deleted, or marked for it.
LEMMA DeletionKeepsFiles == FilesInv /\ DeleteTask => FilesRest'
<1> SUFFICES ASSUME FilesInv, DeleteTask PROVE FilesRest'
  OBVIOUS
<1> USE DEF FilesInv, FilesRest, Unfinished, Terminal, fileDisk, editableBounds, FileTypes,
            FileRows, FileThreads, DeleteTask, Deletable, NoTask
<1>1. (FilesOfTheRow /\ ThreadHasTheRow)'
  BY DEF FilesOfTheRow, ThreadHasTheRow
<1>2. (InFlight /\ SomeoneWillWork)'
  BY DEF InFlight, SomeoneWillWork
<1>3. QED
  BY <1>1, <1>2

\* A step of the thread that runs the task.
FileThreadStep ==
  \/ MarkRunning \/ Prepare \/ Export \/ PublishFiles \/ RecordSuccess
  \/ CleanUp \/ RecordError \/ EndRun

\* The thread works only while its row is there.
LEMMA ThreadStepKeepsFiles == FilesInv /\ FileThreadStep => FilesRest'
<1> SUFFICES ASSUME FilesInv, FileThreadStep PROVE FilesRest'
  OBVIOUS
<1> USE DEF FilesInv, FilesRest, Unfinished, Terminal, fileDisk, editableBounds, ThreadGoes,
            RowRecorded, Fault, FileTypes, FileRows, FileThreads, FileStatuses, NoThread
<1>1. CASE MarkRunning
  <2>1. FilesOfTheRow'
    BY <1>1 DEF MarkRunning, FilesOfTheRow, ThreadHasTheRow
  <2>2. ThreadHasTheRow'
    BY <1>1 DEF MarkRunning, FilesOfTheRow, ThreadHasTheRow
  <2>3. (InFlight /\ SomeoneWillWork)'
    BY <1>1 DEF MarkRunning, InFlight, SomeoneWillWork, ThreadHasTheRow
  <2>4. QED
    BY <2>1, <2>2, <2>3
<1>2. CASE Prepare
  <2>1. FilesOfTheRow'
    BY <1>2 DEF Prepare, FilesOfTheRow, ThreadHasTheRow
  <2>2. ThreadHasTheRow'
    BY <1>2 DEF Prepare, FilesOfTheRow, ThreadHasTheRow
  <2>3. (InFlight /\ SomeoneWillWork)'
    BY <1>2 DEF Prepare, InFlight, SomeoneWillWork, ThreadHasTheRow
  <2>4. QED
    BY <2>1, <2>2, <2>3
<1>3. CASE Export
  <2>1. FilesOfTheRow'
    BY <1>3 DEF Export, FilesOfTheRow, ThreadHasTheRow
  <2>2. ThreadHasTheRow'
    BY <1>3 DEF Export, FilesOfTheRow, ThreadHasTheRow
  <2>3. (InFlight /\ SomeoneWillWork)'
    BY <1>3 DEF Export, InFlight, SomeoneWillWork, ThreadHasTheRow
  <2>4. QED
    BY <2>1, <2>2, <2>3
<1>4. CASE PublishFiles
  <2>1. FilesOfTheRow'
    BY <1>4 DEF PublishFiles, FilesOfTheRow, ThreadHasTheRow
  <2>2. ThreadHasTheRow'
    BY <1>4 DEF PublishFiles, FilesOfTheRow, ThreadHasTheRow
  <2>3. (InFlight /\ SomeoneWillWork)'
    BY <1>4 DEF PublishFiles, InFlight, SomeoneWillWork, ThreadHasTheRow
  <2>4. QED
    BY <2>1, <2>2, <2>3
<1>5. CASE CleanUp
  <2>1. FilesOfTheRow'
    BY <1>5 DEF CleanUp, FilesOfTheRow, ThreadHasTheRow
  <2>2. ThreadHasTheRow'
    BY <1>5 DEF CleanUp, FilesOfTheRow, ThreadHasTheRow
  <2>3. (InFlight /\ SomeoneWillWork)'
    BY <1>5 DEF CleanUp, InFlight, SomeoneWillWork, ThreadHasTheRow
  <2>4. QED
    BY <2>1, <2>2, <2>3
<1>6. CASE EndRun
  <2>1. FilesOfTheRow'
    BY <1>6 DEF EndRun, FilesOfTheRow, ThreadHasTheRow
  <2>2. ThreadHasTheRow'
    BY <1>6 DEF EndRun, FilesOfTheRow, ThreadHasTheRow
  <2>3. (InFlight /\ SomeoneWillWork)'
    BY <1>6 DEF EndRun, InFlight, SomeoneWillWork, ThreadHasTheRow
  <2>4. QED
    BY <2>1, <2>2, <2>3
<1>7. CASE RecordSuccess
  <2>1. FilesOfTheRow'
    BY <1>7 DEF RecordSuccess, FilesOfTheRow, ThreadHasTheRow
  <2>2. ThreadHasTheRow'
    BY <1>7 DEF RecordSuccess, FilesOfTheRow, ThreadHasTheRow
  <2>3. (InFlight /\ SomeoneWillWork)'
    BY <1>7 DEF RecordSuccess, InFlight, SomeoneWillWork, ThreadHasTheRow
  <2>4. QED
    BY <2>1, <2>2, <2>3
<1>8. CASE RecordError
  <2>1. FilesOfTheRow'
    BY <1>8 DEF RecordError, FilesOfTheRow, ThreadHasTheRow
  <2>2. ThreadHasTheRow'
    BY <1>8 DEF RecordError, FilesOfTheRow, ThreadHasTheRow
  <2>3. (InFlight /\ SomeoneWillWork)'
    BY <1>8 DEF RecordError, InFlight, SomeoneWillWork, ThreadHasTheRow
  <2>4. QED
    BY <2>1, <2>2, <2>3
<1>9. QED
  BY <1>1, <1>2, <1>3, <1>4, <1>5, <1>6, <1>7, <1>8 DEF FileThreadStep

\* A new process removes the files of the unfinished task and starts it, or deletes it.
LEMMA RestartKeepsFiles == FilesInv /\ Restart => FilesRest'
<1> SUFFICES ASSUME FilesInv, Restart PROVE FilesRest'
  OBVIOUS
<1> USE DEF FilesInv, FilesRest, Restart, FileTypes, FileRows, FileThreads, NoThread, NoTask,
            Unfinished, Terminal, fileDisk
<1>1. CASE PendingDeleted
  BY <1>1 DEF PendingDeleted, FilesOfTheRow, ThreadHasTheRow, InFlight, SomeoneWillWork
<1>2. CASE UnfinishedResumed
  <2>1. (FilesOfTheRow /\ ThreadHasTheRow)'
    BY <1>2 DEF UnfinishedResumed, FilesOfTheRow, ThreadHasTheRow
  <2>2. (InFlight /\ SomeoneWillWork)'
    BY <1>2 DEF UnfinishedResumed, InFlight, SomeoneWillWork
  <2>3. QED
    BY <2>1, <2>2
<1>3. CASE /\ fileRow.status \notin Unfinished
           /\ inflight' = FALSE /\ thread' = NoThread
           /\ UNCHANGED <<fileRow, fileDisk>>
  BY <1>3 DEF FilesOfTheRow, ThreadHasTheRow, InFlight, SomeoneWillWork
<1>4. QED
  BY <1>1, <1>2, <1>3

\* Every step keeps the files with their task.
LEMMA FilesStep == FilesInv /\ [EditableNext]_editableVars => FilesInv'
<1> SUFFICES ASSUME FilesInv, [EditableNext]_editableVars PROVE FilesInv'
  OBVIOUS
<1>1. CASE UNCHANGED editableVars
  BY <1>1 DEF editableVars, FilesInv, FileTypes, FilesOfTheRow, ThreadHasTheRow, InFlight,
              SomeoneWillWork
<1>2. CASE EditableNext
  <2>1. FilesRest'
    BY <1>2, ClientsKeepFiles, DeletionKeepsFiles, ThreadStepKeepsFiles, RestartKeepsFiles
       DEF EditableNext, FileThreadStep
  <2>2. FileTypes'
    BY <1>2, StepKeepsFileTypes DEF FilesInv
  <2>3. QED
    BY <2>1, <2>2 DEF FilesInv, FilesRest
<1>3. QED
  BY <1>1, <1>2

\* An editable task that succeeded has its files, one that is gone has none,
\* and an unfinished one has a thread or a request about to start it, however
\* submissions, deletions, failures and restarts interleave
\* (editable_file_task_service.py:596).
THEOREM FilesStayWithTasks == EditableSpec => []FilesFollowTasks
<1>1. FilesInv => FilesFollowTasks
  BY DEF FilesInv, FilesOfTheRow, SomeoneWillWork, FilesFollowTasks
<1>2. QED
  BY <1>1, InitFiles, FilesStep, PTL DEF EditableSpec

-----------------------------------------------------------------------------
(* What the automatic cleanups saw and used, against what was notified; and *)
(* who holds the lease of a run.                                           *)

ActorStages ==
  {"standby", "waiting", "queued", "logs", "images", "finished", "ran", "scheduled"}

RetentionTypes ==
  /\ setting \in Nat /\ revision \in Nat
  /\ copy \in [Schedulers -> Nat] /\ asked \in [Schedulers -> Nat]
  /\ lease \in [Leases -> Actors \cup {Free}]
  /\ actor \in [Actors -> ActorStages]
  /\ leading \subseteq Schedulers
  /\ seen \in [Schedulers -> Nat]
  /\ cleaned \in [Runs -> [by : Schedulers \cup {Free}, version : Nat, since : Nat]]

\* The copy of a process is as new as what it notified last, and never too new.
CopiesFollow == \A p \in Schedulers : asked[p] <= copy[p] /\ copy[p] <= setting

\* A scheduler saw a revision before its run, and what it has cleaned was cleaned
\* by a run that saw as much.
RunsFollowWhatTheySaw ==
  /\ \A d \in Runs : cleaned[d].since <= revision
  /\ \A p \in Schedulers :
       /\ seen[p] <= revision
       /\ actor[p] \in {"images", "finished", "ran"} => cleaned["logs"].since >= seen[p]
       /\ actor[p] \in {"finished", "ran"} => cleaned["images"].since >= seen[p]

\* A cleanup that saw the last notice used hours as new as its process notified.
HoursAreOwn ==
  \A d \in Runs : cleaned[d].since = revision /\ cleaned[d].by \in Schedulers =>
    cleaned[d].version >= asked[cleaned[d].by]

\* Nothing is due only when the last notice was followed.
NoticesAreFollowed == ~due => \A d \in Runs : cleaned[d].since = revision

\* A run that is at work holds the lease, unless one was lost.
RunsHoldTheLease == ~lapsed => \A p \in Actors : actor[p] \in Runs => lease["run"] = p

CleanupsFollow ==
  CopiesFollow /\ RunsFollowWhatTheySaw /\ HoursAreOwn /\ NoticesAreFollowed

RetentionInv == RetentionTypes /\ CleanupsFollow /\ RunsHoldTheLease

\* Nothing is due, nobody leads.
LEMMA InitRetention == RetentionInit => RetentionInv
<1> SUFFICES ASSUME RetentionInit PROVE RetentionInv
  OBVIOUS
<1>1. RetentionTypes
  BY DEF RetentionInit, RetentionTypes, ActorStages, NoCleanup
<1>2. CleanupsFollow
  BY RetentionAssumption
     DEF RetentionInit, CleanupsFollow, CopiesFollow, RunsFollowWhatTheySaw, HoursAreOwn,
         NoticesAreFollowed, Runs, Actors, NoCleanup
<1>3. RunsHoldTheLease
  BY DEF RetentionInit, RunsHoldTheLease, Runs
<1>4. QED
  BY <1>1, <1>2, <1>3 DEF RetentionInv

\* What the schedulers have cleaned and seen follows as long as no run moves on.
LEMMA SameCleanupsFollow ==
  ASSUME RetentionInv,
         \/ UNCHANGED <<revision, cleaned, seen, due>>
         \/ due' = TRUE /\ UNCHANGED <<revision, cleaned, seen>>,
         \A p \in Schedulers : actor'[p] = actor[p] \/ actor'[p] \in {"standby", "waiting", "queued"},
         asked' = asked, setting' \in Nat, setting <= setting',
         \A p \in Schedulers : copy'[p] \in {copy[p], setting, setting'}
  PROVE  CleanupsFollow'
<1>1. CopiesFollow'
  BY DEF RetentionInv, RetentionTypes, CleanupsFollow, CopiesFollow
<1>2. RunsFollowWhatTheySaw' /\ NoticesAreFollowed'
  BY DEF RetentionInv, CleanupsFollow, RunsFollowWhatTheySaw, NoticesAreFollowed
<1>3. HoursAreOwn'
  BY DEF RetentionInv, CleanupsFollow, HoursAreOwn
<1>4. QED
  BY <1>1, <1>2, <1>3 DEF CleanupsFollow

\* A setting is read, saved and notified, or a time comes.
LEMMA SettingsKeepRetention ==
  ASSUME RetentionInv,
         \/ \E a \in Admins, p \in Schedulers : ViewSettings(a, p) \/ SaveSettings(a, p)
         \/ IntervalPasses
         \/ \E p \in Schedulers : Reload(p) \/ NotifyRetentionChange(p) \/ DeadlinePasses(p)
  PROVE  RetentionInv'
<1> USE DEF settings, schedule, calls, leases
<1>1. ASSUME NEW a \in Admins, NEW p \in Schedulers, ViewSettings(a, p) PROVE RetentionInv'
  BY <1>1 DEF ViewSettings, RetentionInv, RetentionTypes, CleanupsFollow, CopiesFollow,
              RunsFollowWhatTheySaw, HoursAreOwn, NoticesAreFollowed, RunsHoldTheLease
<1>2. ASSUME NEW a \in Admins, NEW p \in Schedulers, SaveSettings(a, p) PROVE RetentionInv'
  <2>1. RetentionTypes' /\ RunsHoldTheLease'
    BY <1>2 DEF SaveSettings, StoreSettings, RetentionInv, RetentionTypes, RunsHoldTheLease
  <2>2. setting' \in Nat /\ setting <= setting'
        /\ \A q \in Schedulers : copy'[q] \in {copy[q], setting, setting'}
    BY <1>2 DEF SaveSettings, StoreSettings, RetentionInv, RetentionTypes
  <2>3. CleanupsFollow'
    BY <1>2, <2>2, SameCleanupsFollow DEF SaveSettings, StoreSettings
  <2>4. QED
    BY <2>1, <2>3 DEF RetentionInv
<1>3. CASE IntervalPasses
  BY <1>3 DEF IntervalPasses, RetentionInv, RetentionTypes, CleanupsFollow, CopiesFollow,
              RunsFollowWhatTheySaw, HoursAreOwn, NoticesAreFollowed, RunsHoldTheLease
<1>4. ASSUME NEW p \in Schedulers, Reload(p) PROVE RetentionInv'
  <2>1. RetentionTypes' /\ RunsHoldTheLease'
    BY <1>4 DEF Reload, RetentionInv, RetentionTypes, RunsHoldTheLease
  <2>2. setting' \in Nat /\ setting <= setting'
        /\ \A q \in Schedulers : copy'[q] \in {copy[q], setting, setting'}
    BY <1>4 DEF Reload, RetentionInv, RetentionTypes
  <2>3. CleanupsFollow'
    BY <1>4, <2>2, SameCleanupsFollow DEF Reload
  <2>4. QED
    BY <2>1, <2>3 DEF RetentionInv
<1>5. ASSUME NEW p \in Schedulers, NotifyRetentionChange(p) PROVE RetentionInv'
  <2>1. RetentionTypes' /\ RunsHoldTheLease'
    BY <1>5 DEF NotifyRetentionChange, RetentionInv, RetentionTypes, RunsHoldTheLease
  <2>2. CASE UNCHANGED <<schedule, wake, asked>>
    BY <1>5, <2>2 DEF NotifyRetentionChange, RetentionInv, RetentionTypes, CleanupsFollow,
       CopiesFollow, RunsFollowWhatTheySaw, HoursAreOwn, NoticesAreFollowed, RunsHoldTheLease
  <2>3. CASE due' = TRUE /\ revision' = revision + 1 /\ asked' = [asked EXCEPT ![p] = copy[p]]
    <3>1. CopiesFollow'
      BY <1>5, <2>3 DEF NotifyRetentionChange, RetentionInv, RetentionTypes, CleanupsFollow,
                        CopiesFollow
    <3>2. RunsFollowWhatTheySaw' /\ NoticesAreFollowed'
      BY <1>5, <2>3 DEF NotifyRetentionChange, RetentionInv, RetentionTypes, CleanupsFollow,
                        RunsFollowWhatTheySaw, NoticesAreFollowed, Runs
    <3>3. HoursAreOwn'
      BY <1>5, <2>3 DEF NotifyRetentionChange, RetentionInv, RetentionTypes, CleanupsFollow,
                        RunsFollowWhatTheySaw, HoursAreOwn
    <3>4. QED
      BY <2>1, <3>1, <3>2, <3>3 DEF RetentionInv, CleanupsFollow
  <2>4. QED
    BY <1>5, <2>2, <2>3 DEF NotifyRetentionChange
<1>6. ASSUME NEW p \in Schedulers, DeadlinePasses(p) PROVE RetentionInv'
  BY <1>6 DEF DeadlinePasses, RetentionInv, RetentionTypes, CleanupsFollow, CopiesFollow,
              RunsFollowWhatTheySaw, HoursAreOwn, NoticesAreFollowed, RunsHoldTheLease
<1>7. QED
  BY <1>1, <1>2, <1>3, <1>4, <1>5, <1>6

\* Leases are taken, kept and lost.
LEMMA LeasesKeepRetention ==
  ASSUME RetentionInv,
         \/ \E l \in Leases : LeaseHeartbeatFails(l) \/ LeaseRunsOut(l)
         \/ \E p \in Schedulers : SchedulerDies(p) \/ Lead(p) \/ StepDown(p)
  PROVE  RetentionInv'
<1> USE RetentionAssumption
    DEF RetentionTypes, settings, schedule, calls, leases, Actors, Leases, ActorStages
<1>1. ASSUME NEW l \in Leases, LeaseHeartbeatFails(l) PROVE RetentionInv'
  BY <1>1 DEF LeaseHeartbeatFails, RetentionInv, CleanupsFollow, CopiesFollow,
              RunsFollowWhatTheySaw, HoursAreOwn, NoticesAreFollowed, RunsHoldTheLease
<1>2. ASSUME NEW l \in Leases, LeaseRunsOut(l) PROVE RetentionInv'
  <2>1. RetentionTypes' /\ CleanupsFollow'
    BY <1>2 DEF LeaseRunsOut, RetentionInv, CleanupsFollow, CopiesFollow,
                RunsFollowWhatTheySaw, HoursAreOwn, NoticesAreFollowed
  <2>2. RunsHoldTheLease'
    BY <1>2 DEF LeaseRunsOut, RetentionInv, RunsHoldTheLease
  <2>3. QED
    BY <2>1, <2>2 DEF RetentionInv
<1>3. ASSUME NEW p \in Schedulers, SchedulerDies(p) PROVE RetentionInv'
  <2>1. RetentionTypes'
    BY <1>3 DEF SchedulerDies, RetentionInv
  <2>2. CopiesFollow' /\ HoursAreOwn' /\ NoticesAreFollowed'
    BY <1>3 DEF SchedulerDies, RetentionInv, CleanupsFollow, CopiesFollow, HoursAreOwn,
                NoticesAreFollowed
  <2>3. RunsFollowWhatTheySaw'
    BY <1>3 DEF SchedulerDies, RetentionInv, CleanupsFollow, RunsFollowWhatTheySaw, Runs
  <2>4. RunsHoldTheLease'
    BY <1>3 DEF SchedulerDies, RetentionInv, RunsHoldTheLease, Runs
  <2>5. QED
    BY <2>1, <2>2, <2>3, <2>4 DEF RetentionInv, CleanupsFollow
<1>4. ASSUME NEW p \in Schedulers, Lead(p) PROVE RetentionInv'
  <2>1. RetentionTypes'
    BY <1>4 DEF Lead, Moves, Acquire, RetentionInv
  <2>2. CopiesFollow' /\ HoursAreOwn' /\ NoticesAreFollowed'
    BY <1>4 DEF Lead, RetentionInv, CleanupsFollow, CopiesFollow, HoursAreOwn, NoticesAreFollowed
  <2>3. RunsFollowWhatTheySaw'
    BY <1>4 DEF Lead, Moves, RetentionInv, CleanupsFollow, RunsFollowWhatTheySaw
  <2>4. RunsHoldTheLease'
    BY <1>4 DEF Lead, Moves, Acquire, RetentionInv, RunsHoldTheLease, Runs
  <2>5. QED
    BY <2>1, <2>2, <2>3, <2>4 DEF RetentionInv, CleanupsFollow
<1>5. ASSUME NEW p \in Schedulers, StepDown(p) PROVE RetentionInv'
  <2>1. RetentionTypes'
    BY <1>5 DEF StepDown, Release, RetentionInv
  <2>2. CopiesFollow' /\ HoursAreOwn' /\ NoticesAreFollowed'
    BY <1>5 DEF StepDown, RetentionInv, CleanupsFollow, CopiesFollow, HoursAreOwn,
                NoticesAreFollowed
  <2>3. RunsFollowWhatTheySaw'
    BY <1>5 DEF StepDown, RetentionInv, CleanupsFollow, RunsFollowWhatTheySaw, Runs
  <2>4. RunsHoldTheLease'
    BY <1>5 DEF StepDown, Release, RetentionInv, RunsHoldTheLease, Runs
  <2>5. QED
    BY <2>1, <2>2, <2>3, <2>4 DEF RetentionInv, CleanupsFollow
<1>6. QED
  BY <1>1, <1>2, <1>3, <1>4, <1>5

\* Runs begin: each takes the lease, and a scheduler reads the revision before.
LEMMA BeginningsKeepRetention ==
  ASSUME RetentionInv,
         \/ \E p \in Schedulers : WaitForCleanup(p) \/ SkipStartup(p)
         \/ \E p \in Actors : RunAtOnce(p) \/ TakeRun(p)
  PROVE  RetentionInv'
<1> USE RetentionAssumption
    DEF RetentionTypes, settings, schedule, calls, leases, Actors, Leases, ActorStages, Moves
<1>1. ASSUME NEW p \in Schedulers, WaitForCleanup(p) PROVE RetentionInv'
  <2>1. RetentionTypes'
    BY <1>1 DEF WaitForCleanup, RetentionInv
  <2>2. CopiesFollow' /\ HoursAreOwn' /\ NoticesAreFollowed'
    BY <1>1 DEF WaitForCleanup, RetentionInv, CleanupsFollow, CopiesFollow, HoursAreOwn,
                NoticesAreFollowed
  <2>3. RunsFollowWhatTheySaw'
    BY <1>1 DEF WaitForCleanup, RetentionInv, CleanupsFollow, RunsFollowWhatTheySaw
  <2>4. RunsHoldTheLease'
    BY <1>1 DEF WaitForCleanup, RetentionInv, RunsHoldTheLease, Runs
  <2>5. QED
    BY <2>1, <2>2, <2>3, <2>4 DEF RetentionInv, CleanupsFollow
<1>2. ASSUME NEW p \in Schedulers, SkipStartup(p) PROVE RetentionInv'
  <2>1. RetentionTypes'
    BY <1>2 DEF SkipStartup, RetentionInv
  <2>2. CleanupsFollow'
    BY <1>2 DEF SkipStartup, RetentionInv, CleanupsFollow, CopiesFollow, HoursAreOwn,
                NoticesAreFollowed, RunsFollowWhatTheySaw
  <2>3. RunsHoldTheLease'
    BY <1>2 DEF SkipStartup, RetentionInv, RunsHoldTheLease, Runs
  <2>4. QED
    BY <2>1, <2>2, <2>3 DEF RetentionInv
<1>3. ASSUME NEW p \in Actors, RunAtOnce(p) PROVE RetentionInv'
  <2>1. RetentionTypes'
    BY <1>3 DEF RunAtOnce, RetentionInv
  <2>2. CleanupsFollow'
    BY <1>3 DEF RunAtOnce, RetentionInv, CleanupsFollow, CopiesFollow, HoursAreOwn,
                NoticesAreFollowed, RunsFollowWhatTheySaw
  <2>3. RunsHoldTheLease'
    BY <1>3 DEF RunAtOnce, RetentionInv, RunsHoldTheLease, Runs
  <2>4. QED
    BY <2>1, <2>2, <2>3 DEF RetentionInv
<1>4. ASSUME NEW p \in Actors, TakeRun(p) PROVE RetentionInv'
  <2>1. RetentionTypes'
    BY <1>4 DEF TakeRun, Acquire, Starting, RetentionInv
  <2>2. CopiesFollow' /\ HoursAreOwn' /\ NoticesAreFollowed'
    BY <1>4 DEF TakeRun, RetentionInv, CleanupsFollow, CopiesFollow, HoursAreOwn,
                NoticesAreFollowed
  <2>3. RunsFollowWhatTheySaw'
    BY <1>4 DEF TakeRun, Starting, RetentionInv, CleanupsFollow, RunsFollowWhatTheySaw
  <2>4. RunsHoldTheLease'
    BY <1>4 DEF TakeRun, Acquire, RetentionInv, RunsHoldTheLease, Runs
  <2>5. QED
    BY <2>1, <2>2, <2>3, <2>4 DEF RetentionInv, CleanupsFollow
<1>5. QED
  BY <1>1, <1>2, <1>3, <1>4

\* A scheduler cleans a domain by its copy, after what it saw.
LEMMA CleaningFollows ==
  ASSUME RetentionInv, NEW p \in Schedulers, NEW domain \in Runs, NEW next \in {"images", "finished"},
         domain = "logs" <=> next = "images", CleanDomain(p, domain, next)
  PROVE  RetentionInv'
<1> USE DEF settings, schedule, calls, leases, CleanDomain, Moves
<1> DEFINE OwnCleanup == [by |-> p, version |-> copy[p], since |-> seen[p]]
<1>1. RetentionTypes'
  BY DEF RetentionInv, RetentionTypes, Cleans, ActorStages, Actors
<1>2. UNCHANGED <<setting, copy, asked, revision, due, seen, lease, lapsed>>
  OBVIOUS
<1>3. \A d \in Runs : d # domain => cleaned'[d] = cleaned[d]
  BY DEF RetentionInv, RetentionTypes, Cleans
<1>4. \/ cleaned'[domain] = cleaned[domain] /\ seen[p] < cleaned[domain].since
      \/ cleaned'[domain] = OwnCleanup /\ cleaned[domain].since <= seen[p]
  BY DEF RetentionInv, RetentionTypes, Cleans
<1>5. /\ cleaned'[domain].since >= cleaned[domain].since /\ cleaned'[domain].since >= seen[p]
      /\ cleaned'[domain].since <= revision
  <2>1. /\ cleaned[domain].since \in Nat /\ seen[p] \in Nat /\ revision \in Nat
        /\ cleaned[domain].since <= revision /\ seen[p] <= revision
    BY DEF RetentionInv, RetentionTypes, CleanupsFollow, RunsFollowWhatTheySaw
  <2>2. CASE cleaned'[domain] = cleaned[domain] /\ seen[p] < cleaned[domain].since
    <3>1. cleaned'[domain].since = cleaned[domain].since
      BY <2>2
    <3>2. QED
      BY <2>1, <2>2, <3>1
  <2>3. CASE cleaned'[domain] = OwnCleanup /\ cleaned[domain].since <= seen[p]
    <3>1. cleaned'[domain].since = seen[p]
      BY <2>3
    <3>2. QED
      BY <2>1, <2>3, <3>1
  <2>4. QED
    BY <1>4, <2>2, <2>3
<1>6. CopiesFollow'
  BY <1>2 DEF RetentionInv, CleanupsFollow, CopiesFollow
<1>7. NoticesAreFollowed'
  <2>1. cleaned'[domain].since \in Nat /\ revision \in Nat
    BY <1>1 DEF RetentionInv, RetentionTypes
  <2>2. cleaned[domain].since = revision => cleaned'[domain].since = revision
    BY <1>5, <2>1
  <2>3. QED
    BY <1>2, <1>3, <2>2 DEF RetentionInv, CleanupsFollow, NoticesAreFollowed
<1>8. HoursAreOwn'
  <2>1. CASE cleaned'[domain] = cleaned[domain]
    BY <2>1, <1>2, <1>3 DEF RetentionInv, CleanupsFollow, HoursAreOwn
  <2>2. CASE cleaned'[domain] = OwnCleanup
    BY <2>2, <1>2, <1>3 DEF RetentionInv, RetentionTypes, CleanupsFollow, HoursAreOwn, CopiesFollow
  <2>3. QED
    BY <1>4, <2>1, <2>2
<1>9. RunsFollowWhatTheySaw'
  <2>1. \A d \in Runs : cleaned'[d].since <= revision' /\ cleaned'[d].since >= cleaned[d].since
    BY <1>2, <1>3, <1>5 DEF RetentionInv, RetentionTypes, CleanupsFollow, RunsFollowWhatTheySaw
  <2>2. \A q \in Schedulers : q # p => actor'[q] = actor[q]
    BY DEF RetentionInv, RetentionTypes
  <2>3. actor'[p] = next /\ actor[p] = domain
    BY DEF RetentionInv, RetentionTypes, Actors
  <2>4. cleaned'[domain].since \in Nat /\ cleaned'["logs"].since \in Nat
        /\ cleaned'["images"].since \in Nat
    BY <1>1 DEF RetentionTypes, Runs
  <2>5. \A q \in Schedulers : q # p =>
          /\ seen'[q] <= revision'
          /\ actor'[q] \in {"images", "finished", "ran"} => cleaned'["logs"].since >= seen'[q]
          /\ actor'[q] \in {"finished", "ran"} => cleaned'["images"].since >= seen'[q]
    BY <1>2, <2>1, <2>2, <2>4
       DEF RetentionInv, RetentionTypes, CleanupsFollow, RunsFollowWhatTheySaw, Runs
  <2>6. /\ seen'[p] <= revision'
        /\ actor'[p] \in {"images", "finished", "ran"} => cleaned'["logs"].since >= seen'[p]
        /\ actor'[p] \in {"finished", "ran"} => cleaned'["images"].since >= seen'[p]
    BY <1>2, <1>5, <2>1, <2>3, <2>4
       DEF RetentionInv, RetentionTypes, CleanupsFollow, RunsFollowWhatTheySaw, Runs
  <2>7. QED
    BY <2>1, <2>5, <2>6 DEF RunsFollowWhatTheySaw
<1>10. RunsHoldTheLease'
  BY <1>2 DEF RetentionInv, RetentionTypes, RunsHoldTheLease, Runs, Actors
<1>11. QED
  BY <1>1, <1>6, <1>7, <1>8, <1>9, <1>10 DEF RetentionInv, CleanupsFollow

\* Runs go on, end and are followed by a wait.
LEMMA RunsKeepRetention ==
  ASSUME RetentionInv,
         \/ \E p \in Schedulers :
              \/ CleanDomain(p, "logs", "images") \/ CleanDomain(p, "images", "finished")
              \/ ScheduleAfterCleanup(p)
         \/ \E p \in Manual : CleanAsAsked(p)
         \/ \E p \in Actors : FinishRun(p)
  PROVE  RetentionInv'
<1> USE RetentionAssumption
    DEF RetentionTypes, settings, schedule, calls, leases, Actors, Leases, ActorStages, Moves
<1>1. ASSUME NEW p \in Schedulers,
             CleanDomain(p, "logs", "images") \/ CleanDomain(p, "images", "finished")
      PROVE  RetentionInv'
  BY <1>1, CleaningFollows DEF Runs
<1>2. ASSUME NEW p \in Schedulers, ScheduleAfterCleanup(p) PROVE RetentionInv'
  <2>1. RetentionTypes'
    BY <1>2 DEF ScheduleAfterCleanup, RetentionInv
  <2>2. CopiesFollow' /\ HoursAreOwn'
    BY <1>2 DEF ScheduleAfterCleanup, RetentionInv, CleanupsFollow, CopiesFollow, HoursAreOwn
  <2>3. RunsFollowWhatTheySaw'
    BY <1>2 DEF ScheduleAfterCleanup, RetentionInv, CleanupsFollow, RunsFollowWhatTheySaw, Runs
  <2>4. NoticesAreFollowed'
    BY <1>2 DEF ScheduleAfterCleanup, PutOff, RetentionInv, CleanupsFollow,
                NoticesAreFollowed, RunsFollowWhatTheySaw, Runs
  <2>5. RunsHoldTheLease'
    BY <1>2 DEF ScheduleAfterCleanup, RetentionInv, RunsHoldTheLease, Runs
  <2>6. QED
    BY <2>1, <2>2, <2>3, <2>4, <2>5 DEF RetentionInv, CleanupsFollow
<1>3. ASSUME NEW p \in Manual, CleanAsAsked(p) PROVE RetentionInv'
  <2>1. RetentionTypes'
    BY <1>3 DEF CleanAsAsked, RetentionInv
  <2>2. CleanupsFollow'
    BY <1>3 DEF CleanAsAsked, RetentionInv, CleanupsFollow, CopiesFollow, HoursAreOwn,
                NoticesAreFollowed, RunsFollowWhatTheySaw
  <2>3. RunsHoldTheLease'
    BY <1>3 DEF CleanAsAsked, RetentionInv, RunsHoldTheLease, Runs
  <2>4. QED
    BY <2>1, <2>2, <2>3 DEF RetentionInv
<1>4. ASSUME NEW p \in Actors, FinishRun(p) PROVE RetentionInv'
  <2>1. RetentionTypes'
    BY <1>4 DEF FinishRun, Release, RetentionInv
  <2>2. CopiesFollow' /\ HoursAreOwn' /\ NoticesAreFollowed'
    BY <1>4 DEF FinishRun, RetentionInv, CleanupsFollow, CopiesFollow, HoursAreOwn,
                NoticesAreFollowed
  <2>3. RunsFollowWhatTheySaw'
    BY <1>4 DEF FinishRun, Starting, RetentionInv, CleanupsFollow, RunsFollowWhatTheySaw
  <2>4. RunsHoldTheLease'
    BY <1>4 DEF FinishRun, Release, RetentionInv, RunsHoldTheLease, Runs
  <2>5. QED
    BY <2>1, <2>2, <2>3, <2>4 DEF RetentionInv, CleanupsFollow
<1>5. QED
  BY <1>1, <1>2, <1>3, <1>4

\* Every step keeps what the cleanups follow, and who holds the lease.
LEMMA RetentionStep == RetentionInv /\ [RetentionNext]_retentionVars => RetentionInv'
<1> SUFFICES ASSUME RetentionInv, [RetentionNext]_retentionVars PROVE RetentionInv'
  OBVIOUS
<1>1. CASE UNCHANGED retentionVars
  BY <1>1 DEF retentionVars, RetentionInv, RetentionTypes, CleanupsFollow, CopiesFollow,
              RunsFollowWhatTheySaw, HoursAreOwn, NoticesAreFollowed, RunsHoldTheLease
<1>2. QED
  BY <1>1, SettingsKeepRetention, LeasesKeepRetention, BeginningsKeepRetention,
     RunsKeepRetention DEF RetentionNext

\* Whenever no cleanup is due, each domain had an automatic cleanup that began
\* after the last notice, by hours no older than its own process had notified,
\* wherever the notice fell; and cleanups overlap only when one lost its lease
\* (retention_cleanup_service.py:167).
THEOREM SettingsGetApplied == RetentionSpec => []SettingsAreApplied
<1>1. RetentionInv => SettingsAreApplied
  <2> SUFFICES ASSUME RetentionInv PROVE SettingsAreApplied
    OBVIOUS
  <2>1. ~due => \A d \in Runs : cleaned[d].since = revision
    BY DEF RetentionInv, CleanupsFollow, NoticesAreFollowed
  <2>2. \A d \in Runs : cleaned[d].since = revision /\ cleaned[d].by \in Schedulers =>
          cleaned[d].version >= asked[cleaned[d].by]
    BY DEF RetentionInv, CleanupsFollow, HoursAreOwn
  <2>3. \A p, q \in Actors : p # q /\ actor[p] \in Runs /\ actor[q] \in Runs => lapsed
    BY DEF RetentionInv, RunsHoldTheLease
  <2>4. QED
    BY <2>1, <2>2, <2>3 DEF SettingsAreApplied
<1>2. QED
  BY <1>1, InitRetention, RetentionStep, PTL DEF RetentionSpec

-----------------------------------------------------------------------------
(* Snapshots are whole: in memory, in the database, and on their way.      *)

Snapshots ==
  [rev : Nat, sources : SUBSET PromptSources, items : [PromptSources -> SUBSET Nat],
   verified : BOOLEAN, failed : SUBSET PromptSources]

\* The items are those the sources of a revision have in it.
ItemsOf(items, sources, rev) == \A s \in sources : items[s] = {rev}

\* A snapshot, by what the registry has published.
Whole(lib, releases, newest) ==
  /\ lib \in Snapshots
  /\ lib.rev <= newest
  /\ lib.verified => lib.sources = releases[lib.rev] /\ ItemsOf(lib.items, lib.sources, lib.rev)
  /\ \E s \in PromptSources : lib.items[s] # {}

RegistrySound ==
  /\ latest \in Revisions
  /\ offers \in [Revisions -> SUBSET PromptSources]
  /\ \A r \in 1..latest : offers[r] # {}

SnapshotsWhole ==
  /\ Whole(library, offers, latest) /\ Whole(saved, offers, latest)
  /\ saved.rev >= library.rev

\* What a refresh holds: a revision no older than the library's, and its items.
RefreshSound ==
  /\ refresh.at = "manifest" => refresh.rev \in 1..latest /\ library.rev <= refresh.rev
  /\ refresh.at \in {"payload", "stored"} =>
       /\ refresh \in [at : {"payload", "stored"}, rev : 1..latest,
                       items : [PromptSources -> SUBSET Nat]]
       /\ library.rev <= refresh.rev
       /\ ItemsOf(refresh.items, offers[refresh.rev], refresh.rev)
  /\ refresh.at = "stored" => saved = Candidate

\* Settings are of sources there are or were.
SettingsSound ==
  /\ off \cup savedOff \subseteq library.sources \cup dropped
  /\ refresh.at = "setting" =>
       /\ refresh.off \subseteq library.sources \cup dropped
       /\ savedOff = refresh.off \cap library.sources
  /\ refresh.at # "setting" => \A s : s \notin dropped => (s \in off <=> s \in savedOff)

LibraryInv == RegistrySound /\ SnapshotsWhole /\ RefreshSound /\ SettingsSound

\* The program's own snapshot, and one with another note of failures, are whole.
LEMMA FirstIsWhole == Whole(Seeded(Empty), [r \in Revisions |-> {}], 0)
<1>1. PromptSources # {} /\ Bundled \in PromptSources
  BY LibraryAssumption
<1>2. NoItems[Bundled] = {} /\ NoItems \in [PromptSources -> SUBSET Nat]
  BY <1>1 DEF NoItems
<1>3. Seeded(Empty) = [Empty EXCEPT !.items = [NoItems EXCEPT ![Bundled] = {0}]]
  BY <1>2 DEF Seeded, Empty
<1>4. [NoItems EXCEPT ![Bundled] = {0}] \in [PromptSources -> SUBSET Nat]
  <2>1. {0} \in SUBSET Nat
    OBVIOUS
  <2>2. QED
    BY <1>2, <2>1
<1>5. {Bundled} \in SUBSET PromptSources /\ {} \in SUBSET PromptSources
  BY <1>1
<1>6. Seeded(Empty) =
        [rev |-> 0, sources |-> {Bundled}, items |-> [NoItems EXCEPT ![Bundled] = {0}],
         verified |-> FALSE, failed |-> {}]
  BY <1>3 DEF Empty
<1>7. Seeded(Empty) \in Snapshots
  BY <1>4, <1>5, <1>6 DEF Snapshots
<1>8. [NoItems EXCEPT ![Bundled] = {0}][Bundled] # {}
  BY <1>1, <1>2
<1>9. QED
  BY <1>1, <1>6, <1>7, <1>8 DEF Whole

\* A note of failures leaves a snapshot whole.
LEMMA NotedIsWhole ==
  ASSUME NEW lib, NEW releases, NEW newest, Whole(lib, releases, newest),
         NEW targets \in SUBSET PromptSources
  PROVE  LET noted == [lib EXCEPT !.failed = @ \cup targets] IN
         /\ Whole(noted, releases, newest)
         /\ noted.rev = lib.rev /\ noted.sources = lib.sources
  BY DEF Whole, Snapshots, ItemsOf

\* What is loaded from a whole snapshot is whole.
LEMMA LoadedIsWhole ==
  ASSUME NEW lib, NEW releases, NEW newest, Whole(lib, releases, newest)
  PROVE  /\ Whole(Loaded(lib), releases, newest)
         /\ Loaded(lib).rev = lib.rev /\ Loaded(lib).sources = lib.sources
<1> DEFINE kept == [s \in PromptSources |-> IF s \in lib.sources THEN lib.items[s] ELSE {}]
           cut == [lib EXCEPT !.items = kept]
           seeded == [kept EXCEPT ![Bundled] = {0}]
<1>1. kept \in [PromptSources -> SUBSET Nat] /\ seeded \in [PromptSources -> SUBSET Nat]
  <2>1. \A s \in PromptSources : lib.items[s] \in SUBSET Nat
    BY DEF Whole, Snapshots
  <2>2. {} \in SUBSET Nat /\ {0} \in SUBSET Nat
    OBVIOUS
  <2>3. kept \in [PromptSources -> SUBSET Nat]
    BY <2>1, <2>2
  <2>4. QED
    BY <2>2, <2>3
<1>2. cut \in Snapshots /\ cut.items = kept /\ cut.rev = lib.rev /\ cut.sources = lib.sources
      /\ cut.verified = lib.verified
  BY <1>1 DEF Whole, Snapshots
<1>3. \A s \in lib.sources : kept[s] = lib.items[s]
  BY DEF Whole, Snapshots
<1>4. CASE kept[Bundled] # {}
  <2>1. Loaded(lib) = cut
    BY <1>2, <1>4 DEF Loaded, Seeded
  <2>2. lib.verified => ItemsOf(kept, lib.sources, lib.rev)
    BY <1>3 DEF Whole, ItemsOf
  <2>3. QED
    BY <1>2, <1>4, <2>1, <2>2, LibraryAssumption DEF Whole
<1>5. CASE kept[Bundled] = {}
  <2>1. Loaded(lib) = [cut EXCEPT !.items[Bundled] = {0}]
    BY <1>2, <1>5 DEF Loaded, Seeded
  <2>2. Loaded(lib) = [cut EXCEPT !.items = seeded]
    BY <1>2, <2>1
  <2>3. /\ Loaded(lib) \in Snapshots /\ Loaded(lib).items = seeded /\ Loaded(lib).rev = lib.rev
        /\ Loaded(lib).sources = lib.sources /\ Loaded(lib).verified = lib.verified
    BY <1>1, <1>2, <2>2 DEF Snapshots
  <2>4. seeded[Bundled] # {} /\ \A s \in PromptSources \ {Bundled} : seeded[s] = kept[s]
    BY LibraryAssumption
  <2>5. ASSUME lib.verified PROVE ItemsOf(seeded, lib.sources, lib.rev)
    <3>1. ItemsOf(lib.items, lib.sources, lib.rev) /\ lib.sources \subseteq PromptSources
      BY <2>5 DEF Whole, Snapshots
    <3>2. Bundled \notin lib.sources
      BY <1>3, <1>5, <3>1 DEF ItemsOf
    <3>3. QED
      BY <1>3, <2>4, <3>1, <3>2 DEF ItemsOf
  <2>6. QED
    BY <2>3, <2>4, <2>5, LibraryAssumption DEF Whole
<1>6. QED
  BY <1>4, <1>5

\* The registry only adds a revision, so what was whole still is.
LEMMA PublishingKeepsWhole ==
  ASSUME NEW lib, RegistrySound, Whole(lib, offers, latest), RegistryPublishes
  PROVE  Whole(lib, offers', latest')
<1>1. \A r \in 0..latest : offers'[r] = offers[r]
  BY LibraryAssumption DEF RegistrySound, RegistryPublishes, Revisions
<1>2. latest' = latest + 1 /\ latest \in Nat
  BY LibraryAssumption DEF RegistrySound, RegistryPublishes, Revisions
<1>3. QED
  BY <1>1, <1>2 DEF Whole, Snapshots

\* The library begins with the source of the program.
LEMMA InitLibrary == LibraryInit => LibraryInv
<1> SUFFICES ASSUME LibraryInit PROVE LibraryInv
  OBVIOUS
<1>1. RegistrySound
  BY LibraryAssumption DEF LibraryInit, RegistrySound, Revisions
<1>2. SnapshotsWhole
  BY FirstIsWhole DEF LibraryInit, SnapshotsWhole, Whole, Snapshots
<1>3. RefreshSound /\ SettingsSound
  BY DEF LibraryInit, RefreshSound, SettingsSound, NoRefresh
<1>4. QED
  BY <1>1, <1>2, <1>3 DEF LibraryInv

\* Another revision is published.
LEMMA PublishingKeepsLibrary == LibraryInv /\ RegistryPublishes => LibraryInv'
<1> SUFFICES ASSUME LibraryInv, RegistryPublishes PROVE LibraryInv'
  OBVIOUS
<1>1. RegistrySound'
  BY LibraryAssumption DEF LibraryInv, RegistrySound, RegistryPublishes, Revisions
<1>2. SnapshotsWhole'
  BY PublishingKeepsWhole DEF LibraryInv, SnapshotsWhole, RegistryPublishes
<1>3. RefreshSound'
  <2>1. \A r \in 0..latest : offers'[r] = offers[r]
    BY LibraryAssumption DEF LibraryInv, RegistrySound, RegistryPublishes, Revisions
  <2>2. latest' = latest + 1 /\ latest \in Nat
    BY LibraryAssumption DEF LibraryInv, RegistrySound, RegistryPublishes, Revisions
  <2>3. UNCHANGED <<refresh, library, saved>>
    BY DEF RegistryPublishes
  <2>4. refresh.at \in {"payload", "stored"} => offers'[refresh.rev] = offers[refresh.rev]
    BY <2>1, <2>2 DEF LibraryInv, RefreshSound
  <2>5. QED
    BY <2>2, <2>3, <2>4 DEF LibraryInv, RefreshSound, Candidate
<1>4. SettingsSound'
  BY DEF LibraryInv, SettingsSound, RegistryPublishes
<1>5. QED
  BY <1>1, <1>2, <1>3, <1>4 DEF LibraryInv

\* The registry is read.
LEMMA FetchingKeepsLibrary == LibraryInv /\ (FetchManifest \/ FetchPrompts) => LibraryInv'
<1> SUFFICES ASSUME LibraryInv, FetchManifest \/ FetchPrompts PROVE LibraryInv'
  OBVIOUS
<1>1. UNCHANGED <<offers, latest, library, saved, off, savedOff, dropped>>
  BY DEF FetchManifest, FetchPrompts, registry
<1>2. RegistrySound' /\ SnapshotsWhole'
  BY <1>1 DEF LibraryInv, RegistrySound, SnapshotsWhole
<1>3. refresh.at # "setting" /\ refresh'.at # "setting"
  BY DEF FetchManifest, FetchPrompts, NoRefresh
<1>4. SettingsSound'
  BY <1>1, <1>3 DEF LibraryInv, SettingsSound
<1>5. latest \in Nat /\ library \in Snapshots /\ library.rev <= latest
  BY LibraryAssumption DEF LibraryInv, RegistrySound, Revisions, SnapshotsWhole, Whole
<1>6. RefreshSound'
  <2>1. CASE refresh' = [at |-> "failing"]
    BY <2>1 DEF RefreshSound
  <2>2. CASE latest > 0 /\ refresh' = [at |-> "manifest", rev |-> latest]
    BY <1>1, <1>5, <2>2 DEF RefreshSound
  <2>3. CASE /\ latest > 0 /\ Complete(latest)
             /\ refresh' = [at |-> "payload", rev |-> latest, items |-> library.items]
    <3>1. library.items \in [PromptSources -> SUBSET Nat]
      BY <1>5 DEF Snapshots
    <3>2. ItemsOf(library.items, offers[latest], latest)
      BY <2>3 DEF LibraryInv, SnapshotsWhole, Whole, Complete
    <3>3. QED
      BY <1>1, <1>5, <2>3, <3>1, <3>2 DEF RefreshSound
  <2>4. ASSUME refresh.at = "manifest", NEW got \in {refresh.rev, latest},
               Matches(refresh.rev, got),
               refresh' = [at |-> "payload", rev |-> refresh.rev,
                           items |-> [s \in PromptSources |->
                                        IF s \in offers[refresh.rev] THEN {got} ELSE {}]]
        PROVE  RefreshSound'
    <3>1. refresh.rev \in 1..latest /\ library.rev <= refresh.rev /\ got = refresh.rev
      BY <2>4 DEF LibraryInv, RefreshSound, Matches
    <3>2. offers[refresh.rev] \subseteq PromptSources
      BY <3>1, LibraryAssumption DEF LibraryInv, RegistrySound, Revisions
    <3>3. refresh'.items \in [PromptSources -> SUBSET Nat]
      BY <1>5, <2>4, <3>1
    <3>4. ItemsOf(refresh'.items, offers[refresh.rev], refresh.rev)
      BY <2>4, <3>1, <3>2 DEF ItemsOf
    <3>5. refresh' \in [at : {"payload", "stored"}, rev : 1..latest,
                        items : [PromptSources -> SUBSET Nat]]
      BY <2>4, <3>1, <3>3
    <3>6. refresh'.rev = refresh.rev /\ refresh'.at = "payload"
      BY <2>4
    <3>7. QED
      BY <1>1, <3>1, <3>4, <3>5, <3>6 DEF RefreshSound
  <2>5. QED
    BY <2>1, <2>2, <2>3, <2>4 DEF FetchManifest, FetchPrompts
<1>7. QED
  BY <1>2, <1>4, <1>6 DEF LibraryInv

\* What a refresh is about to store is whole.
LEMMA CandidateIsWhole ==
  ASSUME LibraryInv, refresh.at \in {"payload", "stored"}
  PROVE  /\ Whole(Candidate, offers, latest)
         /\ Candidate.rev = refresh.rev /\ library.rev <= refresh.rev
<1>1. /\ refresh \in [at : {"payload", "stored"}, rev : 1..latest,
                      items : [PromptSources -> SUBSET Nat]]
      /\ library.rev <= refresh.rev
      /\ ItemsOf(refresh.items, offers[refresh.rev], refresh.rev)
  BY DEF LibraryInv, RefreshSound
<1>2. refresh.rev \in 1..latest /\ refresh.items \in [PromptSources -> SUBSET Nat]
  BY <1>1
<1>3. latest \in Nat /\ offers[refresh.rev] \subseteq PromptSources /\ offers[refresh.rev] # {}
  BY <1>2, LibraryAssumption DEF LibraryInv, RegistrySound, Revisions
<1>4. Candidate \in Snapshots
  BY <1>2, <1>3 DEF Candidate, Snapshots
<1>5. /\ Candidate.rev = refresh.rev /\ Candidate.sources = offers[refresh.rev]
      /\ Candidate.items = refresh.items
  BY DEF Candidate
<1>6. \E s \in PromptSources : Candidate.items[s] # {}
  BY <1>1, <1>3, <1>5 DEF ItemsOf
<1>7. QED
  BY <1>1, <1>2, <1>3, <1>4, <1>5, <1>6 DEF Whole

\* The snapshot is stored and adopted.
LEMMA StoringKeepsLibrary == LibraryInv /\ (StoreSnapshot \/ AdoptSnapshot) => LibraryInv'
<1> SUFFICES ASSUME LibraryInv, StoreSnapshot \/ AdoptSnapshot PROVE LibraryInv'
  OBVIOUS
<1>1. /\ Whole(Candidate, offers, latest)
      /\ Candidate.rev = refresh.rev /\ library.rev <= refresh.rev
  BY CandidateIsWhole DEF StoreSnapshot, AdoptSnapshot
<1>2. RegistrySound'
  BY DEF LibraryInv, RegistrySound, StoreSnapshot, AdoptSnapshot, registry
<1>3. CASE StoreSnapshot
  <2>1. SnapshotsWhole'
    BY <1>1, <1>3 DEF LibraryInv, SnapshotsWhole, StoreSnapshot, registry
  <2>2. SettingsSound'
    <3>1. refresh.at # "setting" /\ refresh'.at # "setting"
      BY <1>3 DEF LibraryInv, RefreshSound, StoreSnapshot
    <3>2. QED
      BY <1>3, <3>1 DEF LibraryInv, SettingsSound, StoreSnapshot
  <2>3. RefreshSound'
    <3>1. CASE refresh' = [at |-> "failing"]
      BY <3>1 DEF RefreshSound
    <3>2. CASE saved' = Candidate /\ refresh' = [refresh EXCEPT !.at = "stored"]
      <4>1. /\ refresh \in [at : {"payload", "stored"}, rev : 1..latest,
                            items : [PromptSources -> SUBSET Nat]]
            /\ ItemsOf(refresh.items, offers[refresh.rev], refresh.rev)
        BY <1>3 DEF LibraryInv, RefreshSound, StoreSnapshot
      <4>2. /\ refresh' \in [at : {"payload", "stored"}, rev : 1..latest,
                             items : [PromptSources -> SUBSET Nat]]
            /\ refresh'.rev = refresh.rev /\ refresh'.items = refresh.items
            /\ refresh'.at = "stored"
        BY <3>2, <4>1
      <4>3. UNCHANGED <<offers, latest, library>>
        BY <1>3 DEF StoreSnapshot, registry
      <4>4. Candidate' = Candidate
        BY <4>2, <4>3 DEF Candidate
      <4>5. QED
        BY <1>1, <3>2, <4>1, <4>2, <4>3, <4>4 DEF RefreshSound
    <3>3. QED
      BY <1>3, <3>1, <3>2 DEF StoreSnapshot
  <2>4. QED
    BY <1>2, <2>1, <2>2, <2>3 DEF LibraryInv
<1>4. CASE AdoptSnapshot
  <2>1. saved = Candidate
    BY <1>4 DEF LibraryInv, RefreshSound, AdoptSnapshot
  <2>2. SnapshotsWhole'
    <3>1. Candidate.rev <= Candidate.rev
      BY <1>1 DEF Whole, Snapshots
    <3>2. QED
      BY <1>1, <1>4, <2>1, <3>1 DEF SnapshotsWhole, AdoptSnapshot, registry
  <2>3. RefreshSound'
    BY <1>4 DEF AdoptSnapshot, RefreshSound, NoRefresh
  <2>4. SettingsSound'
    <3>1. refresh.at # "setting" /\ refresh'.at # "setting"
      BY <1>4 DEF AdoptSnapshot, NoRefresh
    <3>2. library.sources \cup dropped \subseteq (library.sources \cup dropped)'
      BY <1>4 DEF AdoptSnapshot
    <3>3. dropped \subseteq dropped' /\ UNCHANGED <<off, savedOff>>
      BY <1>4 DEF AdoptSnapshot
    <3>4. QED
      BY <3>1, <3>2, <3>3 DEF LibraryInv, SettingsSound
  <2>5. QED
    BY <1>2, <2>2, <2>3, <2>4 DEF LibraryInv
<1>5. QED
  BY <1>3, <1>4

\* A refresh fails, and settings change.
LEMMA SettingKeepsLibrary ==
  LibraryInv /\ (RefreshFails \/ StoreSetting \/ AdoptSetting) => LibraryInv'
<1> SUFFICES ASSUME LibraryInv, RefreshFails \/ StoreSetting \/ AdoptSetting PROVE LibraryInv'
  OBVIOUS
<1>1. RegistrySound'
  BY DEF LibraryInv, RegistrySound, RefreshFails, StoreSetting, AdoptSetting, registry
<1>2. RefreshSound'
  <2>1. CASE StoreSetting
    <3>1. PICK candidate : refresh' = [at |-> "setting", off |-> candidate]
      BY <2>1 DEF StoreSetting
    <3>2. QED
      BY <3>1 DEF RefreshSound
  <2>2. CASE RefreshFails \/ AdoptSetting
    BY <2>2 DEF RefreshFails, AdoptSetting, RefreshSound, NoRefresh
  <2>3. QED
    BY <2>1, <2>2
<1>3. CASE RefreshFails
  <2>1. library.sources \subseteq PromptSources
    BY DEF LibraryInv, SnapshotsWhole, Whole, Snapshots
  <2>2. PICK targets \in SUBSET PromptSources : library' = [library EXCEPT !.failed = @ \cup targets]
    BY <1>3, <2>1 DEF RefreshFails
  <2>3. Whole(library', offers, latest) /\ library'.rev = library.rev /\ library'.sources = library.sources
    BY <2>2, NotedIsWhole DEF LibraryInv, SnapshotsWhole
  <2>4. SnapshotsWhole'
    BY <1>3, <2>3 DEF LibraryInv, SnapshotsWhole, RefreshFails, registry, Whole, Snapshots
  <2>5. SettingsSound'
    BY <1>3, <2>3 DEF LibraryInv, SettingsSound, RefreshFails, NoRefresh
  <2>6. QED
    BY <1>1, <1>2, <2>4, <2>5 DEF LibraryInv
<1>4. CASE StoreSetting \/ AdoptSetting
  <2>1. SnapshotsWhole'
    BY <1>4 DEF LibraryInv, SnapshotsWhole, StoreSetting, AdoptSetting, registry
  <2>2. SettingsSound'
    BY <1>4 DEF LibraryInv, SettingsSound, StoreSetting, AdoptSetting, NoRefresh, SettingsPayload
  <2>3. QED
    BY <1>1, <1>2, <2>1, <2>2 DEF LibraryInv
<1>5. QED
  BY <1>3, <1>4

\* A new process loads what is in the database.
LEMMA RestartKeepsLibrary == LibraryInv /\ RestartLibrary => LibraryInv'
<1> SUFFICES ASSUME LibraryInv, RestartLibrary PROVE LibraryInv'
  OBVIOUS
<1>1. RegistrySound'
  BY DEF LibraryInv, RegistrySound, RestartLibrary, registry
<1>2. RefreshSound'
  BY DEF RestartLibrary, RefreshSound, NoRefresh
<1>3. /\ Whole(Loaded(saved), offers, latest)
      /\ Loaded(saved).rev = saved.rev /\ Loaded(saved).sources = saved.sources
  BY LoadedIsWhole DEF LibraryInv, SnapshotsWhole
<1>4. library' = Loaded(saved) /\ saved' = Loaded(saved) /\ UNCHANGED <<offers, latest>>
  BY DEF RestartLibrary, registry
<1>5. SnapshotsWhole'
  <2>1. Loaded(saved).rev <= Loaded(saved).rev
    BY <1>3 DEF Whole, Snapshots
  <2>2. QED
    BY <1>3, <1>4, <2>1 DEF SnapshotsWhole
<1>6. SettingsSound'
  BY <1>3, <1>4 DEF LibraryInv, SettingsSound, RestartLibrary, NoRefresh
<1>7. QED
  BY <1>1, <1>2, <1>5, <1>6 DEF LibraryInv

\* Every step keeps the snapshots whole.
LEMMA LibraryStep == LibraryInv /\ [LibraryNext]_libraryVars => LibraryInv'
<1> SUFFICES ASSUME LibraryInv, [LibraryNext]_libraryVars PROVE LibraryInv'
  OBVIOUS
<1>1. CASE UNCHANGED libraryVars
  BY <1>1 DEF libraryVars, LibraryInv, RegistrySound, SnapshotsWhole, RefreshSound,
              SettingsSound, Candidate
<1>2. QED
  BY <1>1, PublishingKeepsLibrary, FetchingKeepsLibrary, StoringKeepsLibrary,
     SettingKeepsLibrary, RestartKeepsLibrary DEF LibraryNext

\* A verified library has the prompts of its own revision for each of its
\* sources, the database is not behind it, there is something to serve, and a
\* restart changes no setting (prompt_library_service.py:1105).
THEOREM LibraryStaysWhole == LibrarySpec => []LibraryIsWhole
<1>1. LibraryInv => LibraryIsWhole
  BY DEF LibraryInv, SnapshotsWhole, Whole, ItemsOf, SettingsSound, LibraryIsWhole
<1>2. QED
  BY <1>1, InitLibrary, LibraryStep, PTL DEF LibrarySpec

-----------------------------------------------------------------------------
(* What the storage, the delivery and the conversations keep to, beyond what *)
(* their theorems need: the bounds and the states of their fields.           *)

\* What requests work on, and the rows, files and marks beside the jobs.
RowStates == {"none", "ready", "invalid"}
\* What a reader, a delivery and the marks of a task hold.
ReaderRow == [pc : {"idle", "list", "check", "protect", "discard", "charge"},
              use : {"get", "ack", "reconcile"}, items : SUBSET ResultJobs,
              rows : {<<>>} \cup [ResultJobs -> RowStates], pending : BOOLEAN,
              verified : SUBSET ResultJobs, failed : SUBSET ResultJobs, item : SUBSET ResultJobs]
Marks == [status : {"pending", "attempted", "acked"}, age : {"none", "fresh", "old"}]

DeliveryFits ==
  /\ finalRow \in [ResultJobs -> RowStates]
  /\ finalFile \in [ResultJobs -> BOOLEAN] /\ stageFile \in [ResultJobs -> BOOLEAN]
  /\ delivery \in Marks /\ taskAge \in {"none", "fresh", "old"}
  /\ writing \subseteq ResultJobs /\ seenKeys \subseteq ResultJobs
  /\ reader \in [Readers -> ReaderRow]

\* A reader that is at rest.
LEMMA IdleReaderFits == IdleReader \in ReaderRow
  BY DEF IdleReader, ReaderRow

\* At the start there is nothing but the tasks.
LEMMA DeliveryBegins == DeliveryInit => DeliveryFits
  BY IdleReaderFits DEF DeliveryInit, DeliveryFits, RowStates, Marks

\* What a step may do to the marks of the delivery and to the age of the task.
MarksMove ==
  /\ \/ delivery' = delivery \/ delivery' = ResetDelivery
     \/ delivery' = [status |-> "attempted", age |-> IF delivery.age = "none" THEN "fresh" ELSE delivery.age]
     \/ delivery' = [delivery EXCEPT !.status = "acked"]
     \/ delivery' = [delivery EXCEPT !.age = "old"]
  /\ taskAge' \in {taskAge, "none", "fresh", "old"}

\* What it may do to rows and files.
RowsMove ==
  /\ \/ finalRow' = finalRow
     \/ \E j \in ResultJobs, s \in RowStates : finalRow' = [finalRow EXCEPT ![j] = s]
     \/ finalRow' = [j \in ResultJobs |-> "none"]
FilesMove ==
  /\ \/ finalFile' = finalFile
     \/ \E j \in ResultJobs, s \in BOOLEAN : finalFile' = [finalFile EXCEPT ![j] = s]
     \/ finalFile' = [j \in ResultJobs |-> finalFile[j] /\ finalRow[j] = "none"]
  /\ \/ stageFile' = stageFile
     \/ \E j \in ResultJobs, s \in BOOLEAN : stageFile' = [stageFile EXCEPT ![j] = s]
     \/ stageFile' = [j \in ResultJobs |-> FALSE]
  /\ writing' \subseteq writing \cup ResultJobs /\ seenKeys' \subseteq seenKeys \cup ResultJobs

DeliveryMoves == MarksMove /\ RowsMove /\ FilesMove

\* The states a final row is given.
LEMMA RowStatesAre == \A s : s \in {"none", "ready", "invalid"} => s \in RowStates
  BY DEF RowStates

\* Every step of the claim, the readers, the accounting and the cleanups is one of these.
LEMMA DeliveryMovesSo ==
  ASSUME DeliveryFits, DeliveryNext
  PROVE  DeliveryMoves
<1>a. ASSUME NEW j \in ResultJobs PROVE finalRow[j] \in RowStates /\ (IF finalRow[j] = "ready" THEN "invalid" ELSE finalRow[j]) \in RowStates
                                         /\ (IF finalRow[j] = "none" THEN finalRow[j] ELSE "invalid") \in RowStates
  BY DEF DeliveryFits, RowStates
<1>1. ASSUME NEW j \in ResultJobs, PersistFinal(j) \/ CompleteJob(j) \/ WorkerStops(j) PROVE DeliveryMoves
  <2>1. MarksMove
    BY <1>1 DEF MarksMove, PersistFinal, CompleteJob, WorkerStops, AgeOfTask
  <2>2. RowsMove
    BY <1>a, <1>1, RowStatesAre DEF RowsMove, PersistFinal, CompleteJob, WorkerStops, AgeOfTask
  <2>3. FilesMove
    BY <1>1 DEF FilesMove, PersistFinal, CompleteJob, WorkerStops
  <2> QED
    BY <2>1, <2>2, <2>3 DEF DeliveryMoves
<1>2. ASSUME NEW a \in Recorders, NEW j \in ResultJobs, Record(a, j) \/ RecordFails(a, j) \/ MarkAccounted(a, j)
      PROVE  DeliveryMoves
  <2>1. MarksMove
    BY <1>2 DEF MarksMove, Record, RecordFails, MarkAccounted
  <2>2. RowsMove
    BY <1>a, <1>2, RowStatesAre DEF RowsMove, Record, RecordFails, MarkAccounted
  <2>3. FilesMove
    BY <1>2 DEF FilesMove, Record, RecordFails, MarkAccounted
  <2> QED
    BY <2>1, <2>2, <2>3 DEF DeliveryMoves
<1>3. ASSUME NEW r \in Readers, NEW j \in ResultJobs,
             CheckReadable(r, j) \/ CheckRequeues(r, j) \/ ProtectRequeued(r, j)
               \/ DiscardRequeued(r, j) \/ ChargeRead(r, j)
      PROVE  DeliveryMoves
  <2>1. MarksMove
    BY <1>3 DEF MarksMove, CheckReadable, CheckRequeues, ProtectRequeued, DiscardRequeued, ChargeRead
  <2>2. RowsMove
    BY <1>a, <1>3, RowStatesAre DEF RowsMove, CheckReadable, CheckRequeues, ProtectRequeued, DiscardRequeued, ChargeRead
  <2>3. FilesMove
    BY <1>3 DEF FilesMove, CheckReadable, CheckRequeues, ProtectRequeued, DiscardRequeued, ChargeRead
  <2> QED
    BY <2>1, <2>2, <2>3 DEF DeliveryMoves
<1>4. ASSUME NEW r \in Readers, NEW j \in ResultJobs, CheckFails(r, j) PROVE DeliveryMoves
  <2>1. MarksMove
    BY <1>4 DEF MarksMove, CheckFails, FailUndeliverable, AgeOfTask
  <2>2. RowsMove
    BY <1>a, <1>4, RowStatesAre DEF RowsMove, CheckFails, FailUndeliverable, AgeOfTask
  <2>3. FilesMove
    BY <1>4 DEF FilesMove, CheckFails
  <2> QED
    BY <2>1, <2>2, <2>3 DEF DeliveryMoves
<1>5. ASSUME NEW r \in Readers, NEW what, Ask(r, what) PROVE DeliveryMoves
  <2>1. MarksMove
    BY <1>5 DEF MarksMove, Ask
  <2>2. RowsMove
    BY <1>a, <1>5, RowStatesAre DEF RowsMove, Ask
  <2>3. FilesMove
    BY <1>5 DEF FilesMove, Ask
  <2> QED
    BY <2>1, <2>2, <2>3 DEF DeliveryMoves
<1>6. ASSUME NEW r \in Readers, ListRows(r) \/ MarkResponseAttempted(r) \/ Acknowledge(r) \/ EndRequest(r)
      PROVE  DeliveryMoves
  <2>1. MarksMove
    BY <1>6 DEF MarksMove, ListRows, MarkResponseAttempted, Acknowledge, EndRequest
  <2>2. RowsMove
    BY <1>a, <1>6, RowStatesAre DEF RowsMove, ListRows, MarkResponseAttempted, Acknowledge, EndRequest
  <2>3. FilesMove
    BY <1>6 DEF FilesMove, ListRows, MarkResponseAttempted, Acknowledge, EndRequest
  <2> QED
    BY <2>1, <2>2, <2>3 DEF DeliveryMoves
<1>7. ASSUME NEW j \in ResultJobs, Reconcile(j) \/ ListInvalid(j) \/ DiscardInvalid(j) \/ RemoveInvalidRow(j)
                                    \/ DeleteFromGallery(j) \/ LoseFile(j)
      PROVE  DeliveryMoves
  <2>1. MarksMove
    BY <1>7 DEF MarksMove, Reconcile, ListInvalid, DiscardInvalid, RemoveInvalidRow, DeleteFromGallery, LoseFile
  <2>2. RowsMove
    BY <1>a, <1>7, RowStatesAre DEF RowsMove, Reconcile, ListInvalid, DiscardInvalid, RemoveInvalidRow, DeleteFromGallery, LoseFile
  <2>3. FilesMove
    BY <1>7 DEF FilesMove, Reconcile, ListInvalid, DiscardInvalid, RemoveInvalidRow, DeleteFromGallery, LoseFile
  <2> QED
    BY <2>1, <2>2, <2>3 DEF DeliveryMoves
<1>8. ASSUME PurgeSelect \/ PurgeDiscard \/ Finalize \/ Grow \/ WorkerCrash PROVE DeliveryMoves
  <2>1. MarksMove
    BY <1>8 DEF MarksMove, PurgeSelect, PurgeDiscard, Finalize, Grow, WorkerCrash
  <2>2. RowsMove
    BY <1>a, <1>8, RowStatesAre DEF RowsMove, PurgeSelect, PurgeDiscard, Finalize, Grow, WorkerCrash
  <2>3. FilesMove
    BY <1>8 DEF FilesMove, PurgeSelect, PurgeDiscard, Finalize, Grow, WorkerCrash
  <2> QED
    BY <2>1, <2>2, <2>3 DEF DeliveryMoves
<1> QED
  BY <1>1, <1>2, <1>3, <1>4, <1>5, <1>6, <1>7, <1>8 DEF DeliveryNext, Charge, ReaderStep

\* And so the types are kept.
LEMMA DeliveryMovesFit ==
  ASSUME DeliveryFits, DeliveryMoves
  PROVE  /\ delivery' \in Marks /\ taskAge' \in {"none", "fresh", "old"}
         /\ finalRow' \in [ResultJobs -> RowStates]
         /\ finalFile' \in [ResultJobs -> BOOLEAN] /\ stageFile' \in [ResultJobs -> BOOLEAN]
         /\ writing' \subseteq ResultJobs /\ seenKeys' \subseteq ResultJobs
<1>1. delivery' \in Marks /\ taskAge' \in {"none", "fresh", "old"}
  BY DEF DeliveryFits, DeliveryMoves, MarksMove, Marks, ResetDelivery
<1>2. finalRow' \in [ResultJobs -> RowStates]
  BY RowStatesAre DEF DeliveryFits, DeliveryMoves, RowsMove
<1>3. finalFile' \in [ResultJobs -> BOOLEAN]
  BY DEF DeliveryFits, DeliveryMoves, FilesMove
<1>4. stageFile' \in [ResultJobs -> BOOLEAN]
  BY DEF DeliveryFits, DeliveryMoves, FilesMove
<1>5. writing' \subseteq ResultJobs /\ seenKeys' \subseteq ResultJobs
  BY DEF DeliveryFits, DeliveryMoves, FilesMove
<1> QED
  BY <1>1, <1>2, <1>3, <1>4, <1>5

\* What it does to the requests.
LEMMA ReadersFit ==
  ASSUME RowsInv, DeliveryFits, DeliveryNext
  PROVE  reader' \in [Readers -> ReaderRow]
<1>1. ASSUME NEW r \in Readers, NEW s \in ReaderRow, reader' = [reader EXCEPT ![r] = s]
      PROVE  reader' \in [Readers -> ReaderRow]
  BY <1>1 DEF DeliveryFits
<1>2. ASSUME UNCHANGED reader PROVE reader' \in [Readers -> ReaderRow]
  BY <1>2 DEF DeliveryFits
<1>3. ASSUME NEW r \in Readers, ReaderStep(r) PROVE reader' \in [Readers -> ReaderRow]
  <2>1. PICK o \in ReaderRow : o = reader[r]
    BY DEF DeliveryFits
  <2>2. ASSUME NEW what \in {"get", "ack", "reconcile"}, Ask(r, what) PROVE reader' \in [Readers -> ReaderRow]
    <3>1. Data \subseteq ResultJobs
      BY <2>2 DEF Ask, Data, Succeeded, HasDeliverableResult, TaskTerminal, TaskExists, RowsInv
    <3> QED
      BY <1>1, <2>2, <3>1 DEF Ask, IdleReader, ReaderRow
  <2>3. CASE ListRows(r)
    <3>1. [o EXCEPT !.rows = finalRow, !.pc = "check"] \in ReaderRow
      BY DEF DeliveryFits, ReaderRow
    <3>2. reader' = [reader EXCEPT ![r] = [o EXCEPT !.rows = finalRow, !.pc = "check"]]
      BY <2>1, <2>3 DEF ListRows
    <3> QED
      BY <1>1, <3>1, <3>2
  <2>4. ASSUME NEW j \in ResultJobs,
               \/ CheckReadable(r, j) \/ CheckFails(r, j) \/ CheckRequeues(r, j)
               \/ ProtectRequeued(r, j) \/ DiscardRequeued(r, j) \/ ChargeRead(r, j)
        PROVE  reader' \in [Readers -> ReaderRow]
    <3>1. /\ [o EXCEPT !.items = o.items \ {j}, !.verified = o.verified \cup {j}] \in ReaderRow
          /\ [o EXCEPT !.items = o.items \ {j}, !.failed = o.failed \cup {j}] \in ReaderRow
          /\ [o EXCEPT !.pc = "protect", !.item = {j}] \in ReaderRow
          /\ [o EXCEPT !.pc = "discard"] \in ReaderRow
          /\ [o EXCEPT !.pc = "charge"] \in ReaderRow
      BY DEF ReaderRow
    <3>2. \/ reader' = [reader EXCEPT ![r] = [o EXCEPT !.items = o.items \ {j}, !.verified = o.verified \cup {j}]]
          \/ reader' = [reader EXCEPT ![r] = [o EXCEPT !.items = o.items \ {j}, !.failed = o.failed \cup {j}]]
          \/ reader' = [reader EXCEPT ![r] = [o EXCEPT !.pc = "protect", !.item = {j}]]
          \/ reader' = [reader EXCEPT ![r] = [o EXCEPT !.pc = "discard"]]
          \/ reader' = [reader EXCEPT ![r] = [o EXCEPT !.pc = "charge"]]
          \/ reader' = [reader EXCEPT ![r] = IdleReader]
      BY <2>1, <2>4 DEF CheckReadable, CheckFails, CheckRequeues, ProtectRequeued, DiscardRequeued, ChargeRead
    <3> QED
      BY <1>1, <3>1, <3>2, IdleReaderFits
  <2>5. CASE MarkResponseAttempted(r) \/ Acknowledge(r) \/ EndRequest(r)
    BY <1>1, <2>5, IdleReaderFits DEF MarkResponseAttempted, Acknowledge, EndRequest
  <2> QED
    BY <1>3, <2>2, <2>3, <2>4, <2>5 DEF ReaderStep
<1>4. ASSUME \A r \in Readers : ~ReaderStep(r) PROVE UNCHANGED reader
  BY <1>4 DEF DeliveryNext, PersistFinal, CompleteJob, WorkerStops, Reconcile, Charge, Record, RecordFails,
         MarkAccounted, ListInvalid, DiscardInvalid, RemoveInvalidRow, DeleteFromGallery, LoseFile,
         PurgeSelect, PurgeDiscard, Finalize, Grow, WorkerCrash
<1> QED
  BY <1>2, <1>3, <1>4

\* Rows, files, marks and requests of a delivery stay within their types.
LEMMA DeliveryTypesAlways == DeliverySpec => []DeliveryTypeOK
<1>1. DeliveryInv /\ DeliveryFits /\ [DeliveryNext]_deliveryVars => DeliveryFits'
  <2>1. ASSUME DeliveryFits, UNCHANGED deliveryVars PROVE DeliveryFits'
    BY <2>1 DEF deliveryVars, DeliveryFits
  <2>2. ASSUME RowsInv, DeliveryFits, DeliveryNext PROVE DeliveryFits'
    BY <2>2, DeliveryMovesSo, DeliveryMovesFit, ReadersFit DEF DeliveryFits
  <2> QED
    BY <2>1, <2>2 DEF DeliveryInv
<1>2. DeliveryInv /\ DeliveryFits => DeliveryTypeOK
  <2> SUFFICES ASSUME DeliveryInv, DeliveryFits PROVE DeliveryTypeOK
    OBVIOUS
  <2>1. /\ delivery.status \in {"pending", "attempted", "acked"}
        /\ delivery.age \in {"none", "fresh", "old"}
    BY DEF DeliveryFits, Marks
  <2>2. \A r \in Readers : reader[r].items \subseteq ResultJobs
    BY DEF DeliveryFits, ReaderRow
  <2>3. \A a \in Recorders : recording[a].job \subseteq ResultJobs
    BY DEF DeliveryInv, ChargesInv, Charges
  <2>4. charged \in [ResultJobs -> Nat]
    BY DEF DeliveryInv, ChargesInv
  <2> QED
    BY <2>1, <2>2, <2>3, <2>4 DEF DeliveryTypeOK, DeliveryFits, RowStates, DeliveryInv, RowsInv
<1> QED
  BY <1>1, <1>2, DeliveryBegins, InitDelivery, DeliveryStepKeeps, PTL DEF DeliverySpec

-----------------------------------------------------------------------------
(* The image side together: every component keeps its types.               *)

\* The connections of a claim and the staged files.
GenFits ==
  /\ \A k \in ClaimIds : run[k].tries <= MaxTries
  /\ files \subseteq {"downloaded", "upscaled", "final"}

\* A run that counts no connection more.
LEMMA RunFits ==
  ASSUME GenTypes, GenFits, NEW k \in ClaimIds, NEW s,
         run' = [run EXCEPT ![k] = s], s.tries <= MaxTries
  PROVE  \A l \in ClaimIds : run'[l].tries <= MaxTries
<1>1. run'[k] = s /\ \A l \in ClaimIds \ {k} : run'[l] = run[l]
  BY DEF GenTypes
<1> QED
  BY <1>1 DEF GenFits

\* The raised, the ended and the checkpointing run.
LEMMA OutcomesFit ==
  ASSUME GenTypes, GenFits, NEW k \in ClaimIds
  PROVE  /\ Raise(k) => \A l \in ClaimIds : run'[l].tries <= MaxTries
         /\ End(k) => \A l \in ClaimIds : run'[l].tries <= MaxTries
         /\ \A step : Go(k, step) => \A l \in ClaimIds : run'[l].tries <= MaxTries
<1>1. run[k] \in RunRow /\ run[k].tries <= MaxTries /\ MaxTries \in Nat
  BY GenerationAssumption DEF GenTypes, GenFits
<1>2. ASSUME Raise(k) PROVE \A l \in ClaimIds : run'[l].tries <= MaxTries
  <2> DEFINE s == [StreamLeft(k) EXCEPT !.at = "raised", !.managed = @ \cup Some(run[k].seen.conv)]
  <2>1. s.tries <= MaxTries
    BY <1>1 DEF StreamLeft, RunRow
  <2>2. run' = [run EXCEPT ![k] = s]
    BY <1>2 DEF Raise
  <2> HIDE DEF s
  <2> QED
    BY <1>1, <2>1, <2>2, RunFits
<1>3. ASSUME End(k) PROVE \A l \in ClaimIds : run'[l].tries <= MaxTries
  <2> DEFINE s == [NewRun EXCEPT !.at = "ended"]
  <2>1. s.tries <= MaxTries
    BY <1>1 DEF NewRun
  <2>2. run' = [run EXCEPT ![k] = s]
    BY <1>3 DEF End
  <2> HIDE DEF s
  <2> QED
    BY <1>1, <2>1, <2>2, RunFits
<1>4. ASSUME NEW step, Go(k, step) PROVE \A l \in ClaimIds : run'[l].tries <= MaxTries
  <2> DEFINE s == [run[k] EXCEPT !.at = step]
  <2>1. s.tries = run[k].tries
    BY <1>1 DEF RunRow
  <2>2. run' = [run EXCEPT ![k] = s]
    BY <1>4 DEF Go
  <2> HIDE DEF s
  <2> QED
    BY <1>1, <2>1, <2>2, RunFits
<1> QED
  BY <1>2, <1>3, <1>4

\* A checkpoint counts no connection.
LEMMA CheckpointFits ==
  ASSUME GenTypes, GenFits, NEW k \in ClaimIds, NEW stage, NEW c, NEW ids, NEW urls,
         NEW next \in RunRow, next.tries <= MaxTries, Checkpoint(k, stage, c, ids, urls, next)
  PROVE  \A l \in ClaimIds : run'[l].tries <= MaxTries
<1>1. run[k] \in RunRow /\ run[k].tries <= MaxTries /\ MaxTries \in Nat
  BY GenerationAssumption DEF GenTypes, GenFits
<1>2. CASE Fenced(k)
  <2> DEFINE s == [next EXCEPT !.managed = @ \cup Some(c), !.checkpointed = @ \cup Some(c)]
  <2>1. s.tries = next.tries
    BY DEF RunRow
  <2>2. run' = [run EXCEPT ![k] = s]
    BY <1>2 DEF Checkpoint
  <2> HIDE DEF s
  <2> QED
    BY <1>1, <2>1, <2>2, RunFits
<1>3. CASE ~Fenced(k)
  <2> DEFINE s == [StreamLeft(k) EXCEPT !.at = "raised", !.managed = @ \cup Some(c)]
  <2>1. s.tries <= MaxTries
    BY <1>1 DEF StreamLeft, RunRow
  <2>2. run' = [run EXCEPT ![k] = s]
    BY <1>3 DEF Checkpoint
  <2> HIDE DEF s
  <2> QED
    BY <1>1, <2>1, <2>2, RunFits
<1> QED
  BY <1>2, <1>3

\* An event adds to what the claim has seen, and may be recorded.
LEMMA EventIs ==
  ASSUME NEW k \in ClaimIds, StreamEvent(k)
  PROVE  \E c \in {NoConv, run[k].current}, ids \in BOOLEAN, failure \in {"none", "mode", "text", "fatal"} :
           Evented(k, Updated(run[k].seen, c, ids, failure))
<1>1. PICK named \in BOOLEAN, ids \in BOOLEAN, failure \in {"none", "mode", "text", "fatal"} :
        LET next == Updated(run[k].seen, IF named THEN run[k].current ELSE NoConv, ids, failure)
            on == [run[k] EXCEPT !.seen = next, !.emitted = TRUE]
        IN  /\ ids => next.conv # NoConv
            /\ next # run[k].seen \/ ~run[k].emitted
            /\ IF <<next.conv, next.ids>> = <<run[k].seen.conv, run[k].seen.ids>>
               THEN run' = [run EXCEPT ![k] = on] /\ UNCHANGED row
               ELSE Checkpoint(k, "resolving", next.conv, next.ids, FALSE, on)
  BY Zenon DEF StreamEvent
<1>2. PICK c \in {NoConv, run[k].current} : c = IF named THEN run[k].current ELSE NoConv
  OBVIOUS
<1>3. Evented(k, Updated(run[k].seen, c, ids, failure))
  BY <1>1, <1>2 DEF Evented
<1> QED
  BY <1>3

\* What the steps of a claim do to its run, otherwise.
LEMMA StepsFit ==
  ASSUME GenTypes, GenFits, NEW k \in ClaimIds
  PROVE  (StartClaim(k) \/ ExecutionStep(k) \/ SettleClaim(k))
           => \A l \in ClaimIds : run'[l].tries <= MaxTries
<1> DEFINE Fit == \A l \in ClaimIds : run'[l].tries <= MaxTries
<1>1. run[k] \in RunRow /\ run[k].tries <= MaxTries /\ MaxTries \in Nat
  BY GenerationAssumption DEF GenTypes, GenFits
<1>r. run[k].tries \in Nat /\ DOMAIN run = ClaimIds
  BY <1>1 DEF RunRow, GenTypes
<1>2. Raise(k) \/ End(k) \/ (\E step : Go(k, step)) => Fit
  BY OutcomesFit
<1>3. ASSUME StartClaim(k) PROVE Fit
  <2> QED
    BY <1>1, <1>3 DEF StartClaim, RunRow, GenTypes, GenFits
<1>4. ASSUME SettleClaim(k) PROVE Fit
  BY <1>2, <1>4 DEF SettleClaim
<1>5. ASSUME RecoverFinal(k) PROVE Fit
  BY <1>2, <1>5 DEF RecoverFinal
<1>6. ASSUME RecoverUpscaled(k) PROVE Fit
  <2> DEFINE next == [run[k] EXCEPT !.at = "persist", !.restored = TRUE]
  <2>1. next \in RunRow /\ next.tries <= MaxTries
    BY <1>1 DEF RunRow, Steps, LiveSteps
  <2> HIDE DEF next
  <2>2. Checkpoint(k, "saving", run[k].job.conv, run[k].job.ids, run[k].job.urls, next)
    BY <1>6 DEF RecoverUpscaled, next
  <2> QED
    BY <2>1, <2>2, CheckpointFits
<1>7. ASSUME RecoverDownloaded(k) PROVE Fit
  <2>1. CASE Fenced(k)
    BY <1>1, <1>7, <2>1 DEF RecoverDownloaded, RunRow, GenTypes, GenFits
  <2>2. CASE ~Fenced(k)
    BY <1>2, <1>7, <2>2 DEF RecoverDownloaded
  <2> QED
    BY <2>1, <2>2
<1>8. ASSUME Resume(k) PROVE Fit
  <2> DEFINE c == IF ResumeAt(k) # "connect" THEN run[k].job.conv ELSE NoConv
             next == [run[k] EXCEPT !.at = ResumeAt(k), !.seen.conv = c]
  <2>1. c \in ConvOrNone /\ ResumeAt(k) \in Steps
    BY <1>1 DEF RunRow, JobSeen, ConvOrNone, ResumeAt, Steps, LiveSteps
  <2>2. next \in RunRow /\ next.tries <= MaxTries
    <3> HIDE DEF c
    <3>1. [run[k].seen EXCEPT !.conv = c] \in SeenRow
      BY <1>1, <2>1 DEF RunRow, SeenRow
    <3>2. next = [run[k] EXCEPT !.at = ResumeAt(k), !.seen = [run[k].seen EXCEPT !.conv = c]]
      BY <1>1 DEF RunRow, SeenRow
    <3> QED
      BY <1>1, <2>1, <3>1, <3>2 DEF RunRow
  <2> HIDE DEF next
  <2>3. PICK stage, d, ids, urls : Checkpoint(k, stage, d, ids, urls, next)
    BY <1>8 DEF Resume, next
  <2> QED
    BY <2>2, <2>3, CheckpointFits
<1>9. ASSUME ResolveCheckpoint(k) PROVE Fit
  <2>1. CASE Raise(k)
    BY <1>2, <2>1
  <2>2. CASE \E step \in {"raised", "refetch", "format"} :
               Checkpoint(k, "downloading", run[k].job.conv, TRUE, TRUE, [run[k] EXCEPT !.at = step])
    <3>1. PICK step \in {"raised", "refetch", "format"} :
               Checkpoint(k, "downloading", run[k].job.conv, TRUE, TRUE, [run[k] EXCEPT !.at = step])
      BY <2>2
    <3>2. [run[k] EXCEPT !.at = step] \in RunRow /\ [run[k] EXCEPT !.at = step].tries <= MaxTries
      BY <1>1 DEF RunRow, Steps, LiveSteps
    <3> QED
      BY <3>1, <3>2, CheckpointFits
  <2> QED
    BY <1>9, <2>1, <2>2 DEF ResolveCheckpoint
<1>10. ASSUME FetchUrls(k) \/ EarlyRetry(k) \/ StreamFails(k) \/ StreamEnds(k) \/ StreamBreaks(k)
              \/ RejectResult(k) \/ PersistGenerated(k)
       PROVE  Fit
  BY <1>2, <1>10 DEF FetchUrls, EarlyRetry, StreamFails, StreamEnds, StreamBreaks, RejectResult,
                     PersistGenerated
<1>11. ASSUME Connect(k) PROVE Fit
  BY <1>1, <1>11, <1>r DEF Connect, RunRow, GenTypes, GenFits
<1>12. ASSUME Submit(k) PROVE Fit
  BY <1>1, <1>12 DEF Submit, RunRow, GenTypes, GenFits
<1>13. ASSUME StreamEvent(k) PROVE Fit
  <2>1. PICK c \in {NoConv, run[k].current}, ids \in BOOLEAN, failure \in {"none", "mode", "text", "fatal"} :
          Evented(k, Updated(run[k].seen, c, ids, failure))
    BY <1>13, EventIs
  <2>a. PICK v \in SeenRow : v = run[k].seen
    BY <1>1, RunFields
  <2>b. c \in ConvOrNone
    BY <1>1, RunFields DEF ConvOrNone
  <2>c. PICK u \in SeenRow : u = Updated(v, c, ids, failure)
    BY <2>b, UpdatedSeen
  <2>2. u = Updated(run[k].seen, c, ids, failure)
    BY <2>a, <2>c
  <2> DEFINE on == [run[k] EXCEPT !.seen = u, !.emitted = TRUE]
  <2>3. on \in RunRow /\ on.tries <= MaxTries
    BY <1>1 DEF RunRow
  <2>4. \/ run' = [run EXCEPT ![k] = on]
        \/ Checkpoint(k, "resolving", u.conv, u.ids, FALSE, on)
    BY <2>1, <2>2 DEF Evented
  <2> HIDE DEF on
  <2> QED
    BY <2>3, <2>4, CheckpointFits, RunFits
<1>14. ASSUME RetryMode(k) \/ ProbeConversation(k) \/ TaskDiagnostics(k) \/ SearchConversation(k)
       PROVE  Fit
  <2>1. CASE Raise(k)
    BY <1>2, <2>1
  <2>2. CASE run' = [run EXCEPT ![k].at = "stream", ![k].regular = TRUE, ![k].seen = Unseen]
    BY <1>1, <2>2 DEF RunRow, GenTypes, GenFits
  <2>3. CASE run' = [run EXCEPT ![k].seen.ids = TRUE] \/ run' = [run EXCEPT ![k].seen.failure = "mode"]
    BY <1>1, <2>3 DEF RunRow, GenTypes, GenFits
  <2>4. ASSUME NEW c, run' = [run EXCEPT ![k].seen.conv = c] PROVE Fit
    BY <1>1, <2>4 DEF RunRow, GenTypes, GenFits
  <2> QED
    BY <1>14, <2>1, <2>2, <2>3, <2>4 DEF RetryMode, ProbeConversation, TaskDiagnostics, SearchConversation
<1>15. ASSUME FollowUp(k) \/ ResolveResult(k) PROVE Fit
  <2>1. CASE Raise(k)
    BY <1>2, <2>1
  <2>2. CASE Deliver(k)
    <3>1. PICK step \in {"format", "raised"} :
            Checkpoint(k, "downloading", run[k].seen.conv, FALSE, TRUE, [StreamLeft(k) EXCEPT !.at = step])
      BY <2>2 DEF Deliver
    <3>2. PICK u \in SeenRow : u = [Unseen EXCEPT !.conv = run[k].seen.conv]
      BY <1>1, RunFields DEF Unseen, SeenRow
    <3>3. PICK r \in RunRow : r = run[k]
      BY <1>1
    <3>4. PICK s : s = [r EXCEPT !.current = NoConv, !.seen = u, !.emitted = FALSE, !.regular = FALSE,
                                 !.tries = 0, !.submitted = 0, !.at = step]
      OBVIOUS
    <3>5. [StreamLeft(k) EXCEPT !.at = step] = s
      BY <3>2, <3>3, <3>4 DEF StreamLeft
    <3>6. step \in Steps /\ NoConv \in ConvOrNone
      BY DEF Steps, LiveSteps, ConvOrNone
    <3>7. s \in RunRow /\ s.tries = 0
      BY <3>4, <3>6 DEF RunRow
    <3>8. s.tries <= MaxTries
      BY <1>1, <3>7
    <3> QED
      BY <3>1, <3>5, <3>7, <3>8, CheckpointFits
  <2> QED
    BY <1>15, <2>1, <2>2 DEF FollowUp, ResolveResult
<1>16. ASSUME FormatResult(k) PROVE Fit
  <2>1. CASE Fenced(k)
    BY <1>1, <1>16, <2>1 DEF FormatResult, RunRow, GenTypes, GenFits
  <2>2. CASE ~Fenced(k)
    BY <1>2, <1>16, <2>2 DEF FormatResult
  <2> QED
    BY <2>1, <2>2
<1>17. ASSUME StoreDownloaded(k) \/ StoreUpscaled(k) PROVE Fit
  <2>1. CASE Raise(k)
    BY <1>2, <2>1
  <2>2. ASSUME NEW step \in {"upscale", "persist"}, NEW stage,
               Checkpoint(k, stage, run[k].seen.conv, FALSE, FALSE, [run[k] EXCEPT !.at = step])
        PROVE  Fit
    <3>1. [run[k] EXCEPT !.at = step] \in RunRow /\ [run[k] EXCEPT !.at = step].tries <= MaxTries
      BY <1>1 DEF RunRow, Steps, LiveSteps
    <3> QED
      BY <2>2, <3>1, CheckpointFits
  <2> QED
    BY <1>17, <2>1, <2>2 DEF StoreDownloaded, StoreUpscaled, StoreStage
<1>18. ASSUME CommitResult(k) \/ HandleError(k) PROVE Fit
  <2>1. CASE Raise(k) \/ End(k)
    BY <1>2, <2>1
  <2>2. CASE run' = [run EXCEPT ![k] = [NewRun EXCEPT !.at = "settle"]]
    BY <1>1, <2>2 DEF NewRun, GenTypes, GenFits
  <2> QED
    BY <1>18, <2>1, <2>2 DEF CommitResult, HandleError
<1>19. ASSUME Interrupt(k) PROVE Fit
  <2> DEFINE s == [StreamLeft(k) EXCEPT !.at = "raised"]
  <2>1. s.tries <= MaxTries
    BY <1>1 DEF StreamLeft, RunRow
  <2>2. run' = [run EXCEPT ![k] = s]
    BY <1>19 DEF Interrupt
  <2> HIDE DEF s
  <2> QED
    BY <2>1, <2>2, RunFits
<1> HIDE DEF Fit
<1>20. (StartClaim(k) \/ ExecutionStep(k) \/ SettleClaim(k)) => Fit
  BY <1>3, <1>4, <1>5, <1>6, <1>7, <1>8, <1>9, <1>10, <1>11, <1>12, <1>13, <1>14, <1>15, <1>16,
     <1>17, <1>18, <1>19 DEF ExecutionStep
<1> QED
  BY <1>20 DEF Fit

\* The files a step stages or discards.
LEMMA FilesFit ==
  ASSUME GenFits, NEW k \in ClaimIds, StartClaim(k) \/ ExecutionStep(k) \/ SettleClaim(k)
  PROVE  files' \subseteq {"downloaded", "upscaled", "final"}
<1>1. \/ files' = files \/ files' = files \ {"final"}
      \/ \E f \in {"downloaded", "upscaled", "final"} : files' = files \cup {f}
  BY DEF StartClaim, ExecutionStep, SettleClaim, RecoverFinal, RecoverUpscaled, RecoverDownloaded, Resume,
         ResolveCheckpoint, FetchUrls, Connect, EarlyRetry, StreamFails, Submit, StreamEvent, RetryMode,
         StreamEnds, StreamBreaks, SearchConversation, ProbeConversation, FollowUp, TaskDiagnostics,
         RejectResult, ResolveResult, FormatResult, StoreDownloaded, StoreUpscaled, StoreStage,
         PersistGenerated, CommitResult, HandleError, Interrupt
<1> QED
  BY <1>1 DEF GenFits

\* Conversations, connections and files of the claims stay within their types.
LEMMA GenerationTypesAlways == GenerationSpec => []GenerationTypeOK
<1>1. GenerationInit => GenFits
  BY GenerationAssumption DEF GenerationInit, GenFits, NewRun
<1>2. GenerationInv /\ GenFits /\ [GenerationNext]_genVars => GenFits'
  <2> SUFFICES ASSUME GenerationInv, GenFits, [GenerationNext]_genVars PROVE GenFits'
    OBVIOUS
  <2>1. CASE UNCHANGED genVars
    BY <2>1 DEF genVars, GenFits
  <2>2. CASE LoseLease
    <3>1. GenTypes
      BY DEF GenerationInv
    <3>2. CASE UNCHANGED run
      BY <2>2, <3>2 DEF LoseLease, GenFits
    <3>3. CASE End(row.owner)
      <4>1. row.owner \in ClaimIds \/ row.owner = 0
        BY <3>1, GenerationAssumption DEF GenTypes, Row, ClaimIds
      <4>2. CASE row.owner \in ClaimIds
        BY <2>2, <3>1, <3>3, <4>2, OutcomesFit DEF LoseLease, GenFits
      <4>3. CASE row.owner = 0
        BY <2>2, <3>1, <3>3, <4>3 DEF LoseLease, GenFits, End, GenTypes, ClaimIds
      <4> QED
        BY <4>1, <4>2, <4>3
    <3> QED
      BY <2>2, <3>2, <3>3 DEF LoseLease
  <2>3. ASSUME NEW k \in ClaimIds, StartClaim(k) \/ ExecutionStep(k) \/ SettleClaim(k) PROVE GenFits'
    BY <2>3, StepsFit, FilesFit DEF GenFits, GenerationInv
  <2> QED
    BY <2>1, <2>2, <2>3 DEF GenerationNext
<1>3. GenerationInv /\ GenFits => GenerationTypeOK
  <2> SUFFICES ASSUME GenerationInv, GenFits PROVE GenerationTypeOK
    OBVIOUS
  <2>1. ASSUME NEW k \in ClaimIds
        PROVE  /\ run[k].at \in Steps /\ run[k].managed \in SUBSET Conversations
               /\ run[k].checkpointed \in SUBSET Conversations /\ run[k].seen.conv \in ConvOrNone
               /\ run[k].tries \in 0..MaxTries /\ run[k].submitted \in 0..(MaxTries + 1)
    <3>1. run[k] \in RunRow /\ run[k].tries <= MaxTries /\ Submits(run[k])
      BY DEF GenerationInv, GenTypes, GenFits, RunHolds
    <3>2. /\ run[k].at \in Steps /\ run[k].managed \in SUBSET Conversations
          /\ run[k].checkpointed \in SUBSET Conversations /\ run[k].seen.conv \in ConvOrNone
          /\ run[k].tries \in Nat /\ run[k].submitted \in Nat
      BY <3>1, RunFields
    <3>3. run[k].submitted <= run[k].tries + 1
      BY <3>1, <3>2 DEF Submits
    <3> QED
      BY <3>1, <3>2, <3>3, GenerationAssumption
  <2> QED
    BY <2>1 DEF GenerationTypeOK, GenerationInv, GenTypes, GenFits
<1> QED
  BY <1>1, <1>2, <1>3, GenerationStarts, GenerationSteps, PTL DEF GenerationSpec

\* Files and copies are of versions there can be, and so is what an operation has
\* read or has to put back; the guard is held by who is about to save or remove.
ItemRow == [gen : Nat, size : Contents, local : BOOLEAN, webdav : BOOLEAN, pending : BOOLEAN]
SavingRow == [at : {"saving"}, v : 0..MaxVersions, mode : {"local", "webdav", "both"},
              clears : BOOLEAN, put : BOOLEAN, was : Contents, new : BOOLEAN]
ReadRow == [at : {"read", "put"}, gen : Nat, payload : Contents, marked : BOOLEAN]

UseFits(u) ==
  /\ u.at = "saving" => u \in SavingRow
  /\ u.at \in {"read", "put"} => u \in ReadRow

CopiesFit ==
  /\ disk \in Contents /\ remote \in Contents /\ item \in ItemRow
  /\ versions <= MaxVersions
  /\ \A w \in Workers : UseFits(use[w])

LockFits ==
  /\ itemLock \in Workers \cup {NoLock}
  /\ \A w \in Workers : itemLock = w => Held(w)

\* A step of one worker.
LEMMA WorkerFits ==
  ASSUME StorageInv, CopiesFit, NEW w \in Workers, NEW what, use' = [use EXCEPT ![w] = what],
         UseFits(what), disk' \in Contents, remote' \in Contents, item' \in ItemRow,
         versions' <= MaxVersions
  PROVE  CopiesFit'
<1>1. use'[w] = what /\ \A x \in Workers \ {w} : use'[x] = use[x]
  BY DEF StorageInv
<1>2. \A x \in Workers : UseFits(use'[x])
  BY <1>1 DEF CopiesFit
<1> QED
  BY <1>2 DEF CopiesFit

\* What it does to the guard.
LEMMA WorkerLocks ==
  ASSUME StorageInv, LockFits, NEW w \in Workers, NEW what, use' = [use EXCEPT ![w] = what],
         itemLock' \in {itemLock, w, NoLock}, itemLock' = w => what.at \in {"saving", "removing"}
  PROVE  LockFits'
<1>1. use'[w] = what /\ \A x \in Workers \ {w} : use'[x] = use[x]
  BY DEF StorageInv
<1>2. NoLock \notin Workers
  BY StorageAssumption
<1> QED
  BY <1>1, <1>2 DEF LockFits, Held

\* What is no save and no upload needs nothing.
LEMMA OtherUses ==
  ASSUME NEW u, u.at \notin {"saving", "read", "put"}
  PROVE  UseFits(u)
  BY DEF UseFits

\* No copy, no item, and the copy of a version.
LEMMA BytesFit ==
  /\ NoBytes \in Contents /\ NoItem \in ItemRow
  /\ \A v \in 0..MaxVersions : [v |-> v, packed |-> FALSE] \in Contents
  BY StorageAssumption DEF NoBytes, NoItem, ItemRow, Contents

\* An item of a file.
LEMMA ItemFits ==
  ASSUME NEW g \in Nat, NEW s \in Contents, NEW l \in BOOLEAN, NEW d \in BOOLEAN, NEW p \in BOOLEAN
  PROVE  [gen |-> g, size |-> s, local |-> l, webdav |-> d, pending |-> p] \in ItemRow
  BY DEF ItemRow

\* Saves.
LEMMA SavesFit ==
  ASSUME StorageInv, StorageInv', CopiesFit, LockFits, NEW w \in Workers,
         SaveBegins(w) \/ SavePuts(w) \/ SaveCommits(w) \/ SaveFails(w)
  PROVE  CopiesFit' /\ LockFits'
<1>1. /\ disk \in Contents /\ remote \in Contents /\ item \in ItemRow
      /\ versions \in Nat /\ versions <= MaxVersions /\ MaxVersions \in Nat
      /\ UseFits(use[w]) /\ NoLock \notin Workers
      /\ item'.gen \in Nat
  BY StorageAssumption DEF CopiesFit, StorageInv
<1>2. CASE SaveBegins(w)
  <2>0. versions + 1 \in 0..MaxVersions
    BY <1>1, <1>2 DEF SaveBegins
  <2>1. PICK mode \in {"local", "webdav", "both"}, clears \in BOOLEAN :
          /\ use' = [use EXCEPT ![w] = [at |-> "saving", v |-> versions + 1, mode |-> mode,
                                        clears |-> clears, put |-> mode = "local", was |-> disk,
                                        new |-> item = NoItem]]
          /\ disk' = IF mode = "webdav" THEN disk ELSE [v |-> versions + 1, packed |-> FALSE]
    BY <1>2, Zenon DEF SaveBegins, Becomes
  <2> PICK s : s = [at |-> "saving", v |-> versions + 1, mode |-> mode,
                    clears |-> clears, put |-> mode = "local", was |-> disk,
                    new |-> item = NoItem]
    OBVIOUS
  <2>2. s \in SavingRow /\ s.at = "saving"
    BY <1>1, <2>0 DEF SavingRow
  <2>3. UseFits(s)
    BY <2>2 DEF UseFits
  <2>4. disk' \in Contents
    BY <1>1, <2>0, <2>1, BytesFit
  <2>5. use' = [use EXCEPT ![w] = s] /\ UNCHANGED <<remote, item>> /\ versions' <= MaxVersions
        /\ itemLock' = w
    BY <1>2, <2>0, <2>1 DEF SaveBegins
  <2> QED
    BY <1>1, <2>2, <2>3, <2>4, <2>5, WorkerFits, WorkerLocks
<1>3. CASE SavePuts(w)
  <2>1. use[w] \in SavingRow
    BY <1>1, <1>3 DEF SavePuts, UseFits
  <2> PICK s : s = [use[w] EXCEPT !.put = TRUE]
    OBVIOUS
  <2>2. s \in SavingRow /\ s.at = "saving"
    BY <2>1 DEF SavingRow
  <2>3. UseFits(s)
    BY <2>2 DEF UseFits
  <2>4. remote' \in Contents
    BY <1>3, <2>1, BytesFit DEF SavePuts, SavingRow
  <2>5. use' = [use EXCEPT ![w] = s] /\ UNCHANGED <<disk, item, versions, itemLock>>
    BY <1>3 DEF SavePuts, Becomes, storageBounds
  <2> QED
    BY <1>1, <2>2, <2>3, <2>4, <2>5, WorkerFits, WorkerLocks
<1>4. CASE SaveCommits(w)
  <2>1. use[w] \in SavingRow
    BY <1>1, <1>4 DEF SaveCommits, UseFits
  <2>2. use' = [use EXCEPT ![w] = Rest] /\ UNCHANGED <<disk, remote, versions>> /\ itemLock' = NoLock
    BY <1>4 DEF SaveCommits, Becomes, copies
  <2>3. PICK l \in BOOLEAN : l = (use[w].mode # "webdav")
    OBVIOUS
  <2>4. PICK d \in BOOLEAN : d = (use[w].mode # "local")
    OBVIOUS
  <2>5. PICK g : g = NewGeneration
    OBVIOUS
  <2>6. PICK c \in Contents : c = [v |-> use[w].v, packed |-> FALSE]
    BY <2>1, BytesFit DEF SavingRow
  <2>7. item' = [gen |-> g, size |-> c, local |-> l, webdav |-> d, pending |-> FALSE]
    BY <1>4, <2>3, <2>4, <2>5, <2>6 DEF SaveCommits
  <2>8. g \in Nat
    BY <1>1, <2>7
  <2>9. item' \in ItemRow
    BY <2>7, <2>8, ItemFits
  <2> QED
    BY <1>1, <2>2, <2>9, OtherUses, WorkerFits, WorkerLocks DEF Rest
<1>5. CASE SaveFails(w)
  <2>1. use[w] \in SavingRow
    BY <1>1, <1>5 DEF SaveFails, UseFits
  <2>2. use' = [use EXCEPT ![w] = Rest] /\ UNCHANGED <<item, versions>> /\ itemLock' = NoLock
    BY <1>5 DEF SaveFails, Becomes, storageBounds
  <2>3. use[w].was \in Contents /\ [v |-> use[w].v, packed |-> FALSE] \in Contents
    BY <2>1, BytesFit DEF SavingRow
  <2>4. disk' \in {disk, use[w].was}
    BY <1>5 DEF SaveFails
  <2>5. remote' \in {NoBytes, remote, [v |-> use[w].v, packed |-> FALSE]}
    BY <1>5 DEF SaveFails
  <2> QED
    BY <1>1, <2>2, <2>3, <2>4, <2>5, BytesFit, OtherUses, WorkerFits, WorkerLocks DEF Rest
<1> QED
  BY <1>2, <1>3, <1>4, <1>5

\* Deletions.
LEMMA DeletionsFit ==
  ASSUME StorageInv, StorageInv', CopiesFit, LockFits, NEW w \in Workers,
         DeleteImages(w) \/ DeleteMutates(w) \/ DeleteRemote(w) \/ DeleteFinalizes(w)
  PROVE  CopiesFit' /\ LockFits'
<1>1. /\ disk \in Contents /\ remote \in Contents /\ item \in ItemRow
      /\ versions <= MaxVersions /\ NoLock \notin Workers
  BY StorageAssumption DEF CopiesFit
<1>2. PICK u : /\ use' = [use EXCEPT ![w] = u] /\ u.at \in {"prepared", "removing", "finalizing", "rest"}
               /\ u.at = "removing" => itemLock' = w
               /\ u.at # "removing" => itemLock' \in {itemLock, NoLock} /\ itemLock' # w
  <2>1. CASE DeleteImages(w)
    <3>1. PICK t : use' = [use EXCEPT ![w] = [at |-> "prepared", tomb |-> t]]
      BY <2>1, Zenon DEF DeleteImages, DeletePrepares, Becomes
    <3>2. itemLock' = NoLock /\ itemLock = NoLock
      BY <2>1 DEF DeleteImages, DeletePrepares
    <3> QED
      BY <1>1, <3>1, <3>2
  <2>2. CASE DeleteMutates(w)
    <3>1. itemLock = NoLock
      BY <2>2 DEF DeleteMutates
    <3>2. \/ /\ use' = [use EXCEPT ![w] = [at |-> "removing", tomb |-> use[w].tomb, removed |-> disk # NoBytes]]
             /\ itemLock' = w
          \/ /\ use' = [use EXCEPT ![w] = [at |-> "finalizing", tomb |-> use[w].tomb, done |-> FALSE, retry |-> FALSE]]
             /\ itemLock' = itemLock
      BY <2>2 DEF DeleteMutates, Becomes
    <3>3. CASE /\ use' = [use EXCEPT ![w] = [at |-> "removing", tomb |-> use[w].tomb, removed |-> disk # NoBytes]]
               /\ itemLock' = w
      <4> PICK b : b = (disk # NoBytes)
        OBVIOUS
      <4> PICK u : u = [at |-> "removing", tomb |-> use[w].tomb, removed |-> b]
        OBVIOUS
      <4>1. u.at = "removing" /\ use' = [use EXCEPT ![w] = u] /\ itemLock' = w
        BY <3>3
      <4> QED
        BY <4>1
    <3>4. CASE /\ use' = [use EXCEPT ![w] = [at |-> "finalizing", tomb |-> use[w].tomb, done |-> FALSE, retry |-> FALSE]]
               /\ itemLock' = itemLock
      BY <1>1, <3>1, <3>4
    <3> QED
      BY <3>2, <3>3, <3>4
  <2>3. CASE DeleteRemote(w)
    <3>1. PICK done, retry : use' = [use EXCEPT ![w] = [at |-> "finalizing", tomb |-> use[w].tomb,
                                                        done |-> done, retry |-> retry]]
      BY <2>3 DEF DeleteRemote, Becomes
    <3>2. itemLock' = NoLock
      BY <2>3 DEF DeleteRemote
    <3> QED
      BY <1>1, <3>1, <3>2
  <2>4. CASE DeleteFinalizes(w)
    <3>1. itemLock' = NoLock /\ use' = [use EXCEPT ![w] = Rest]
      BY <2>4 DEF DeleteFinalizes, Becomes
    <3> QED
      BY <1>1, <3>1 DEF Rest
  <2> QED
    BY <2>1, <2>2, <2>3, <2>4
<1>3. disk' \in {disk, NoBytes} /\ remote' \in {remote, NoBytes} /\ item' \in {item, NoItem}
  BY DEF DeleteImages, DeletePrepares, DeleteMutates, DeleteRemote, DeleteFinalizes, copies, storageBounds
<1>4. versions' = versions
  BY DEF DeleteImages, DeletePrepares, DeleteMutates, DeleteRemote, DeleteFinalizes, storageBounds
<1>5. disk' \in Contents /\ remote' \in Contents /\ item' \in ItemRow
  BY <1>1, <1>3, BytesFit
<1>6. UseFits(u)
  BY <1>2, OtherUses
<1> QED
  BY <1>1, <1>2, <1>4, <1>5, <1>6, WorkerFits, WorkerLocks

\* Compression.
LEMMA CompressionFits ==
  ASSUME StorageInv, StorageInv', CopiesFit, LockFits, NEW w \in Workers,
         CompressReplaces(w) \/ CompressCommits(w)
  PROVE  CopiesFit' /\ LockFits'
<1>1. /\ disk \in Contents /\ remote \in Contents /\ item \in ItemRow
      /\ versions <= MaxVersions /\ NoLock \notin Workers
      /\ item'.gen \in Nat
  BY StorageAssumption DEF CopiesFit, StorageInv
<1>2. CASE CompressReplaces(w)
  <2>1. disk' \in Contents
    BY <1>1, <1>2 DEF CompressReplaces, Contents
  <2> PICK u : u = [at |-> "compressed", as |-> disk']
    OBVIOUS
  <2>2. /\ use' = [use EXCEPT ![w] = u] /\ UNCHANGED <<remote, item, itemLock, versions>>
        /\ u.at = "compressed" /\ itemLock = NoLock
    BY <1>2 DEF CompressReplaces, Becomes, storageBounds
  <2> QED
    BY <1>1, <2>1, <2>2, OtherUses, WorkerFits, WorkerLocks
<1>3. CASE CompressCommits(w)
  <2>1. /\ use' = [use EXCEPT ![w] = Rest] /\ UNCHANGED <<disk, remote, itemLock, versions>>
        /\ itemLock = NoLock
    BY <1>3 DEF CompressCommits, Becomes, copies, storageBounds
  <2>2. PICK d \in BOOLEAN : d = item.webdav
    BY <1>1 DEF ItemRow
  <2>3. PICK p \in BOOLEAN : p = (item.webdav \/ item.pending)
    OBVIOUS
  <2>4. PICK g : g = IF item = NoItem THEN Fresh ELSE item.gen
    OBVIOUS
  <2>5. \/ item' = item
        \/ item' = [gen |-> g, size |-> disk, local |-> TRUE, webdav |-> d, pending |-> p]
    BY <1>3, <2>2, <2>3, <2>4 DEF CompressCommits
  <2>6. item' \in ItemRow
    <3>1. CASE item' = item
      BY <1>1, <3>1
    <3>2. CASE item' = [gen |-> g, size |-> disk, local |-> TRUE, webdav |-> d, pending |-> p]
      <4>1. g \in Nat
        BY <1>1, <3>2
      <4> QED
        BY <1>1, <3>2, <4>1, ItemFits
    <3> QED
      BY <2>5, <3>1, <3>2
  <2> QED
    BY <1>1, <2>1, <2>6, OtherUses, WorkerFits, WorkerLocks DEF Rest
<1> QED
  BY <1>2, <1>3

\* What leaves the files and the catalog, and takes no guard.
LEMMA UnguardedStepFits ==
  ASSUME StorageInv, CopiesFit, LockFits, NEW w \in Workers, NEW u, UseFits(u),
         use' = [use EXCEPT ![w] = u], itemLock' = itemLock, ~Held(w),
         disk' \in Contents, remote' \in Contents, item' \in ItemRow, versions' = versions
  PROVE  CopiesFit' /\ LockFits'
<1>1. versions' <= MaxVersions /\ itemLock # w
  BY DEF CopiesFit, LockFits
<1> QED
  BY <1>1, WorkerFits, WorkerLocks

\* A synchronisation up to its upload.
LEMMA UploadsFit ==
  ASSUME StorageInv, CopiesFit, LockFits, NEW w \in Workers,
         SyncBegins(w) \/ SyncReads(w) \/ SyncPuts(w)
  PROVE  CopiesFit' /\ LockFits'
<1>1. /\ disk \in Contents /\ remote \in Contents /\ item \in ItemRow
      /\ UseFits(use[w])
  BY DEF CopiesFit
<1>2. UNCHANGED <<disk, item, itemLock, versions>> /\ use[w].at \in {"rest", "synced", "read"}
  BY DEF SyncBegins, SyncReads, SyncPuts, Rest, copies, storageBounds
<1>3. ~Held(w)
  BY <1>2 DEF Held
<1>4. CASE SyncBegins(w)
  <2> PICK u : u = [at |-> "synced", item |-> item, gen |-> item.gen, tomb |-> tomb]
    OBVIOUS
  <2>1. u.at = "synced" /\ use' = [use EXCEPT ![w] = u] /\ remote' = remote
    BY <1>4 DEF SyncBegins, Becomes, copies
  <2> QED
    BY <1>1, <1>2, <1>3, <2>1, OtherUses, UnguardedStepFits
<1>5. CASE SyncReads(w)
  <2>1. remote' = remote /\ use[w].at = "synced"
    BY <1>5 DEF SyncReads, copies
  <2>2. use[w].gen \in Nat
    <3>1. UseHolds(use[w], tomb, stored)
      BY DEF StorageInv
    <3> QED
      BY <2>1, <3>1 DEF UseHolds, SyncingFrom
  <2>3. PICK b \in BOOLEAN : b = (use[w].tomb # NoTomb)
    OBVIOUS
  <2>4. PICK r : r = [at |-> "read", gen |-> use[w].gen, payload |-> disk, marked |-> b]
    OBVIOUS
  <2>5. r \in ReadRow /\ r.at = "read"
    BY <1>1, <2>2, <2>4 DEF ReadRow
  <2>6. UseFits(r) /\ UseFits([at |-> "sweep"]) /\ UseFits(Rest)
    BY <2>5, OtherUses DEF UseFits, Rest
  <2>7. \/ use' = [use EXCEPT ![w] = [at |-> "sweep"]]
        \/ use' = [use EXCEPT ![w] = Rest]
        \/ use' = [use EXCEPT ![w] = r]
    BY <1>5, <2>3, <2>4 DEF SyncReads, Becomes
  <2> QED
    BY <1>1, <1>2, <1>3, <2>1, <2>6, <2>7, UnguardedStepFits
<1>6. CASE SyncPuts(w)
  <2>1. use[w] \in ReadRow
    BY <1>1, <1>6 DEF SyncPuts, UseFits
  <2>2. PICK r : r = [use[w] EXCEPT !.at = "put"]
    OBVIOUS
  <2>3. r \in ReadRow /\ r.at = "put"
    BY <2>1, <2>2 DEF ReadRow
  <2>4. UseFits(r) /\ UseFits([at |-> "clean"])
    BY <2>3, OtherUses DEF UseFits
  <2>5. use' = [use EXCEPT ![w] = r] \/ use' = [use EXCEPT ![w] = [at |-> "clean"]]
    BY <1>6, <2>2 DEF SyncPuts, Becomes
  <2>6. remote' \in {remote, use[w].payload}
    BY <1>6 DEF SyncPuts
  <2>7. remote' \in Contents
    BY <1>1, <2>1, <2>6 DEF ReadRow
  <2> QED
    BY <1>1, <1>2, <1>3, <2>4, <2>5, <2>7, UnguardedStepFits
<1> QED
  BY <1>4, <1>5, <1>6

\* Its end: the catalog, the repair and the sweep.
LEMMA SyncsFit ==
  ASSUME StorageInv, StorageInv', CopiesFit, LockFits, NEW w \in Workers,
         SyncCommits(w) \/ SyncRepairs(w) \/ SyncMarks(w) \/ SyncSweeps(w)
  PROVE  CopiesFit' /\ LockFits'
<1>1. /\ disk \in Contents /\ remote \in Contents /\ item \in ItemRow
      /\ UseFits(use[w]) /\ item'.gen \in Nat
  BY DEF CopiesFit, StorageInv
<1>2. UNCHANGED <<itemLock, versions>> /\ use[w].at \in {"put", "repair", "clean", "sweep"}
  BY DEF SyncCommits, SyncRepairs, SyncMarks, SyncSweeps, storageBounds
<1>3. ~Held(w)
  BY <1>2 DEF Held
<1>4. /\ UseFits([at |-> "sweep"]) /\ UseFits(Rest) /\ UseFits([at |-> "clean"])
      /\ \A b : UseFits([at |-> "repair", marked |-> b])
  BY DEF UseFits, Rest
<1>5. CASE SyncCommits(w)
  <2>1. UNCHANGED <<disk, remote>>
    BY <1>5 DEF SyncCommits, copies
  <2>2. PICK b : b = use[w].marked
    OBVIOUS
  <2>3. \/ use' = [use EXCEPT ![w] = [at |-> "clean"]]
        \/ use' = [use EXCEPT ![w] = [at |-> "repair", marked |-> b]]
        \/ use' = [use EXCEPT ![w] = [at |-> "sweep"]]
        \/ use' = [use EXCEPT ![w] = Rest]
    BY <1>5, <2>2 DEF SyncCommits, Becomes
  <2>4. PICK g : g = IF item # NoItem THEN item.gen ELSE IF use[w].gen # 0 THEN use[w].gen ELSE Fresh
    OBVIOUS
  <2>5. PICK p \in BOOLEAN : p = ~(disk = use[w].payload)
    OBVIOUS
  <2>6. \/ item' = item
        \/ item' = [gen |-> g, size |-> disk, local |-> TRUE, webdav |-> TRUE, pending |-> p]
    BY <1>5, <2>4, <2>5 DEF SyncCommits
  <2>7. item' \in ItemRow
    <3>1. CASE item' = [gen |-> g, size |-> disk, local |-> TRUE, webdav |-> TRUE, pending |-> p]
      <4>1. g \in Nat
        BY <1>1, <3>1
      <4> QED
        BY <1>1, <3>1, <4>1, ItemFits
    <3> QED
      BY <1>1, <2>6, <3>1
  <2>8. \E u : UseFits(u) /\ use' = [use EXCEPT ![w] = u]
    BY <1>4, <2>3
  <2> QED
    BY <1>1, <1>2, <1>3, <2>1, <2>7, <2>8, UnguardedStepFits
<1>6. CASE SyncRepairs(w)
  <2>1. disk' = disk /\ remote' \in {remote, disk}
    BY <1>6 DEF SyncRepairs
  <2>2. \/ use' = [use EXCEPT ![w] = [at |-> "clean"]]
        \/ use' = [use EXCEPT ![w] = [at |-> "sweep"]]
        \/ use' = [use EXCEPT ![w] = Rest]
    BY <1>6 DEF SyncRepairs, Becomes
  <2>3. PICK g : g = IF item = NoItem THEN Fresh ELSE item.gen
    OBVIOUS
  <2>4. \/ item' = item
        \/ item' = [gen |-> g, size |-> disk, local |-> TRUE, webdav |-> TRUE, pending |-> FALSE]
    BY <1>6, <2>3 DEF SyncRepairs
  <2>5. item' \in ItemRow
    <3>1. CASE item' = [gen |-> g, size |-> disk, local |-> TRUE, webdav |-> TRUE, pending |-> FALSE]
      <4>1. g \in Nat
        BY <1>1, <3>1
      <4> QED
        BY <1>1, <3>1, <4>1, ItemFits
    <3> QED
      BY <1>1, <2>4, <3>1
  <2>6. \E u : UseFits(u) /\ use' = [use EXCEPT ![w] = u]
    BY <1>4, <2>2
  <2> QED
    BY <1>1, <1>2, <1>3, <2>1, <2>5, <2>6, UnguardedStepFits
<1>7. CASE SyncMarks(w)
  BY <1>1, <1>2, <1>3, <1>4, <1>7, UnguardedStepFits DEF SyncMarks, Becomes, copies
<1>8. CASE SyncSweeps(w)
  <2>1. use' = [use EXCEPT ![w] = Rest]
    BY <1>8 DEF SyncSweeps, Becomes
  <2>2. disk' \in {disk, NoBytes} /\ remote' \in {remote, NoBytes} /\ item' \in {item, NoItem}
    BY <1>8 DEF SyncSweeps, copies
  <2>3. disk' \in Contents /\ remote' \in Contents /\ item' \in ItemRow
    BY <1>1, <2>2, BytesFit
  <2> QED
    BY <1>2, <1>3, <1>4, <2>1, <2>3, UnguardedStepFits
<1> QED
  BY <1>5, <1>6, <1>7, <1>8

\* The gallery and disk cleanup, which are nobody's operation.
LEMMA ListingFits ==
  ASSUME StorageInv, StorageInv', CopiesFit, LockFits, ListItems \/ DeleteLocalCopies
  PROVE  CopiesFit' /\ LockFits'
<1>1. /\ disk \in Contents /\ remote \in Contents /\ item \in ItemRow
      /\ item'.gen \in Nat
  BY DEF CopiesFit, StorageInv
<1>2. /\ UNCHANGED <<use, itemLock, versions, remote>> /\ disk' \in {disk, NoBytes}
  BY DEF ListItems, DeleteLocalCopies, copies
<1>3. PICK p \in BOOLEAN : p = (item.pending \/ (item.webdav /\ item.size # disk))
  OBVIOUS
<1>4. PICK g : g = Fresh
  OBVIOUS
<1>5. \/ item' \in {item, NoItem}
      \/ item' = [gen |-> g, size |-> disk, local |-> TRUE, webdav |-> FALSE, pending |-> FALSE]
      \/ item' = [item EXCEPT !.local = FALSE]
      \/ item' = [item EXCEPT !.local = TRUE, !.size = disk, !.pending = p]
  BY <1>3, <1>4 DEF ListItems, DeleteLocalCopies
<1>6. item' \in ItemRow
  <2>1. CASE item' = [gen |-> g, size |-> disk, local |-> TRUE, webdav |-> FALSE, pending |-> FALSE]
    <3>1. g \in Nat
      BY <1>1, <2>1
    <3> QED
      BY <1>1, <2>1, <3>1, ItemFits
  <2>2. CASE item' = [item EXCEPT !.local = FALSE]
    BY <1>1, <2>2 DEF ItemRow
  <2>3. CASE item' = [item EXCEPT !.local = TRUE, !.size = disk, !.pending = p]
    BY <1>1, <2>3 DEF ItemRow
  <2> QED
    BY <1>1, <1>5, <2>1, <2>2, <2>3, BytesFit
<1>7. disk' \in Contents
  BY <1>1, <1>2, BytesFit
<1> QED
  BY <1>1, <1>2, <1>6, <1>7 DEF CopiesFit, LockFits, Held

\* Whatever is saved, deleted, compressed and synchronised, files and copies are
\* of versions there are, and the item guard is held by the one who saves or
\* removes (services/image_storage_service.py).
LEMMA StorageTypesAlways == StorageSpec => []StorageTypeOK
<1>1. StorageInit => CopiesFit /\ LockFits
  <2> SUFFICES ASSUME StorageInit PROVE CopiesFit /\ LockFits
    OBVIOUS
  <2>1. [v |-> 1, packed |-> FALSE] \in Contents /\ versions <= MaxVersions /\ NoLock \notin Workers
    BY BytesFit, StorageAssumption DEF StorageInit
  <2>2. disk = [v |-> 1, packed |-> FALSE]
    BY DEF StorageInit
  <2>3. PICK synced \in BOOLEAN :
          /\ remote = IF synced THEN disk ELSE NoBytes
          /\ item = [gen |-> 1, size |-> disk, local |-> TRUE, webdav |-> synced, pending |-> FALSE]
    BY DEF StorageInit
  <2>4. remote \in Contents
    BY <2>1, <2>2, <2>3, BytesFit
  <2>5. item \in ItemRow
    BY <2>1, <2>2, <2>3, ItemFits
  <2>6. \A w \in Workers : use[w] = Rest
    BY DEF StorageInit
  <2>7. \A w \in Workers : UseFits(use[w]) /\ ~Held(w)
    BY <2>6 DEF Rest, UseFits, Held
  <2>8. itemLock = NoLock
    BY DEF StorageInit
  <2> QED
    BY <2>1, <2>2, <2>4, <2>5, <2>7, <2>8 DEF CopiesFit, LockFits
<1>2. StorageInv /\ CopiesFit /\ LockFits /\ [StorageNext]_storageVars /\ StorageInv' => CopiesFit' /\ LockFits'
  <2> SUFFICES ASSUME StorageInv, CopiesFit, LockFits, [StorageNext]_storageVars, StorageInv'
               PROVE  CopiesFit' /\ LockFits'
    OBVIOUS
  <2>1. ASSUME NEW w \in Workers, WorkerDies(w)
        PROVE  CopiesFit' /\ LockFits'
    <3>1. /\ use' = [use EXCEPT ![w] = Rest] /\ UNCHANGED <<disk, remote, item, versions>>
          /\ itemLock' \in {itemLock, NoLock} /\ itemLock' # w
      BY <2>1, StorageAssumption DEF WorkerDies, Becomes, copies
    <3>2. disk' \in Contents /\ remote' \in Contents /\ item' \in ItemRow /\ versions' <= MaxVersions
      BY <3>1 DEF CopiesFit
    <3> QED
      BY <3>1, <3>2, OtherUses, WorkerFits, WorkerLocks DEF Rest
  <2>2. CASE UNCHANGED storageVars
    BY <2>2 DEF storageVars, CopiesFit, LockFits, Held
  <2> QED
    BY <2>1, <2>2, SavesFit, DeletionsFit, CompressionFits, UploadsFit, SyncsFit, ListingFits
       DEF StorageNext, RetentionCleanup, SpaceCleanup
<1>3. StorageInv /\ CopiesFit /\ LockFits => StorageTypeOK
  <2> SUFFICES ASSUME StorageInv, CopiesFit, LockFits PROVE StorageTypeOK
    OBVIOUS
  <2>1. item.size \in Contents
    BY DEF CopiesFit, ItemRow
  <2>2. tomb.scope \in {"none", "asset", "remote"} /\ (tomb.scope = "none" <=> tomb = NoTomb)
    BY DEF StorageInv, NoTomb
  <2>3. \A w \in Workers : Held(w) <=> itemLock = w
    BY DEF StorageInv, LockFits
  <2> QED
    BY <2>1, <2>2, <2>3 DEF StorageTypeOK, StorageInv, CopiesFit, LockFits
<1> QED
  BY <1>1, <1>2, <1>3, InitStorage, StorageStep, PTL DEF StorageSpec

\* Storage identifiers are given out one by one, and a task that is there has one.
StoragesFit ==
  /\ storages <= MaxStorages /\ fileRow.storage <= storages
  /\ fileRow.status # "none" => fileRow.storage >= 1

\* What a step may do to the row of the task.
LEMMA RowMoves ==
  ASSUME FileTypes, EditableNext
  PROVE  \/ UNCHANGED <<fileRow, storages>>
         \/ fileRow' = NoTask /\ UNCHANGED storages
         \/ /\ fileRow.status # "none" /\ UNCHANGED storages
            /\ \/ \E s \in FileStatuses : fileRow' = [fileRow EXCEPT !.status = s]
               \/ fileRow' = [fileRow EXCEPT !.pending = TRUE]
         \/ /\ storages < MaxStorages /\ storages' = storages + 1
            /\ fileRow' = [status |-> "queued", pending |-> FALSE, storage |-> storages + 1]
<1>1. ASSUME NEW c \in Clients, SubmitFile(c) \/ StartTask(c)
      PROVE  \/ UNCHANGED <<fileRow, storages>>
             \/ /\ fileRow.status # "none" /\ UNCHANGED storages
                /\ \E s \in FileStatuses : fileRow' = [fileRow EXCEPT !.status = s]
             \/ /\ storages < MaxStorages /\ storages' = storages + 1
                /\ fileRow' = [status |-> "queued", pending |-> FALSE, storage |-> storages + 1]
  BY <1>1 DEF SubmitFile, StartTask, editableBounds, FileStatuses, Unfinished
<1>2. CASE DeleteTask
  BY <1>2 DEF DeleteTask, Deletable, Terminal, editableBounds
<1>3. CASE MarkRunning \/ Prepare \/ Export \/ PublishFiles \/ CleanUp \/ EndRun \/ RecordSuccess \/ RecordError
  BY <1>3 DEF MarkRunning, Prepare, Export, PublishFiles, CleanUp, EndRun, RecordSuccess, RecordError,
              RowRecorded, editableBounds, FileStatuses
<1>4. CASE Restart
  BY <1>4 DEF Restart, PendingDeleted, UnfinishedResumed, FileStatuses, Unfinished
<1> QED
  BY <1>1, <1>2, <1>3, <1>4 DEF EditableNext

\* Rows, directories and threads of the editable task stay within their types.
LEMMA EditableTypesAlways == EditableSpec => []EditableTypeOK
<1>1. EditableInit => StoragesFit
  BY EditableAssumption DEF EditableInit, StoragesFit, NoTask
<1>2. FilesInv /\ StoragesFit /\ [EditableNext]_editableVars => StoragesFit'
  <2>1. ASSUME StoragesFit, UNCHANGED editableVars PROVE StoragesFit'
    BY <2>1 DEF editableVars, StoragesFit
  <2>2. ASSUME FileTypes, StoragesFit, EditableNext PROVE StoragesFit'
    <3>1. fileRow \in FileRows /\ storages \in Nat /\ MaxStorages \in Nat /\ fileRow.storage \in Nat
      BY <2>2, EditableAssumption DEF FileTypes, FileRows
    <3>2. CASE UNCHANGED <<fileRow, storages>>
      BY <2>2, <3>2 DEF StoragesFit
    <3>3. CASE fileRow' = NoTask /\ UNCHANGED storages
      BY <2>2, <3>1, <3>3 DEF StoragesFit, NoTask
    <3>4. CASE /\ fileRow.status # "none" /\ UNCHANGED storages
               /\ \/ \E s \in FileStatuses : fileRow' = [fileRow EXCEPT !.status = s]
                  \/ fileRow' = [fileRow EXCEPT !.pending = TRUE]
      <4>1. fileRow'.storage = fileRow.storage
        BY <3>1, <3>4 DEF FileRows
      <4> QED
        BY <2>2, <3>4, <4>1 DEF StoragesFit
    <3>5. CASE /\ storages < MaxStorages /\ storages' = storages + 1
               /\ fileRow' = [status |-> "queued", pending |-> FALSE, storage |-> storages + 1]
      BY <3>1, <3>5 DEF StoragesFit
    <3> QED
      BY <2>2, <3>2, <3>3, <3>4, <3>5, RowMoves
  <2> QED
    BY <2>1, <2>2 DEF FilesInv
<1>3. FilesInv /\ StoragesFit => EditableTypeOK
  <2> SUFFICES ASSUME FilesInv, StoragesFit PROVE EditableTypeOK
    OBVIOUS
  <2>1. fileRow \in FileRows /\ storages \in Nat /\ MaxStorages \in Nat /\ fileRow.storage \in Nat
    BY EditableAssumption DEF FilesInv, FileTypes, FileRows
  <2>2. fileRow.status # "none" => fileRow.storage \in 1..MaxStorages
    BY <2>1 DEF StoragesFit
  <2>3. staged \subseteq 1..MaxStorages /\ published \subseteq 1..MaxStorages
    BY <2>2 DEF FilesInv, FilesOfTheRow
  <2>4. fileRow.status \in {"none"} \cup Unfinished \cup Terminal /\ thread.at \in FileStages
    BY DEF FilesInv, FileTypes, FileRows, FileThreads, FileStatuses, Unfinished, Terminal
  <2> QED
    BY <2>3, <2>4 DEF EditableTypeOK, StoragesFit, FileStages
<1> QED
  BY <1>1, <1>2, <1>3, InitFiles, FilesStep, PTL DEF EditableSpec

\* The versions of the settings.
VersionsFit ==
  /\ setting <= MaxChanges /\ viewed \in [Admins -> 0..MaxChanges]
  /\ \A d \in Runs : cleaned[d].version <= MaxChanges

\* The versions, leases and runs of the retention stay within their types.
LEMMA RetentionTypesAlways == RetentionSpec => []RetentionTypeOK
<1>1. RetentionInit => VersionsFit
  BY RetentionAssumption DEF RetentionInit, VersionsFit, NoCleanup
<1>2. RetentionInv /\ VersionsFit /\ [RetentionNext]_retentionVars => VersionsFit'
  <2> SUFFICES ASSUME RetentionInv, VersionsFit, [RetentionNext]_retentionVars PROVE VersionsFit'
    OBVIOUS
  <2>0. setting \in Nat /\ MaxChanges \in Nat
        /\ \A p \in Schedulers : copy[p] \in Nat /\ copy[p] <= setting /\ copy[p] \in 0..MaxChanges
    BY RetentionAssumption
       DEF RetentionInv, RetentionTypes, CleanupsFollow, CopiesFollow, VersionsFit
  <2>1. CASE UNCHANGED <<setting, viewed, cleaned>>
    BY <2>1 DEF VersionsFit
  <2>2. ASSUME NEW a \in Admins, NEW p \in Schedulers, ViewSettings(a, p) PROVE VersionsFit'
    BY <2>0, <2>2 DEF ViewSettings, VersionsFit
  <2>3. ASSUME NEW a \in Admins, NEW p \in Schedulers, SaveSettings(a, p) PROVE VersionsFit'
    BY <2>0, <2>3 DEF SaveSettings, StoreSettings, VersionsFit
  <2>4. CASE \/ UNCHANGED retentionVars \/ IntervalPasses
            \/ \E l \in Leases : LeaseHeartbeatFails(l) \/ LeaseRunsOut(l)
    <3> UNCHANGED <<setting, viewed, cleaned>>
      BY <2>4 DEF retentionVars, settings, IntervalPasses, LeaseHeartbeatFails, LeaseRunsOut
    <3> QED
      BY <2>1
  <2>5. ASSUME NEW p \in Schedulers,
               \/ Reload(p) \/ NotifyRetentionChange(p) \/ DeadlinePasses(p) \/ SchedulerDies(p)
               \/ Lead(p) \/ WaitForCleanup(p) \/ SkipStartup(p)
               \/ ScheduleAfterCleanup(p) \/ StepDown(p)
        PROVE  UNCHANGED <<setting, viewed, cleaned>>
    BY <2>5 DEF settings, Reload, NotifyRetentionChange, DeadlinePasses, SchedulerDies, Lead,
                WaitForCleanup, SkipStartup, ScheduleAfterCleanup, StepDown
  <2>6. ASSUME NEW p \in Actors,
               RunAtOnce(p) \/ TakeRun(p) \/ FinishRun(p) \/ (p \in Manual /\ CleanAsAsked(p))
        PROVE  UNCHANGED <<setting, viewed, cleaned>>
    BY <2>6 DEF settings, RunAtOnce, TakeRun, FinishRun, CleanAsAsked
  <2>7. ASSUME NEW p \in Schedulers, NEW domain \in Runs, NEW next \in {"images", "finished"},
               CleanDomain(p, domain, next)
        PROVE  VersionsFit'
    <3>1. UNCHANGED <<setting, viewed>>
      BY <2>7 DEF CleanDomain, settings
    <3>2. \A d \in Runs : cleaned'[d] \in {cleaned[d],
                                           [by |-> p, version |-> copy[p], since |-> seen[p]]}
      BY <2>7 DEF CleanDomain, Cleans, RetentionInv, RetentionTypes
    <3>3. QED
      BY <2>0, <3>1, <3>2 DEF VersionsFit
  <2> QED
    BY <2>1, <2>2, <2>3, <2>4, <2>5, <2>6, <2>7 DEF RetentionNext, Actors, Runs
<1>3. RetentionInv /\ VersionsFit => RetentionTypeOK
  <2> SUFFICES ASSUME RetentionInv, VersionsFit PROVE RetentionTypeOK
    OBVIOUS
  <2>1. setting \in Nat /\ MaxChanges \in Nat /\ setting \in 0..MaxChanges
    BY RetentionAssumption DEF RetentionInv, RetentionTypes, VersionsFit
  <2>2. copy \in [Schedulers -> 0..MaxChanges]
    BY <2>1 DEF RetentionInv, RetentionTypes, CleanupsFollow, CopiesFollow, VersionsFit
  <2>3. \A d \in Runs : cleaned[d] \in [by : Schedulers \cup {Free}, version : 0..MaxChanges,
                                        since : Nat]
    <3> SUFFICES ASSUME NEW d \in Runs
                 PROVE  cleaned[d] \in [by : Schedulers \cup {Free}, version : 0..MaxChanges,
                                        since : Nat]
      OBVIOUS
    <3>1. cleaned[d] \in [by : Schedulers \cup {Free}, version : Nat, since : Nat]
      BY DEF RetentionInv, RetentionTypes
    <3>2. cleaned[d].version \in 0..MaxChanges
      BY <2>1, <3>1 DEF VersionsFit
    <3>3. QED
      BY <3>1, <3>2
  <2>4. cleaned \in [Runs -> [by : Schedulers \cup {Free}, version : 0..MaxChanges, since : Nat]]
    BY <2>3 DEF RetentionInv, RetentionTypes
  <2> QED
    BY <2>1, <2>2, <2>4 DEF RetentionTypeOK, RetentionInv, RetentionTypes, VersionsFit, ActorStages
<1> QED
  BY <1>1, <1>2, <1>3, InitRetention, RetentionStep, PTL DEF RetentionSpec

\* The switches of the maintenance, and how much it does.
MaintenanceFits ==
  /\ restore \in {"idle", "registration", "queue", "push", "join", "undo", "check", "guard", "after"}
                 \cup Replacing
  /\ halted \in BOOLEAN /\ stopSignal \in BOOLEAN /\ registering \in BOOLEAN /\ enabled \in BOOLEAN
  /\ push \in BOOLEAN /\ backups \in BOOLEAN
  /\ background \subseteq Background
  /\ registration \in {"running", "closing", "stopped"}
  /\ scheduler \in {"sleeping", "looking", "gone"}
  /\ revive \subseteq {"registration", "queue", "backups"}
\* The bounds of the run.
CountsFit == inHand <= MaxOpenClaims /\ restores \in 0..MaxRestores

\* What goes on beside a restore: registrations, backups, the queue and the scheduler.
LEMMA BesideFits == RestoreInv /\ MaintenanceFits /\ BesideRestore => MaintenanceFits'
<1> SUFFICES ASSUME RestoreInv, MaintenanceFits, BesideRestore PROVE MaintenanceFits'
  OBVIOUS
<1> USE DEF MaintenanceFits, boundary, threads, registrationVars, queueVars,
            pushAndBackups, restoredData, Replacing
<1>1. CASE ClaimJob
  BY <1>1 DEF ClaimJob
<1>2. CASE FinishJob
  BY <1>2 DEF FinishJob
<1>3. CASE BeginRegistration
  BY <1>3 DEF BeginRegistration
<1>4. CASE EndRegistration
  BY <1>4 DEF EndRegistration
<1>5. CASE SwitchRegistration
  BY <1>5 DEF SwitchRegistration
<1>6. CASE SchedulerLooks
  BY <1>6 DEF SchedulerLooks
<1>7. CASE SchedulerActs
  BY <1>7 DEF SchedulerActs
<1>8. CASE ThreadEnds
  BY <1>8 DEF ThreadEnds
<1>9. CASE StartBackup
  BY <1>9 DEF StartBackup
<1>10. CASE FinishBackup
  BY <1>10 DEF FinishBackup
<1> QED
  BY <1>1, <1>2, <1>3, <1>4, <1>5, <1>6, <1>7, <1>8, <1>9, <1>10 DEF BesideRestore

\* Stopping for a restore, and undoing that.
LEMMA StopFits == RestoreInv /\ MaintenanceFits /\ StopOrUndo => MaintenanceFits'
<1> SUFFICES ASSUME RestoreInv, MaintenanceFits, StopOrUndo PROVE MaintenanceFits'
  OBVIOUS
<1> USE DEF MaintenanceFits, boundary, threads, registrationVars, queueVars,
            pushAndBackups, restoredData, Replacing
<1>1. CASE BeginRestore
  BY <1>1 DEF BeginRestore
<1>2. CASE ShutRegistration
  BY <1>2 DEF ShutRegistration
<1>3. CASE StopQueue
  BY <1>3 DEF StopQueue
<1>4. CASE StopPushAndBackups
  BY <1>4 DEF StopPushAndBackups
<1>5. CASE JoinThreads
  BY <1>5 DEF JoinThreads
<1>6. CASE UndoStop
  BY <1>6 DEF UndoStop, RegistrationStarts
<1> QED
  BY <1>1, <1>2, <1>3, <1>4, <1>5, <1>6 DEF StopOrUndo

\* The restore itself, and what starts the process again.
LEMMA ReplacingFits == RestoreInv /\ MaintenanceFits /\ RestoreOrRestart => MaintenanceFits'
<1> SUFFICES ASSUME RestoreInv, MaintenanceFits, RestoreOrRestart PROVE MaintenanceFits'
  OBVIOUS
<1> USE DEF MaintenanceFits, boundary, threads, registrationVars, queueVars,
            pushAndBackups, restoredData, Replacing
<1>1. CASE RestoreFails
  BY <1>1 DEF RestoreFails
<1>2. CASE FetchArchive
  BY <1>2 DEF FetchArchive
<1>3. CASE GuardQueue
  BY <1>3 DEF GuardQueue
<1>4. CASE ReplaceQueueDb
  BY <1>4 DEF ReplaceQueueDb
<1>5. CASE LeaveMarker
  BY <1>5 DEF LeaveMarker
<1>6. CASE ReplaceAppDb
  BY <1>6 DEF ReplaceAppDb
<1>7. CASE ReplaceFiles
  BY <1>7 DEF ReplaceFiles
<1>8. CASE FinishMaintenance
  BY <1>8 DEF FinishMaintenance, RegistrationStarts
<1>9. CASE RestartProcess
  BY <1>9 DEF RestartProcess
<1> QED
  BY <1>1, <1>2, <1>3, <1>4, <1>5, <1>6, <1>7, <1>8, <1>9 DEF RestoreOrRestart

\* A claim and a restore begin below their bound.
LEMMA CountsGo == RestoreInv /\ CountsFit /\ MaintenanceNext => CountsFit'
<1> SUFFICES ASSUME RestoreInv, CountsFit, MaintenanceNext PROVE CountsFit'
  OBVIOUS
<1>1. inHand \in Nat /\ MaxOpenClaims \in Nat /\ MaxRestores \in Nat
  BY MaintenanceAssumption DEF RestoreInv, RestoreTypes
<1>2. /\ inHand' \in {inHand, 0} \/ (inHand < MaxOpenClaims /\ inHand' = inHand + 1)
         \/ (inHand > 0 /\ inHand' = inHand - 1)
      /\ restores' = restores \/ (restores < MaxRestores /\ restores' = restores + 1)
  BY DEF MaintenanceNext, ClaimJob, FinishJob, BeginRegistration, EndRegistration, SwitchRegistration,
         SchedulerLooks, SchedulerActs, ThreadEnds, StartBackup, FinishBackup, BeginRestore, ShutRegistration,
         StopQueue, StopPushAndBackups, JoinThreads, UndoStop, RestoreFails, FetchArchive, GuardQueue,
         ReplaceQueueDb, LeaveMarker, ReplaceAppDb, ReplaceFiles, FinishMaintenance, RestartProcess,
         boundary, queueVars
<1>3. inHand' <= MaxOpenClaims
  BY <1>1, <1>2 DEF CountsFit
<1>4. restores' \in 0..MaxRestores
  BY <1>1, <1>2 DEF CountsFit
<1> QED
  BY <1>3, <1>4 DEF CountsFit

\* Threads, registration, queue, backups and the restore stay within their types.
LEMMA MaintenanceTypesAlways == MaintenanceSpec => []MaintenanceTypeOK
<1>1. MaintenanceInit => MaintenanceFits /\ CountsFit
  <2> SUFFICES ASSUME MaintenanceInit PROVE MaintenanceFits /\ CountsFit
    OBVIOUS
  <2>1. MaintenanceFits
    BY DEF MaintenanceInit, MaintenanceFits
  <2>2. CountsFit
    BY MaintenanceAssumption DEF MaintenanceInit, CountsFit
  <2> QED
    BY <2>1, <2>2
<1>2. RestoreInv /\ MaintenanceFits /\ CountsFit /\ [MaintenanceNext]_maintenanceVars
        => MaintenanceFits' /\ CountsFit'
  <2>1. ASSUME MaintenanceFits, UNCHANGED maintenanceVars PROVE MaintenanceFits'
    BY <2>1 DEF maintenanceVars, MaintenanceFits
  <2>2. ASSUME CountsFit, UNCHANGED maintenanceVars PROVE CountsFit'
    BY <2>2 DEF maintenanceVars, CountsFit
  <2> QED
    BY <2>1, <2>2, BesideFits, StopFits, ReplacingFits, CountsGo
       DEF MaintenanceNext, BesideRestore, StopOrUndo, RestoreOrRestart
<1>3. RestoreInv /\ MaintenanceFits /\ CountsFit => MaintenanceTypeOK
  <2> SUFFICES ASSUME RestoreInv, MaintenanceFits, CountsFit PROVE MaintenanceTypeOK
    OBVIOUS
  <2>1. \A x \in {restoring, halted, stopSignal, registering, enabled, push, backups, backup,
                  dump, marker, unmarked} : x \in BOOLEAN
    BY DEF RestoreInv, RestoreTypes, MaintenanceFits
  <2>2. inHand \in 0..MaxOpenClaims
    BY MaintenanceAssumption DEF RestoreInv, RestoreTypes, CountsFit
  <2> QED
    BY <2>1, <2>2 DEF MaintenanceTypeOK, MaintenanceFits, CountsFit, RestoreInv, RestoreTypes
<1> QED
  BY <1>1, <1>2, <1>3, InitRestore, RestoreStep, PTL DEF MaintenanceSpec

\* Items are of revisions there can be.
Dated(items) == \A s \in PromptSources : items[s] \subseteq Revisions
\* A refresh is at one of these steps, and what the library has is dated.
RefreshSteps == {"quiet", "manifest", "payload", "stored", "failing", "setting"}
LibraryFits ==
  /\ dropped \subseteq PromptSources
  /\ refresh.at \in RefreshSteps
  /\ Dated(library.items) /\ Dated(saved.items)
  /\ refresh.at \in {"payload", "stored"} => Dated(refresh.items)

\* A loaded snapshot has no items but those it was stored with, or the
\* program's own.
LEMMA LoadedIsDated ==
  ASSUME NEW lib \in Snapshots, Dated(lib.items)
  PROVE  Dated(Seeded(lib).items) /\ Dated(Loaded(lib).items)
<1>1. Bundled \in PromptSources /\ 0 \in Revisions
  BY LibraryAssumption DEF Revisions
<1>2. ASSUME NEW l \in Snapshots, Dated(l.items) PROVE Dated(Seeded(l).items)
  <2>1. CASE l.items[Bundled] = {}
    <3>1. Seeded(l).items = [l.items EXCEPT ![Bundled] = {0}]
      BY <2>1 DEF Seeded, Snapshots
    <3>2. l.items \in [PromptSources -> SUBSET Nat]
      BY DEF Snapshots
    <3> QED
      BY <1>1, <1>2, <3>1, <3>2 DEF Dated
  <2>2. CASE l.items[Bundled] # {}
    BY <1>2, <2>2 DEF Seeded
  <2> QED
    BY <2>1, <2>2
<1>3. PICK kept : kept = [s \in PromptSources |-> IF s \in lib.sources THEN lib.items[s] ELSE {}]
  OBVIOUS
<1>4. kept \in [PromptSources -> SUBSET Nat] /\ Dated(kept)
  BY <1>3 DEF Dated, Snapshots
<1>a. [lib EXCEPT !.items = kept] \in Snapshots
  BY <1>4 DEF Snapshots
<1>b. [lib EXCEPT !.items = kept].items = kept
  BY DEF Snapshots
<1>5. PICK l \in Snapshots : l = [lib EXCEPT !.items = kept] /\ l.items = kept
  BY <1>a, <1>b
<1>6. Dated(l.items)
  BY <1>4, <1>5
<1>7. Loaded(lib) = Seeded(l)
  BY <1>3, <1>5 DEF Loaded
<1> QED
  BY <1>2, <1>6, <1>7

\* An empty library and the bundled one are dated.
LEMMA FirstIsDated == Dated(Seeded(Empty).items) /\ Dated(Empty.items)
<1>1. Empty \in Snapshots /\ Dated(Empty.items)
  BY LibraryAssumption DEF Empty, Snapshots, NoItems, Dated
<1> QED
  BY <1>1, LoadedIsDated

\* Snapshots, settings and the refresh stay within their types.
LEMMA LibraryTypesAlways == LibrarySpec => []LibraryTypeOK
<1>1. LibraryInit => LibraryFits
  BY FirstIsDated DEF LibraryInit, LibraryFits, NoRefresh, RefreshSteps
<1>2. LibraryInv /\ LibraryFits /\ [LibraryNext]_libraryVars => LibraryFits'
  <2> SUFFICES ASSUME LibraryInv, LibraryFits, [LibraryNext]_libraryVars PROVE LibraryFits'
    OBVIOUS
  <2>a. /\ library \in Snapshots /\ saved \in Snapshots /\ latest \in Revisions
        /\ library.sources \subseteq PromptSources
    BY DEF LibraryInv, SnapshotsWhole, Whole, RegistrySound, Snapshots
  <2>1. CASE UNCHANGED libraryVars \/ RegistryPublishes
    BY <2>1 DEF libraryVars, RegistryPublishes, LibraryFits
  <2>2. CASE FetchManifest
    <3>1. refresh' = [at |-> "payload", rev |-> latest, items |-> library.items]
          \/ refresh' = [at |-> "manifest", rev |-> latest] \/ refresh' = [at |-> "failing"]
      BY <2>2 DEF FetchManifest
    <3> QED
      BY <2>2, <3>1 DEF FetchManifest, LibraryFits, RefreshSteps
  <2>3. CASE FetchPrompts
    <3>0. refresh.rev \in 1..latest /\ latest \in 0..MaxRevisions
      BY <2>3 DEF FetchPrompts, LibraryInv, RefreshSound, RegistrySound, Revisions
    <3>1. refresh.rev \in Revisions /\ latest \in Revisions
      BY <3>0, LibraryAssumption DEF Revisions
    <3>2. \/ refresh' = [at |-> "failing"]
          \/ \E got \in {refresh.rev, latest} :
               refresh' = [at |-> "payload", rev |-> refresh.rev,
                           items |-> [s \in PromptSources |->
                                        IF s \in offers[refresh.rev] THEN {got} ELSE {}]]
      BY <2>3 DEF FetchPrompts
    <3>3. refresh'.at \in RefreshSteps /\ (refresh'.at = "payload" => Dated(refresh'.items))
          /\ refresh'.at # "stored"
      BY <3>1, <3>2 DEF Dated, RefreshSteps
    <3> QED
      BY <2>3, <3>3 DEF FetchPrompts, LibraryFits
  <2>4. CASE StoreSnapshot \/ AdoptSnapshot
    <3>1. Dated(Candidate.items) /\ DOMAIN refresh = {"at", "rev", "items"}
      BY <2>4 DEF StoreSnapshot, AdoptSnapshot, LibraryFits, Candidate, LibraryInv, RefreshSound
    <3>2. [refresh EXCEPT !.at = "stored"].at = "stored" /\ [refresh EXCEPT !.at = "stored"].items = refresh.items
      BY <3>1
    <3>3. CASE StoreSnapshot
      BY <3>1, <3>2, <3>3 DEF StoreSnapshot, LibraryFits, RefreshSteps
    <3>4. CASE AdoptSnapshot
      BY <2>a, <3>1, <3>4 DEF AdoptSnapshot, LibraryFits, RefreshSteps, NoRefresh
    <3> QED
      BY <2>4, <3>3, <3>4
  <2>5. CASE RefreshFails
    <3>1. library'.items = library.items
      BY <2>5, <2>a DEF RefreshFails, Snapshots
    <3> QED
      BY <2>5, <3>1 DEF RefreshFails, LibraryFits, RefreshSteps, NoRefresh
  <2>6. CASE StoreSetting \/ AdoptSetting
    <3>1. refresh'.at \in {"setting", "quiet"}
      <4>1. CASE StoreSetting
        <5>1. PICK candidate : refresh' = [at |-> "setting", off |-> candidate]
          BY <4>1 DEF StoreSetting
        <5> QED
          BY <5>1
      <4>2. CASE AdoptSetting
        BY <4>2 DEF AdoptSetting, NoRefresh
      <4> QED
        BY <2>6, <4>1, <4>2
    <3>2. UNCHANGED <<library, saved, dropped>>
      BY <2>6 DEF StoreSetting, AdoptSetting
    <3> QED
      BY <3>1, <3>2 DEF LibraryFits, RefreshSteps
  <2>7. CASE RestartLibrary
    <3>1. Dated(Loaded(saved).items)
      BY <2>a, LoadedIsDated DEF LibraryFits
    <3> QED
      BY <2>7, <2>a, <3>1 DEF RestartLibrary, LibraryFits, RefreshSteps, NoRefresh
  <2> QED
    BY <2>1, <2>2, <2>3, <2>4, <2>5, <2>6, <2>7 DEF LibraryNext
<1>3. LibraryInv /\ LibraryFits => LibraryTypeOK
  <2> SUFFICES ASSUME LibraryInv, LibraryFits PROVE LibraryTypeOK
    OBVIOUS
  <2>1. /\ library \in Snapshots /\ saved \in Snapshots /\ latest \in 0..MaxRevisions
        /\ library.rev <= latest /\ saved.rev <= latest
    BY DEF LibraryInv, SnapshotsWhole, Whole, RegistrySound, Revisions
  <2>2. library.rev \in Nat /\ saved.rev \in Nat /\ library.sources \subseteq PromptSources
        /\ library.failed \subseteq PromptSources
    BY <2>1 DEF Snapshots
  <2>3. library.rev \in Revisions /\ saved.rev \in Revisions
    BY <2>1, <2>2, LibraryAssumption DEF Revisions
  <2>4. off \cup savedOff \subseteq PromptSources
    BY <2>2 DEF LibraryInv, SettingsSound, LibraryFits
  <2> QED
    BY <2>1, <2>2, <2>3, <2>4 DEF LibraryTypeOK, LibraryFits, RefreshSteps, Dated, Revisions
<1> QED
  BY <1>1, <1>2, <1>3, InitLibrary, LibraryStep, PTL DEF LibrarySpec

\* A step of the image side is a step of each component, or leaves it alone.
LEMMA ImagePartsStep ==
  ASSUME [PartsNext]_partVars
  PROVE  /\ [DeliveryNext]_deliveryVars /\ [GenerationNext]_genVars
         /\ [StorageNext]_storageVars /\ [EditableNext]_editableVars
         /\ [CallsNext]_callVars /\ [MaintenanceNext]_maintenanceVars
         /\ [LifecycleNext]_lifecycleVars /\ [ProjectionNext]_projectionVars
         /\ [RetentionNext]_retentionVars /\ [LibraryNext]_libraryVars
<1>1. CASE UNCHANGED partVars
  BY <1>1 DEF partVars
<1>2. CASE (Only("delivery") \/ Only("redelivery")) /\ DeliveryNext  BY <1>2 DEF Only
<1>3. CASE (Only("generation") \/ Only("modes")) /\ GenerationNext  BY <1>3 DEF Only
<1>4. CASE (Only("storage") \/ Only("deaths")) /\ StorageNext  BY <1>4 DEF Only
<1>5. CASE Only("editable") /\ EditableNext  BY <1>5 DEF Only
<1>6. CASE Only("calls") /\ CallsNext  BY <1>6 DEF Only
<1>7. CASE Only("maintenance") /\ MaintenanceNext  BY <1>7 DEF Only
<1>8. CASE Only("lifecycle") /\ LifecycleNext  BY <1>8 DEF Only
<1>9. CASE (Only("projection") \/ Only("mishaps")) /\ ProjectionNext  BY <1>9 DEF Only
<1>10. CASE (Only("retention") \/ Only("lapses")) /\ RetentionNext  BY <1>10 DEF Only
<1>11. CASE Only("prompts") /\ LibraryNext  BY <1>11 DEF Only
<1> QED
  BY <1>1, <1>2, <1>3, <1>4, <1>5, <1>6, <1>7, <1>8, <1>9, <1>10, <1>11 DEF PartsNext

\* A behavior of the image side is a behavior of each component.
LEMMA ImagePartsAreBehaviors ==
  PartsSpec => /\ DeliverySpec /\ GenerationSpec /\ StorageSpec /\ EditableSpec /\ CallsSpec
               /\ MaintenanceSpec /\ LifecycleSpec /\ ProjectionSpec /\ RetentionSpec /\ LibrarySpec
<1>1. PartsInit => /\ DeliveryInit /\ GenerationInit /\ StorageInit /\ EditableInit /\ CallsInit
                   /\ MaintenanceInit /\ LifecycleInit /\ ProjectionInit /\ RetentionInit
                   /\ LibraryInit
  BY DEF PartsInit
<1>2. [PartsNext]_partVars =>
        /\ [DeliveryNext]_deliveryVars /\ [GenerationNext]_genVars
        /\ [StorageNext]_storageVars /\ [EditableNext]_editableVars
        /\ [CallsNext]_callVars /\ [MaintenanceNext]_maintenanceVars
        /\ [LifecycleNext]_lifecycleVars /\ [ProjectionNext]_projectionVars
        /\ [RetentionNext]_retentionVars /\ [LibraryNext]_libraryVars
  BY ImagePartsStep
<1> QED
  BY <1>1, <1>2, PTL
  DEF PartsSpec, DeliverySpec, GenerationSpec, StorageSpec, EditableSpec, CallsSpec,
      MaintenanceSpec, LifecycleSpec, ProjectionSpec, RetentionSpec, LibrarySpec

\* Every component keeps its types, whichever of them is at work.
THEOREM ImagesTypeCorrect == PartsSpec => []ImagesTypeOK
<1>1. LifecycleSpec => []LifecycleTypeOK
  <2>1. LifeInv => LifecycleTypeOK
    BY DEF LifeInv
  <2> QED
    BY <2>1, InitLife, StepKeepsLife, PTL DEF LifecycleSpec
<1>2. CallsSpec => []CallsTypeOK
  <2>1. CallsAgreeInv => CallsTypeOK
    <3>1. /\ AtSteps = {"idle", "preparing", "waiting", "unsettled",
                       "replying", "logging", "recording", "ended"}
          /\ Answers = {"none", "queued", "pending"} \cup Outcomes
          /\ Traces = {"none", "submitted", "working"} \cup Outcomes
      BY DEF AtSteps, Answers, Traces, Outcomes
    <3>2. ASSUME CallsAgreeInv PROVE record \in [Calls -> RecordRow]
      BY <3>2 DEF CallsAgreeInv, CallTypes
    <3>3. RecordRow = [shown : {"none", "queued", "pending"} \cup Outcomes, tied : BOOLEAN]
      BY <3>1 DEF RecordRow
    <3>4. ASSUME CallsAgreeInv
          PROVE  /\ kind \in [Calls -> Kinds] /\ task \in {"none", "active"} \cup Outcomes
                 /\ first \in Calls \cup {NoCall} /\ early \subseteq Calls
      BY <3>4 DEF CallsAgreeInv, CallTypes, Outcomes
    <3>5. ASSUME CallsAgreeInv
          PROVE  /\ at \in [Calls -> AtSteps] /\ answer \in [Calls -> Answers]
                 /\ monitor \in [Calls -> Traces]
      BY <3>5 DEF CallsAgreeInv, CallTypes
    <3>6. ASSUME CallsAgreeInv
          PROVE  finalizer \in [Calls \cup {Worker} ->
                   [at : {"idle", "called", "read", "monitored", "writing"}, found : SUBSET Calls]]
      BY <3>6 DEF CallsAgreeInv, CallTypes, Finalizers, FinalizerRow
    <3> QED
      BY <3>1, <3>2, <3>3, <3>4, <3>5, <3>6 DEF CallsTypeOK
  <2> QED
    BY <2>1, InitCalls, CallStepKeeps, PTL DEF CallsSpec
<1>3. ProjectionSpec => []ProjectionTypeOK
  <2>1. ProjInv => ProjectionTypeOK
    <3> SUFFICES ASSUME ProjInv PROVE ProjectionTypeOK
      OBVIOUS
    <3>1. ASSUME NEW c \in LoggedCalls
          PROVE  /\ call[c].record \in {"none", "writing", "kept", "gone"}
                 /\ call[c].says \in {"queued", "final"}
                 /\ call[c].task \in {"running", "ended", "handled"}
                 /\ call[c].seq <= lastSeq
      <4>1. call[c] \in CallRow
        BY DEF ProjInv, ProjTypes
      <4> QED
        BY <4>1 DEF CallRow, Words, ProjInv, CallsInv
    <3>2. ASSUME NEW s \in Syncers PROVE sync[s].at \in {"rest", "loaded", "aggregated"}
      <4>1. sync[s] \in SyncRow
        BY DEF ProjInv, ProjTypes
      <4> QED
        BY <4>1 DEF SyncRow, SyncAtRest, LoadedRow, TakenRow
    <3>3. state.gen <= generation
      BY DEF ProjInv, BoardInv
    <3> QED
      BY <3>1, <3>2, <3>3 DEF ProjectionTypeOK
  <2> QED
    BY <2>1, InitProj, ProjectionStepKeeps, PTL DEF ProjectionSpec
<1>4. DeliveryTypeOK /\ GenerationTypeOK /\ StorageTypeOK /\ EditableTypeOK /\ CallsTypeOK
      /\ MaintenanceTypeOK /\ LifecycleTypeOK /\ ProjectionTypeOK /\ RetentionTypeOK
      /\ LibraryTypeOK => ImagesTypeOK
  BY DEF ImagesTypeOK
<1> QED
  BY <1>1, <1>2, <1>3, <1>4, ImagePartsAreBehaviors, DeliveryTypesAlways, GenerationTypesAlways,
     StorageTypesAlways, EditableTypesAlways, MaintenanceTypesAlways, RetentionTypesAlways,
     LibraryTypesAlways, PTL

\* Checked side by side, the components keep what each promises alone: the
\* conversations of a claim, the results, the library of images and its
\* tombstones, editable files, call records and their projection, restores, the
\* worker's claims, cleanups and prompts.
THEOREM ImagesSafe ==
  PartsSpec => /\ [](/\ ConversationsAreKept /\ OldDeletesSpareNewVersions /\ FilesFollowTasks
                     /\ CallsAgree /\ RestoreIsSafe /\ ClaimsAreAttended /\ CallsAreProjected
                     /\ SettingsAreApplied /\ LibraryIsWhole)
               /\ ResultsAreAccounted
BY ImagePartsAreBehaviors, ConversationsStayKept, NewVersionsAreSpared, FilesStayWithTasks,
   CallsComeToAgree, RestoreStaysSafe, ClaimsStayAttended, CallsStayProjected,
   SettingsGetApplied, LibraryStaysWhole, ResultsStayAccounted, PTL
=============================================================================
