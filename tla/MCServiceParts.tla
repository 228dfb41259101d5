-------------------------- MODULE MCServiceParts ----------------------------
(***************************************************************************)
(* Small instances of the components that must come to an end: submissions, *)
(* quota charges, imports, the resource gate and backups.  They share no state: *)
(* a behavior picks one of them and lets it run.                           *)
(***************************************************************************)
EXTENDS Submission, UserQuota, ImportJobs, ResourceGate, BackupJobs

VARIABLE part   \* the component at work

ServiceParts == {"submission", "quota", "imports", "gate", "backups"}

partVars == <<part, submissionVars, quotaVars, importVars, gateAllVars,
              backupAllVars>>

VARIABLE absent   \* bound: the request that stays away, or what does not happen

serviceVars == <<absent, partVars>>

\* s2 shares the client id of s1 and the key of s4; s3 comes with the
\* identifiers of s1 in opposite roles, for another prompt.
MCSubmissions == {"s1", "s2", "s3", "s4"}
MCIdentifiers == 1..4
MCIdempotencyKey == [r \in MCSubmissions |->
  CASE r = "s1" -> 1 [] r = "s2" -> 3 [] r = "s3" -> 2 [] r = "s4" -> 3]
MCClientTaskId == [r \in MCSubmissions |->
  CASE r = "s1" -> 2 [] r = "s2" -> 2 [] r = "s3" -> 1 [] r = "s4" -> 4]
MCRequestHash == [r \in MCSubmissions |-> IF r = "s3" THEN "h2" ELSE "h1"]

\* r1 and r2 share the client id c1 under keys of their own; r3 asks for two.
MCRequests == {"r1", "r2", "r3"}
MCIds == {"k1", "k2", "k3", "c1"}
MCKeyOf == [r \in MCRequests |->
  CASE r = "r1" -> "k1" [] r = "r2" -> "k2" [] r = "r3" -> "k3"]
MCClientOf == [r \in MCRequests |-> IF r = "r3" THEN "k3" ELSE "c1"]
MCUnitsOf == [r \in MCRequests |-> IF r = "r3" THEN 2 ELSE 1]

MCProviderOf == [s \in {"s1", "s2"} |-> IF s = "s1" THEN "sub2api" ELSE "cpa"]
MCSourceOf == [j \in {"i1", "i2"} |-> IF j = "i1" THEN "s1" ELSE "s2"]

\* What may stay away.  (All that share an identifier meet without s3 or s4; r1
\* and r2 are alike.)
Absent ==
  [p \in ServiceParts |->
     CASE p = "submission" -> {"s3", "s4"}
       [] p = "quota" -> {"r2", "r3", "night"}
       [] p = "imports" -> {"restarts", "failures"}
       [] p = "gate" -> {"walls", "load"}
       [] p = "backups" -> {"deaths", "faults"}]

PartsInit ==
  /\ part \in ServiceParts
  /\ SubmissionInit
  /\ QuotaInit
  /\ ImportInit
  /\ GateInit
  /\ BackupsInit
  /\ part # "backups" => ~due
  /\ absent \in Absent[part]

\* Only the component p moves.
Only(p) ==
  /\ part = p /\ UNCHANGED <<part, absent>>
  /\ IF p = "submission" THEN TRUE ELSE UNCHANGED submissionVars
  /\ IF p = "quota" THEN TRUE ELSE UNCHANGED quotaVars
  /\ IF p = "imports" THEN TRUE ELSE UNCHANGED importVars
  /\ IF p = "gate" THEN TRUE ELSE UNCHANGED gateAllVars
  /\ IF p = "backups" THEN TRUE ELSE UNCHANGED backupAllVars

PartsNext ==
  \/ Only("submission") /\ SubmissionNext /\ progress'[absent] = "new"
  \/ /\ Only("quota") /\ QuotaNext
     /\ IF absent = "night" THEN UNCHANGED today ELSE stage'[absent] = "new"
  \/ /\ Only("imports") /\ ImportNext
     /\ IF absent = "restarts" THEN restarts' = 0 ELSE storeFailures' = 0
  \/ /\ Only("gate") /\ GateNext
     /\ IF absent = "walls" THEN cache'.raised = {} ELSE cache'.load < 2
  \/ /\ Only("backups") /\ BackupsNext
     /\ IF absent = "deaths" THEN crashes' = 0 ELSE faults' = 0

PartsSpec == PartsInit /\ [][PartsNext]_serviceVars

\* The fairness of the component at work, and of no other.
PartsFairSpec ==
  /\ PartsSpec
  /\ \A r \in Submissions :
       /\ WF_submissionVars(part = "submission" /\ r # absent /\ Submit(r))
       /\ WF_submissionVars(part = "submission" /\ r # absent /\ Sweep(r))
       /\ WF_submissionVars(part = "submission" /\ r # absent /\ FileAges(r))
  /\ WF_quotaVars(part = "quota" /\ Reconcile)
  /\ \A r \in Requests :
       WF_quotaVars(part = "quota" /\ r # absent /\ (Reserve(r) \/ Commit(r) \/ Cancel(r)))
  /\ \A j \in Imports : WF_importVars(part = "imports" /\ ImportWork(j))
  /\ \A p \in Providers : WF_importVars(part = "imports" /\ BootStore(p))
  /\ WF_gateAllVars(part = "gate" /\ Tick)
  /\ WF_gateAllVars(part = "gate" /\ Probe("generation"))
  /\ WF_gateAllVars(part = "gate" /\ Dispatch)
  /\ \A p \in Processes : WF_backupAllVars(part = "backups" /\ BackupStep(p))

\* Every component keeps its types.
ServicesTypeOK ==
  /\ SubmissionTypeOK /\ QuotaTypeOK /\ ImportTypeOK
  /\ GateTypeOK /\ BackupsTypeOK

\* The gate does not open on a load that was high a moment ago, and no rotation
\* takes the archive that is reported (_update_occupancy_gate, run_backup).
GateAndBackupsAreSafe ==
  OpensAfterCalm /\ [](ReportedBackupExists /\ OneBackupAtATime)

\* Every service comes to its end: submissions end and leave no files behind,
\* accepted requests are charged, imports make way for others, the gate lets an
\* idle machine generate, and the schedule of the backups goes on.
ServicesSettle ==
  /\ SubmissionsEnd /\ OrphansVanish
  /\ AcceptedIsSettled
  /\ ImportsEnd
  /\ GenerationReturns
  /\ SchedulesGoOn
=============================================================================
