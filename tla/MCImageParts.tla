--------------------------- MODULE MCImageParts -----------------------------
(***************************************************************************)
(* Small instances of the components that make, store, deliver, record and *)
(* remove images.  They share no state: a behavior picks one of them and lets *)
(* it run.                                                                 *)
(***************************************************************************)
EXTENDS ImageDelivery, ImageGeneration, ImageStorage, EditableFiles, ImageCalls,
        RestoreMaintenance, WorkerLifecycle, DashboardProjection,
        RetentionCleanup, PromptLibrary

VARIABLE part   \* the component at work

\* A component with two entries is checked in as many smaller settings.
ImageParts == {"delivery", "redelivery", "generation", "modes", "storage", "deaths",
               "editable", "calls", "maintenance", "lifecycle", "projection", "mishaps",
               "retention", "lapses", "prompts"}

partVars == <<part, deliveryVars, genVars, storageVars, editableVars, callVars,
              maintenanceVars, lifecycleVars, projectionVars, retentionVars,
              libraryVars>>

MCResultJobs == {"j1"}
MCReaders == {"r1"}
MCRebuildable == {"j1"}

PartsInit ==
  /\ part \in ImageParts
  /\ DeliveryInit
  /\ GenerationInit
  /\ StorageInit
  /\ EditableInit
  /\ CallsInit
  /\ MaintenanceInit
  /\ LifecycleInit
  /\ ProjectionInit
  /\ RetentionInit
  /\ LibraryInit
  /\ part \notin {"storage", "deaths"} => remote = NoBytes
  /\ part # "calls" => kind \in [Calls -> {"task"}]
  /\ part # "maintenance" => enabled

\* Only the component p moves.
Only(p) ==
  /\ part = p /\ UNCHANGED part
  /\ IF p \in {"delivery", "redelivery"} THEN TRUE ELSE UNCHANGED deliveryVars
  /\ IF p \in {"generation", "modes"} THEN TRUE ELSE UNCHANGED genVars
  /\ IF p \in {"storage", "deaths"} THEN TRUE ELSE UNCHANGED storageVars
  /\ IF p = "editable" THEN TRUE ELSE UNCHANGED editableVars
  /\ IF p = "calls" THEN TRUE ELSE UNCHANGED callVars
  /\ IF p = "maintenance" THEN TRUE ELSE UNCHANGED maintenanceVars
  /\ IF p = "lifecycle" THEN TRUE ELSE UNCHANGED lifecycleVars
  /\ IF p \in {"projection", "mishaps"} THEN TRUE ELSE UNCHANGED projectionVars
  /\ IF p \in {"retention", "lapses"} THEN TRUE ELSE UNCHANGED retentionVars
  /\ IF p = "prompts" THEN TRUE ELSE UNCHANGED libraryVars

(* The settings.  One loss and every way to charge, or two losses and the     *)
(* charges of the claim and the requests, none of which fails; invalid rows   *)
(* are swept in the second.                                                  *)
OneLoss == losses' <= 1 /\ sweep' = {}
TwoLosses ==
  /\ recording'["dispatcher"] = NotRecording
  /\ TaskExists' => \A j \in ResultJobs : jobs'[j].attempts = 0

\* Two conversations, or a third one but one connection of each claim and no
\* search in the account's list.
TwoConversations == \E c \in Conversations : upstream'[c] = "none"
OneConnection == foundBySearch' = {} /\ \A k \in ClaimIds : run'[k].tries <= 1

\* Operations meet, or one of them may be cut short and is followed by others.
NobodyDies == deaths' = 0
OneAtATime == \E w \in Workers : use'[w] = Rest

\* Two records without mishaps, or one with them.
NoMishap == mishaps' = 0
OneRecord == \E c \in LoggedCalls : call'[c].record \in {"none", "writing"}

\* Schedulers and manual cleanups, or schedulers that lose their leases and have no
\* deadline of their own; the settings are saved in one process.
TheScheduler == CHOOSE p \in Schedulers : TRUE
OneProcessSaves == \A p \in Schedulers \ {TheScheduler} : unnoticed'[p] = 0
NothingLapses == OneProcessSaves /\ lapses' = 0
ScheduledOnly ==
  /\ OneProcessSaves /\ overdue' = {}
  /\ \A m \in Manual : actor'[m] = "standby"
  /\ \A a \in Admins : viewed'[a] = setting'

PartsNext ==
  \/ Only("delivery") /\ DeliveryNext /\ OneLoss
  \/ Only("redelivery") /\ DeliveryNext /\ TwoLosses
  \/ Only("generation") /\ GenerationNext /\ TwoConversations
  \/ Only("modes") /\ GenerationNext /\ OneConnection
  \/ Only("storage") /\ StorageNext /\ NobodyDies
  \/ Only("deaths") /\ StorageNext /\ OneAtATime
  \/ Only("editable") /\ EditableNext
  \/ Only("calls") /\ CallsNext
  \/ Only("maintenance") /\ MaintenanceNext
  \/ Only("lifecycle") /\ LifecycleNext
  \/ Only("projection") /\ ProjectionNext /\ NoMishap
  \/ Only("mishaps") /\ ProjectionNext /\ OneRecord
  \/ Only("retention") /\ RetentionNext /\ NothingLapses
  \/ Only("lapses") /\ RetentionNext /\ ScheduledOnly
  \/ Only("prompts") /\ LibraryNext

PartsSpec == PartsInit /\ [][PartsNext]_partVars

\* Every component keeps its types.
ImagesTypeOK ==
  /\ DeliveryTypeOK /\ GenerationTypeOK /\ StorageTypeOK /\ EditableTypeOK
  /\ CallsTypeOK /\ MaintenanceTypeOK /\ LifecycleTypeOK /\ ProjectionTypeOK
  /\ RetentionTypeOK /\ LibraryTypeOK
=============================================================================
