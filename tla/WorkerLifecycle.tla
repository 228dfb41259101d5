--------------------------- MODULE WorkerLifecycle ---------------------------
(***************************************************************************)
(* The threads of ImageWorkerManager (services/image_queue/worker.py) and  *)
(* those who start and stop them (services/image_task_service.py): the     *)
(* dispatcher that claims jobs, the heartbeat that keeps their leases, the *)
(* executor threads, a restore that stops the queue, and submissions that  *)
(* bring an idle queue back.                                               *)
(*                                                                         *)
(* One process.  What a claim does, and the rows, are ImageQueue's; here   *)
(* it only matters in whose hands a claim is.  A heartbeat may die of an   *)
(* exception; the dispatcher catches its own.  One caller at a time stops  *)
(* or starts the queue: a restore finds no submission about to restart it  *)
(* (a submission that looked before the restore began could; the service   *)
(* takes no lock across the two).                                          *)
(***************************************************************************)
EXTENDS FiniteSets

CONSTANT Jobs   \* bound: jobs that can be claimed

ASSUME LifecycleAssumption == IsFiniteSet(Jobs)

VARIABLES
  dispatcher,   \* where the dispatcher thread is
  heartbeat,    \* where the heartbeat thread is
  stopEvent,    \* _stop
  active,       \* _worker_active
  fatal,        \* _fatal_error is set
  claiming,     \* _claim_in_flight
  claimOf,      \* job -> free, held by the dispatcher, running, done or stranded
  usurped,      \* another process took the worker's identity
  stopping,     \* caller -> where its call of stop() is
  begun,        \* ImageTaskService._started
  worker,       \* ImageTaskService.worker is not None
  submission    \* where a submission that found the queue down is

lifecycleVars == <<dispatcher, heartbeat, stopEvent, active, fatal, claiming, claimOf,
                   usurped, stopping, begun, worker, submission>>

Callers == {"restore", "submission"}

LifecycleTypeOK ==
  /\ dispatcher \in {"gone", "top", "ready", "decided", "asking", "holding", "failing"}
  /\ heartbeat \in {"gone", "top", "state", "failing", "wait"}
  /\ {stopEvent, active, fatal, claiming, usurped, begun, worker}
       \subseteq BOOLEAN
  /\ claimOf \in [Jobs -> {"free", "held", "running", "done", "stranded"}]
  /\ stopping \in [Callers -> {"no", "join", "drain", "decide", "quiet", "joinBeat",
                               "down", "undrained", "drained"}]
  /\ submission \in {"none", "start", "reset", "open", "boot"}

\* The manager is built with its pools and started.
LifecycleInit ==
  /\ dispatcher = "top" /\ heartbeat = "top"
  /\ stopEvent = FALSE /\ active = TRUE /\ fatal = FALSE /\ claiming = FALSE
  /\ claimOf = [j \in Jobs |-> "free"]
  /\ usurped = FALSE
  /\ stopping = [c \in Callers |-> "no"]
  /\ begun = TRUE /\ worker = TRUE
  /\ submission = "none"

DispatcherAlive == dispatcher # "gone"
HeartbeatAlive == heartbeat # "gone"
In(states) == {j \in Jobs : claimOf[j] \in states}

\* _has_live_claims_unlocked
HasLiveClaims == claiming \/ In({"running", "stranded"}) # {}

\* has_active_claims, _has_only_leftover_heartbeat
HasActiveClaims == worker /\ (HasLiveClaims \/ DispatcherAlive \/ HeartbeatAlive)
OnlyLeftoverHeartbeat == worker /\ HeartbeatAlive /\ ~DispatcherAlive /\ ~HasLiveClaims

-----------------------------------------------------------------------------
(* Common parts *)

\* _reap_completed_futures: finished claims leave, and a worker that will not
\* claim again ends its heartbeat once nothing is left.
Reap(claims) ==
  /\ claimOf' = [j \in Jobs |-> IF claims[j] = "done" THEN "free" ELSE claims[j]]
  /\ stopEvent' = (stopEvent \/
       /\ fatal \/ ~active
       /\ ~DispatcherAlive /\ ~claiming
       /\ \A j \in Jobs : claims[j] \in {"free", "held", "done"})

\* _ensure_heartbeat_thread
EnsureHeartbeat ==
  heartbeat' =
    IF /\ ~HeartbeatAlive /\ ~stopEvent
       /\ DispatcherAlive \/ active \/ HasLiveClaims
    THEN "top" ELSE heartbeat

\* _set_fatal_error under the lock; the stop event follows outside of it.
SetFatal == fatal' = TRUE /\ active' = FALSE

-----------------------------------------------------------------------------
(* The dispatcher *)

\* A turn of _dispatch_loop begins.
DispatchTurn ==
  /\ dispatcher = "top"
  /\ IF stopEvent \/ ~active
     THEN dispatcher' = "gone" /\ UNCHANGED heartbeat
     ELSE dispatcher' = "ready" /\ EnsureHeartbeat
  /\ UNCHANGED <<stopEvent, active, fatal, claiming, claimOf, usurped, stopping, begun,
                 worker, submission>>

\* _dispatch_once until it writes the worker's state: maintenance, gates,
\* candidates, capacity.  A usurped identity shows here; a failure is waited
\* out; without capacity the turn ends.
DispatchEvaluates ==
  /\ dispatcher = "ready"
  /\ IF usurped
     THEN SetFatal /\ dispatcher' = "failing" /\ UNCHANGED <<stopEvent, claimOf>>
     ELSE Reap(claimOf) /\ dispatcher' \in {"top", "decided"} /\ UNCHANGED <<fatal, active>>
  /\ UNCHANGED <<heartbeat, claiming, usurped, stopping, begun, worker, submission>>

\* The end of _set_fatal_error in the dispatcher.
DispatcherFails ==
  /\ dispatcher = "failing"
  /\ stopEvent' = (stopEvent \/ ~HasLiveClaims)
  /\ dispatcher' = "gone"
  /\ UNCHANGED <<heartbeat, active, fatal, claiming, claimOf, usurped, stopping, begun,
                 worker, submission>>

\* The last look at _worker_active before a claim.
DispatchGoes ==
  /\ dispatcher = "decided"
  /\ IF active THEN dispatcher' = "asking" /\ claiming' = TRUE
     ELSE dispatcher' = "top" /\ UNCHANGED claiming
  /\ UNCHANGED <<heartbeat, stopEvent, active, fatal, claimOf, usurped, stopping, begun,
                 worker, submission>>

\* claim_next_job; the claim in flight keeps _set_fatal_error from stopping.
DispatchClaims ==
  /\ dispatcher = "asking"
  /\ \/ /\ usurped
        /\ SetFatal /\ dispatcher' = "top" /\ claiming' = FALSE /\ UNCHANGED claimOf
     \/ /\ ~usurped
        /\ dispatcher' = "top" /\ claiming' = FALSE /\ UNCHANGED <<fatal, active, claimOf>>
     \/ /\ ~usurped
        /\ \E j \in In({"free"}) : claimOf' = [claimOf EXCEPT ![j] = "held"]
        /\ dispatcher' = "holding" /\ UNCHANGED <<fatal, active, claiming>>
  /\ UNCHANGED <<heartbeat, stopEvent, usurped, stopping, begun, worker, submission>>

\* The claim goes to an executor, or is released because a gate has closed; a
\* claim whose release and failure both fail is kept.
DispatchHandsOver ==
  /\ dispatcher = "holding"
  /\ \E j \in In({"held"}), next \in {"running", "free", "stranded"} :
       claimOf' = [claimOf EXCEPT ![j] = next]
  /\ dispatcher' = "top" /\ claiming' = FALSE
  /\ UNCHANGED <<heartbeat, stopEvent, active, fatal, usurped, stopping, begun, worker,
                 submission>>

\* _run_claim returns.
ClaimEnds ==
  /\ \E j \in In({"running"}) : claimOf' = [claimOf EXCEPT ![j] = "done"]
  /\ UNCHANGED <<dispatcher, heartbeat, stopEvent, active, fatal, claiming, usurped,
                 stopping, begun, worker, submission>>

-----------------------------------------------------------------------------
(* The heartbeat *)

HeartbeatTurn ==
  /\ heartbeat = "top"
  /\ IF stopEvent
     THEN heartbeat' = "gone" /\ UNCHANGED <<stopEvent, claimOf>>
     ELSE Reap(claimOf) /\ heartbeat' = IF fatal THEN "wait" ELSE "state"
  /\ UNCHANGED <<dispatcher, active, fatal, claiming, usurped, stopping, begun, worker,
                 submission>>

\* _heartbeat_worker_state
HeartbeatState ==
  /\ heartbeat = "state"
  /\ IF usurped THEN SetFatal /\ heartbeat' = IF HasLiveClaims THEN "wait" ELSE "failing"
     ELSE heartbeat' = "wait" /\ UNCHANGED <<fatal, active>>
  /\ UNCHANGED <<dispatcher, stopEvent, claiming, claimOf, usurped, stopping, begun,
                 worker, submission>>

\* The end of _set_fatal_error in the heartbeat, which saw no live claim.
HeartbeatFails ==
  /\ heartbeat = "failing"
  /\ stopEvent' = TRUE /\ heartbeat' = "wait"
  /\ UNCHANGED <<dispatcher, active, fatal, claiming, claimOf, usurped, stopping, begun,
                 worker, submission>>

\* The claims are renewed, then the heartbeat waits for the stop event.
HeartbeatWaits ==
  /\ heartbeat = "wait"
  /\ heartbeat' = IF stopEvent THEN "gone" ELSE "top"
  /\ UNCHANGED <<dispatcher, stopEvent, active, fatal, claiming, claimOf, usurped,
                 stopping, begun, worker, submission>>

HeartbeatDies ==
  /\ heartbeat \in {"top", "state", "wait"} /\ ~stopEvent
  /\ heartbeat' = "gone"
  /\ UNCHANGED <<dispatcher, stopEvent, active, fatal, claiming, claimOf, usurped,
                 stopping, begun, worker, submission>>

\* Health, capacity and monitoring requests revive it.
HealthCheck ==
  /\ worker
  /\ EnsureHeartbeat
  /\ UNCHANGED <<dispatcher, stopEvent, active, fatal, claiming, claimOf, usurped,
                 stopping, begun, worker, submission>>

\* A second process with the configured worker id, while this one's state row
\* was taken for stale.
IdentityTaken ==
  /\ ~usurped
  /\ usurped' = TRUE
  /\ UNCHANGED <<dispatcher, heartbeat, stopEvent, active, fatal, claiming, claimOf,
                 stopping, begun, worker, submission>>

-----------------------------------------------------------------------------
(* stop() *)

Move(c, at) == stopping' = [stopping EXCEPT ![c] = at]

BeginStop(c) ==
  /\ worker /\ stopping[c] = "no"
  /\ submission = IF c = "submission" THEN "reset" ELSE "none"
  /\ active' = FALSE
  /\ Move(c, "join")
  /\ UNCHANGED <<dispatcher, heartbeat, stopEvent, fatal, claiming, claimOf, usurped,
                 begun, worker, submission>>

\* The dispatcher is joined, then the futures, each for a while.
StopJoins(c) ==
  /\ stopping[c] = "join"
  /\ Move(c, "drain")
  /\ UNCHANGED <<dispatcher, heartbeat, stopEvent, active, fatal, claiming, claimOf,
                 usurped, begun, worker, submission>>

StopDrains(c) ==
  /\ stopping[c] = "drain"
  /\ Reap(claimOf)
  /\ Move(c, "decide")
  /\ UNCHANGED <<dispatcher, heartbeat, active, fatal, claiming, usurped, begun, worker,
                 submission>>

\* Mutant: the claim the dispatcher is about to get is not counted.
DrainedTooSoon == In({"running", "stranded"}) = {}

\* What counts as drained.
Drained == In({"running", "stranded"}) = {} /\ ~DispatcherAlive /\ ~claiming

\* _resume_dispatcher
ResumeDispatcher ==
  IF fatal THEN UNCHANGED <<active, dispatcher>>
  ELSE /\ active' = TRUE
       /\ dispatcher' = IF DispatcherAlive THEN dispatcher ELSE "top"

\* An undrained worker keeps its claims and its heartbeat; a restore lets it
\* go on claiming.
StopDecides(c) ==
  /\ stopping[c] = "decide"
  /\ IF Drained
     THEN Move(c, "quiet") /\ UNCHANGED <<active, dispatcher>>
     ELSE /\ Move(c, "undrained")
          /\ IF c = "restore" THEN ResumeDispatcher ELSE UNCHANGED <<active, dispatcher>>
  /\ UNCHANGED <<heartbeat, stopEvent, fatal, claiming, claimOf, usurped, begun, worker,
                 submission>>

StopQuiets(c) ==
  /\ stopping[c] = "quiet"
  /\ stopEvent' = TRUE
  /\ Move(c, "joinBeat")
  /\ UNCHANGED <<dispatcher, heartbeat, active, fatal, claiming, claimOf, usurped, begun,
                 worker, submission>>

StopJoinsHeartbeat(c) ==
  /\ stopping[c] = "joinBeat"
  /\ Move(c, IF HeartbeatAlive THEN "undrained" ELSE "down")
  /\ UNCHANGED <<dispatcher, heartbeat, stopEvent, active, fatal, claiming, claimOf,
                 usurped, begun, worker, submission>>

\* The executors are shut down and the worker's row is marked inactive; the
\* service of a restore drops the worker.
StopReturns(c) ==
  /\ stopping[c] \in {"down", "undrained"}
  /\ IF c = "restore"
     THEN /\ Move(c, "no")
          /\ IF stopping[c] = "down" THEN worker' = FALSE /\ begun' = FALSE
             ELSE UNCHANGED <<worker, begun>>
     ELSE /\ Move(c, IF stopping[c] = "down" THEN "drained" ELSE "no")
          /\ UNCHANGED <<worker, begun>>
  /\ IF c = "submission" /\ stopping[c] = "undrained"
     THEN submission' = "none" ELSE UNCHANGED submission
  /\ UNCHANGED <<dispatcher, heartbeat, stopEvent, active, fatal, claiming, claimOf,
                 usurped>>

-----------------------------------------------------------------------------
(* Submissions, and start() *)

\* A submission finds the worker idle; a fatal worker refuses it, and so does
\* a restore that is under way.
SubmissionFindsIdle ==
  /\ submission = "none" /\ begun /\ worker /\ ~fatal
  /\ ~active \/ ~DispatcherAlive \/ ~HeartbeatAlive
  /\ ~HasActiveClaims
  /\ stopping["restore"] = "no"
  /\ submission' = "start"
  /\ UNCHANGED <<dispatcher, heartbeat, stopEvent, active, fatal, claiming, claimOf,
                 usurped, stopping, begun, worker>>

\* A successful restore, or its failing maintenance, calls start too.
RestoreStarts ==
  /\ submission = "none" /\ stopping["restore"] = "no" /\ ~begun
  /\ submission' = "start"
  /\ UNCHANGED <<dispatcher, heartbeat, stopEvent, active, fatal, claiming, claimOf,
                 usurped, stopping, begun, worker>>

\* ImageTaskService.start: nothing for a healthy queue, or one with claims.
StartLooks ==
  /\ submission = "start"
  /\ submission' =
       IF HasActiveClaims /\ ~OnlyLeftoverHeartbeat THEN "none"
       ELSE IF ~begun THEN "open"
       ELSE "reset"
  /\ UNCHANGED <<dispatcher, heartbeat, stopEvent, active, fatal, claiming, claimOf,
                 usurped, stopping, begun, worker>>

\* _reset_unhealthy_queue_runtime, once its stop() has drained.
StartAfterReset ==
  /\ submission = "reset"
  /\ stopping["submission"] = "drained" \/ (stopping["submission"] = "no" /\ ~worker)
  /\ Move("submission", "no")
  /\ IF HasActiveClaims THEN submission' = "none" /\ UNCHANGED begun
     ELSE submission' = "open" /\ begun' = FALSE
  /\ UNCHANGED <<dispatcher, heartbeat, stopEvent, active, fatal, claiming, claimOf,
                 usurped, worker>>

\* Database, recovery and maintenance; then a worker is made if there is none.
StartOpens ==
  /\ submission = "open"
  /\ submission' = "boot"
  /\ IF worker THEN UNCHANGED <<worker, fatal, active, stopEvent, claimOf, usurped>>
     ELSE /\ worker' = TRUE /\ fatal' = FALSE /\ active' = FALSE /\ stopEvent' = FALSE
          /\ claimOf' = [j \in Jobs |-> "free"] /\ usurped' = FALSE
  /\ UNCHANGED <<dispatcher, heartbeat, claiming, stopping, begun>>

\* ImageWorkerManager.start: not beside a dispatcher, a heartbeat that does
\* not end, or claims.
WorkerStarts ==
  /\ submission = "boot"
  /\ submission' = "none"
  /\ IF DispatcherAlive
     THEN begun' = TRUE /\ UNCHANGED <<dispatcher, heartbeat, stopEvent, active, fatal,
                                       claimOf>>
     ELSE IF HeartbeatAlive
     THEN stopEvent' = TRUE /\ UNCHANGED <<dispatcher, heartbeat, active, fatal, claimOf,
                                           begun>>
     ELSE IF In({"running", "stranded"}) # {}
     THEN UNCHANGED <<dispatcher, heartbeat, stopEvent, active, fatal, claimOf, begun>>
     ELSE /\ begun' = TRUE
          /\ claimOf' = [j \in Jobs |-> "free"]
          /\ fatal' = FALSE /\ active' = TRUE /\ stopEvent' = FALSE
          /\ dispatcher' = "top" /\ heartbeat' = "top"
  /\ UNCHANGED <<claiming, usurped, stopping, worker>>

LifecycleNext ==
  \/ DispatchTurn \/ DispatchEvaluates \/ DispatcherFails \/ DispatchGoes
  \/ DispatchClaims \/ DispatchHandsOver \/ ClaimEnds
  \/ HeartbeatTurn \/ HeartbeatState \/ HeartbeatFails \/ HeartbeatWaits
  \/ HeartbeatDies \/ HealthCheck \/ IdentityTaken
  \/ \E c \in Callers :
       \/ BeginStop(c) \/ StopJoins(c) \/ StopDrains(c) \/ StopDecides(c)
       \/ StopQuiets(c) \/ StopJoinsHeartbeat(c) \/ StopReturns(c)
  \/ SubmissionFindsIdle \/ RestoreStarts \/ StartLooks \/ StartAfterReset
  \/ StartOpens \/ WorkerStarts

LifecycleSpec == LifecycleInit /\ [][LifecycleNext]_lifecycleVars

-----------------------------------------------------------------------------
(* Properties *)

\* As long as an executor runs a claim, or one could not be given back, the
\* heartbeat is alive or will be revived: nobody sets the stop event
\* (_set_fatal_error, _reap_completed_futures, stop, start).
LiveClaimsBeat == In({"running", "stranded"}) # {} => ~stopEvent

\* stop() that returns True leaves no thread and no claim.
StoppedIsQuiet ==
  ~worker
    => ~DispatcherAlive /\ ~HeartbeatAlive /\ In({"held", "running", "stranded"}) = {}

\* Claims are attended to from start to stop: live ones are beaten for, and a
\* worker that says it stopped has none.
ClaimsAreAttended == LiveClaimsBeat /\ StoppedIsQuiet
=============================================================================
