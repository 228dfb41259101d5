---------------------------- MODULE ImageCalls ----------------------------
(***************************************************************************)
(* The requests about one durable image task and what is kept about them:  *)
(* the call records of the application database and the realtime monitor.  *)
(* /api/image-tasks answers at once and logs a queued record; /v1/images   *)
(* and its relatives wait for the task, with an answer or as a stream, and *)
(* log when they reply; a subscription only watches.  When the task ends   *)
(* the worker's callback finishes the monitor and brings the records up to *)
(* date, while requests log theirs (services/log_service.py,               *)
(* services/realtime_monitor_service.py, services/call_record_service.py,  *)
(* services/image_task_service.py, services/protocol/durable_image.py).    *)
(* The task is one row that ends once: ImageQueue models its jobs.         *)
(***************************************************************************)
EXTENDS FiniteSets

CONSTANTS
  Calls,          \* the requests about the task
  Worker,         \* the worker's callback when the task has ended
  NoCall

ASSUME CallsAssumption == NoCall \notin Calls /\ Worker \notin Calls

VARIABLES
  kind,        \* what each request is
  task,        \* the image task's status
  first,       \* trace_headers.call_id of the task: the call that submitted it
  at,          \* where each request is
  answer,      \* what a request is about to log or has answered
  monitor,     \* RealtimeMonitorService._active and ._completed by call_id
  record,      \* the call records
  finalizer,   \* the runs of _finalize_call_record_for_task under way
  early        \* the calls whose record was added before the task ended

callVars == <<kind, task, first, at, answer, monitor, record, finalizer, early>>

\* task: POST /api/image-tasks/...; document and stream: a protocol call and
\* the form of its reply; watch: GET /api/image-tasks/{task_id}/stream.
Kinds == {"task", "document", "stream", "watch"}
TaskCalls == {c \in Calls : kind[c] = "task"}
ProtocolCalls == {c \in Calls : kind[c] \in {"document", "stream"}}
\* A partial success counts as a success.
Outcomes == {"success", "failed"}
NoRecord == [shown |-> "none", tied |-> FALSE]
FinalizerAtRest == [at |-> "idle", found |-> {}]

CallsTypeOK ==
  /\ kind \in [Calls -> Kinds]
  /\ task \in {"none", "active"} \cup Outcomes
  /\ first \in Calls \cup {NoCall}
  /\ at \in [Calls -> {"idle", "preparing", "waiting", "unsettled",
                       "replying", "logging", "recording", "ended"}]
  /\ answer \in [Calls -> {"none", "queued", "pending"} \cup Outcomes]
  /\ monitor \in [Calls -> {"none", "submitted", "working"} \cup Outcomes]
  /\ record \in [Calls -> [shown : {"none", "queued", "pending"} \cup Outcomes, tied : BOOLEAN]]
  /\ finalizer \in [Calls \cup {Worker} ->
       [at : {"idle", "called", "read", "monitored", "writing"}, found : SUBSET Calls]]
  /\ early \subseteq Calls

CallsInit ==
  /\ kind \in [Calls -> Kinds]
  /\ task = "none" /\ first = NoCall
  /\ at = [c \in Calls |-> "idle"]
  /\ answer = [c \in Calls |-> "none"]
  /\ monitor = [c \in Calls |-> "none"]
  /\ record = [c \in Calls |-> NoRecord]
  /\ finalizer = [f \in Calls \cup {Worker} |-> FinalizerAtRest]
  /\ early = {}

Ended(t) == t \in Outcomes

---------------------------------------------------------------------------
\* Requests.

\* Only the protocol calls are traced by the monitor.
StartMonitor(c) == monitor' = [monitor EXCEPT ![c] = "submitted"]

RequestCall(c) ==
  /\ c \in ProtocolCalls /\ at[c] = "idle"
  /\ at' = [at EXCEPT ![c] = "preparing"]
  /\ StartMonitor(c)
  /\ UNCHANGED <<kind, task, first, answer, record, finalizer, early>>

\* The worker tells a stage of the call it works for; the event of a call the
\* monitor does not hold as active is passed over.
StageEvent(c) ==
  /\ c = first /\ task = "active" /\ monitor[c] = "submitted"
  /\ monitor' = [monitor EXCEPT ![c] = "working"]
  /\ UNCHANGED <<kind, task, first, at, answer, record, finalizer, early>>

\* Every call carries the same idempotency key: the first one makes the task,
\* the others are attached to it.  The task keeps the call_id of the first.
Enqueued(c) ==
  IF task = "none" THEN task' = "active" /\ first' = c
                   ELSE UNCHANGED <<task, first>>

SubmitTask(c) ==
  /\ c \in TaskCalls /\ at[c] = "idle"
  /\ Enqueued(c)
  /\ at' = [at EXCEPT ![c] = "recording"]
  /\ answer' = [answer EXCEPT ![c] = "queued"]
  /\ UNCHANGED <<kind, monitor, record, finalizer, early>>

SubmitProtocol(c) ==
  /\ c \in ProtocolCalls /\ at[c] = "preparing"
  /\ Enqueued(c)
  /\ at' = [at EXCEPT ![c] = "waiting"]
  /\ UNCHANGED <<kind, answer, monitor, record, finalizer, early>>

Refused(c) ==
  /\ \/ c \in TaskCalls /\ at[c] = "idle" /\ at' = [at EXCEPT ![c] = "recording"]
     \/ at[c] = "preparing" /\ at' = [at EXCEPT ![c] = "logging"]
  /\ answer' = [answer EXCEPT ![c] = "failed"]
  /\ UNCHANGED <<kind, task, first, monitor, record, finalizer, early>>

Subscribe(s) ==
  /\ kind[s] = "watch" /\ at[s] = "idle" /\ task # "none"
  /\ at' = [at EXCEPT ![s] = "waiting"]
  /\ UNCHANGED <<kind, task, first, answer, monitor, record, finalizer, early>>

\* wait_for_terminal_async: what a look at the task finds may be out of date
\* when the request goes on with it.
Look(c) ==
  /\ at[c] = "waiting"
  /\ at' = [at EXCEPT ![c] = IF Ended(task) THEN "replying" ELSE "unsettled"]
  /\ UNCHANGED <<kind, task, first, answer, monitor, record, finalizer, early>>

\* Another look: the waiter was notified or the fallback poll is due.
LookAgain(c) ==
  /\ at[c] = "unsettled"
  /\ at' = [at EXCEPT ![c] = "waiting"]
  /\ UNCHANGED <<kind, task, first, answer, monitor, record, finalizer, early>>

\* The wait runs out: the call tells the client that the task goes on.
GiveUp(c) ==
  /\ c \in ProtocolCalls /\ at[c] = "unsettled"
  /\ answer' = [answer EXCEPT ![c] = "pending"]
  /\ at' = [at EXCEPT ![c] = "logging"]
  /\ UNCHANGED <<kind, task, first, monitor, record, finalizer, early>>

\* The reply is made from the task's results; results that cannot be used
\* make it an error.
Results == {task, "failed"}

Reply(c) ==
  /\ c \in ProtocolCalls /\ at[c] = "replying"
  /\ \E r \in Results : answer' = [answer EXCEPT ![c] = r]
  /\ at' = [at EXCEPT ![c] = "logging"]
  /\ UNCHANGED <<kind, task, first, monitor, record, finalizer, early>>

\* A client that closes its stream before the result has come: the generator
\* is closed and logs the status it has, or was never started.
Leave(c) ==
  /\ kind[c] = "stream" /\ at[c] \in {"waiting", "unsettled", "replying"}
  /\ \/ /\ at' = [at EXCEPT ![c] = "logging"]
        /\ answer' = [answer EXCEPT ![c] = "success"]
     \/ at' = [at EXCEPT ![c] = "ended"] /\ UNCHANGED answer
  /\ UNCHANGED <<kind, task, first, monitor, record, finalizer, early>>

Watch(s) ==
  /\ kind[s] = "watch"
  /\ \/ at[s] = "replying" /\ answer' = [answer EXCEPT ![s] = task]
     \/ at[s] = "unsettled" /\ answer' = [answer EXCEPT ![s] = "pending"]
  /\ at' = [at EXCEPT ![s] = "ended"]
  /\ UNCHANGED <<kind, task, first, monitor, record, finalizer, early>>

---------------------------------------------------------------------------
\* The two stores.

\* finish: the active record of the call, its completed one, or a new one.
\* A pending call counts as failed: only five outcomes are told apart.
Finish(c, outcome) ==
  monitor' = [monitor EXCEPT ![c] = IF outcome \in Outcomes THEN outcome ELSE "failed"]

LogMonitor(c) ==
  /\ at[c] = "logging"
  /\ at' = [at EXCEPT ![c] = "recording"]
  /\ Finish(c, answer[c])
  /\ UNCHANGED <<kind, task, first, answer, record, finalizer, early>>

\* The record names the task when the reply does: a queued call and a result
\* do, an error, a call that gave up and a stream do not.
Tied(c) == \/ c \in TaskCalls /\ answer[c] = "queued"
           \/ kind[c] = "document" /\ answer[c] = "success"

\* Mutant: a queued call is not looked up again after it was logged.
LogsOnly(c) ==
  /\ at[c] = "recording"
  /\ record' = [record EXCEPT ![c] = [shown |-> answer[c], tied |-> Tied(c)]]
  /\ early' = IF Ended(task) THEN early ELSE early \cup {c}
  /\ at' = [at EXCEPT ![c] = "ended"]
  /\ UNCHANGED <<kind, task, first, answer, monitor, finalizer>>

\* A queued call looks at the task once more: it may have ended before there
\* was a record.
AddRecord(c) ==
  /\ at[c] = "recording"
  /\ record' = [record EXCEPT ![c] = [shown |-> answer[c], tied |-> Tied(c)]]
  /\ early' = IF Ended(task) THEN early ELSE early \cup {c}
  /\ at' = [at EXCEPT ![c] = "ended"]
  /\ IF answer[c] = "queued"
       THEN finalizer' = [finalizer EXCEPT ![c].at = "called"]
       ELSE UNCHANGED finalizer
  /\ UNCHANGED <<kind, task, first, answer, monitor>>

---------------------------------------------------------------------------
\* The end of the task.

\* The row ends; the worker's callback follows.
EndTask ==
  /\ task = "active"
  /\ task' \in Outcomes
  /\ finalizer' = [finalizer EXCEPT ![Worker].at = "called"]
  /\ UNCHANGED <<kind, first, at, answer, monitor, record, early>>

\* The call a finalizer is about: the request's own or that of the task.
Target(f) == IF f = Worker THEN first ELSE f

ReadTask(f) ==
  /\ finalizer[f].at = "called"
  /\ finalizer' = [finalizer EXCEPT ![f].at = IF Ended(task) THEN "read" ELSE "idle"]
  /\ UNCHANGED <<kind, task, first, at, answer, monitor, record, early>>

FinishMonitor(f) ==
  /\ finalizer[f].at = "read"
  /\ Finish(Target(f), task)
  /\ finalizer' = [finalizer EXCEPT ![f].at = "monitored"]
  /\ UNCHANGED <<kind, task, first, at, answer, record, early>>

OfTask == {c \in Calls : record[c].tied}
OfCall(c) == {d \in {c} : record[d] # NoRecord}

\* The records of the task, or that of the call when the task has none.
FindRecords(f) ==
  /\ finalizer[f].at = "monitored"
  /\ finalizer' = [finalizer EXCEPT
       ![f] = [at |-> "writing",
               found |-> IF OfTask # {} THEN OfTask ELSE OfCall(Target(f))]]
  /\ UNCHANGED <<kind, task, first, at, answer, monitor, record, early>>

RecordFinalized(c) == record' = [record EXCEPT ![c] = [shown |-> task, tied |-> TRUE]]

WriteRecord(f) ==
  /\ finalizer[f].at = "writing"
  /\ \/ \E c \in finalizer[f].found :
          /\ RecordFinalized(c)
          /\ finalizer' = [finalizer EXCEPT ![f].found = @ \ {c}]
     \/ /\ finalizer[f].found = {}
        /\ finalizer' = [finalizer EXCEPT ![f] = FinalizerAtRest]
        /\ UNCHANGED record
  /\ UNCHANGED <<kind, task, first, at, answer, monitor, early>>

CallsNext ==
  \/ \E c \in Calls :
       \/ RequestCall(c) \/ StageEvent(c) \/ SubmitTask(c) \/ SubmitProtocol(c) \/ Refused(c)
       \/ Subscribe(c) \/ Look(c) \/ LookAgain(c) \/ GiveUp(c) \/ Reply(c) \/ Leave(c)
       \/ Watch(c) \/ LogMonitor(c) \/ AddRecord(c)
  \/ EndTask
  \/ \E f \in Calls \cup {Worker} :
       ReadTask(f) \/ FinishMonitor(f) \/ FindRecords(f) \/ WriteRecord(f)

CallsSpec == CallsInit /\ [][CallsNext]_callVars

---------------------------------------------------------------------------
Settled ==
  /\ Ended(task)
  /\ \A c \in Calls : at[c] \in {"idle", "ended"}
  /\ \A f \in Calls \cup {Worker} : finalizer[f] = FinalizerAtRest

\* The record of a queued call shows how the task ended, and so does the
\* monitor if it submitted the task, whichever was first: the task's end or
\* the record (finalize_call_record).
QueuedCallsAreFinalized ==
  \A c \in TaskCalls : at[c] = "ended" /\ answer[c] = "queued" =>
    record[c].shown = task /\ (c = first => monitor[c] = task)

\* A call that gave up and was logged while the task went on is brought up to
\* date when the task ends, provided that it submitted the task and no other
\* record names it (finalize_call after finalize_task found nothing).
LateResultsReachTheCall ==
  \A c \in early :
    /\ c = first /\ answer[c] = "pending" => monitor[c] = task
    /\ /\ c = first /\ answer[c] = "pending"
       /\ \A d \in Calls \ {c} : ~record[d].tied
       => record[c].shown = task

\* No request that has ended and was logged is still shown as running, nor
\* does a subscriber hear of an end that is not the task's.
EndsAreSeen ==
  /\ \A c \in Calls : record[c] # NoRecord => monitor[c] \notin {"submitted", "working"}
  /\ \A s \in Calls : kind[s] = "watch" => answer[s] \in {"none", "pending", task}

\* When the requests and callbacks have come to rest, the records and the
\* monitor agree with the task (image_task_service.py
\* _finalize_call_record_for_task, api/image_tasks.py
\* _finalize_task_call_record).
CallsAgree ==
  /\ EndsAreSeen
  /\ Settled => QueuedCallsAreFinalized /\ LateResultsReachTheCall
=============================================================================
