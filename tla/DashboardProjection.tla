------------------------- MODULE DashboardProjection --------------------------
(***************************************************************************)
(* Call records (services/call_record_service.py and its repository) and   *)
(* the dashboard's projection of them (services/dashboard_metrics_service  *)
(* .py): a record is appended when an image task is accepted and updated   *)
(* in place when the task ends; the projection follows the records by a    *)
(* cursor of generation and sequence, and is rebuilt when the generation   *)
(* is another.  An update rotates the generation, a deletion does not.     *)
(*                                                                         *)
(* All records are inside the projection's 30 days.                        *)
(***************************************************************************)
EXTENDS Naturals, FiniteSets

CONSTANTS
  LoggedCalls,       \* calls that are recorded
  Syncers,     \* processes that keep the projection
  OneWriter,   \* TRUE for SQLite, whose transactions do not overlap
  MaxMishaps   \* bound: synchronisations that fail for another reason, and starts
               \* that find an old schema

ASSUME ProjectionAssumption ==
  OneWriter \in BOOLEAN /\ MaxMishaps \in Nat

VARIABLES
  call,       \* call -> its task, its record, and who still finalizes it
  lastSeq,    \* the last sequence number given out
  generation, \* of the call records
  board,      \* call -> how often, and as what, the hourly rows count it
  state,      \* the state row of the projection
  sync,       \* syncer -> its synchronisation
  distrust,   \* syncers whose last synchronisation failed (_ingest_failed)
  mishaps,
  untaken,    \* history: calls that a checkpoint passed over
  forgotten   \* history: calls that were counted when their record was deleted

projectionVars ==
  <<call, lastSeq, generation, board, state, sync, distrust, mishaps, untaken, forgotten>>
records == <<call, lastSeq, generation>>
view == <<board, state>>

NoRow == [gen |-> 0, seq |-> 0, ready |-> FALSE]
SyncAtRest == [at |-> "rest"]
Uncounted == [n |-> 0, v |-> "none"]
Kept == {c \in LoggedCalls : call[c].record = "kept"}
Top(seqs) == IF seqs = {} THEN 0 ELSE CHOOSE n \in seqs : \A m \in seqs : m <= n
LastKept == Top({call[c].seq : c \in Kept})

ProjectionTypeOK ==
  /\ \A c \in LoggedCalls : /\ call[c].record \in {"none", "writing", "kept", "gone"}
                            /\ call[c].says \in {"queued", "final"}
                            /\ call[c].task \in {"running", "ended", "handled"}
                            /\ call[c].seq <= lastSeq
  /\ state.gen <= generation
  /\ \A s \in Syncers : sync[s].at \in {"rest", "loaded", "aggregated"}

ProjectionInit ==
  /\ call = [c \in LoggedCalls |-> [task |-> "running", record |-> "none", says |-> "queued", seq |-> 0,
                              checked |-> FALSE]]
  /\ lastSeq = 0 /\ generation = 1
  /\ board = [c \in LoggedCalls |-> Uncounted]
  /\ state = NoRow
  /\ sync = [s \in Syncers |-> SyncAtRest]
  /\ distrust = {} /\ mishaps = 0
  /\ untaken = {} /\ forgotten = {}

-----------------------------------------------------------------------------
(* Call records *)

\* append: the insert takes a sequence number ...
AppendInserts(c) ==
  /\ call[c].record = "none"
  /\ OneWriter => \A o \in LoggedCalls : call[o].record # "writing"
  /\ lastSeq' = lastSeq + 1
  /\ call' = [call EXCEPT ![c].record = "writing", ![c].seq = lastSeq + 1]
  /\ UNCHANGED <<generation, view, sync, distrust, mishaps, untaken, forgotten>>

\* ... and the commit shows the row.
AppendCommits(c) ==
  /\ call[c].record = "writing"
  /\ call' = [call EXCEPT ![c].record = "kept"]
  /\ UNCHANGED <<lastSeq, generation, view, sync, distrust, mishaps, untaken, forgotten>>

\* The task of the call ends.
TaskEnds(c) ==
  /\ call[c].task = "running"
  /\ call' = [call EXCEPT ![c].task = "ended"]
  /\ UNCHANGED <<lastSeq, generation, view, sync, distrust, mishaps, untaken, forgotten>>

\* _rotate_generation
Rotated == generation + 1

\* finalize_task and finalize_call of CallRecordService, and update: a record
\* that changes in place rotates the generation.
FinalizedAt(c, mark) ==
  LET changes == call[c].record = "kept" /\ call[c].says = "queued" IN
  /\ call' = [call EXCEPT ![c] = IF changes THEN [mark EXCEPT !.says = "final"] ELSE mark]
  /\ generation' = IF changes THEN Rotated ELSE generation

\* _finalize_call_record_for_task, on the task's state change
FinalizeEndedTask(c) ==
  /\ call[c].task = "ended"
  /\ FinalizedAt(c, [call[c] EXCEPT !.task = "handled"])
  /\ UNCHANGED <<lastSeq, view, sync, distrust, mishaps, untaken, forgotten>>

\* Mutant: the submission does not look at the task again.
SkipsReconcile(c) == FALSE

\* finalize_call_record, after the submission logged the call: the task may have
\* ended before.
ReconcileEnded(c) == call[c].task # "running"

ReconcileCallRecord(c) ==
  /\ call[c].record \in {"kept", "gone"} /\ ~call[c].checked
  /\ LET mark == [call[c] EXCEPT !.checked = TRUE] IN
     IF ReconcileEnded(c) THEN FinalizedAt(c, mark)
     ELSE call' = [call EXCEPT ![c] = mark] /\ UNCHANGED generation
  /\ UNCHANGED <<lastSeq, view, sync, distrust, mishaps, untaken, forgotten>>

\* delete and cleanup_before, which preserve the cursor
DeleteRecord(c) ==
  /\ call[c].record = "kept"
  /\ call' = [call EXCEPT ![c].record = "gone"]
  /\ forgotten' = IF board[c].n > 0 THEN forgotten \cup {c} ELSE forgotten
  /\ UNCHANGED <<lastSeq, generation, view, sync, distrust, mishaps, untaken>>

-----------------------------------------------------------------------------
(* The projection *)

\* reset_schema_if_needed, at a start: the state table alone, or all of it.
ResetSchema(s) ==
  /\ mishaps < MaxMishaps /\ \A o \in Syncers : sync[o] = SyncAtRest
  /\ mishaps' = mishaps + 1
  /\ state' = NoRow
  /\ \/ UNCHANGED <<board, distrust>>
     \/ board' = [c \in LoggedCalls |-> Uncounted] /\ distrust' = distrust \cup {s}
  /\ forgotten' = {}
  /\ UNCHANGED <<records, sync, untaken>>

\* The state row gets another revision: what others loaded is old.
Revised(sy) ==
  [o \in Syncers |-> IF sy[o] = SyncAtRest THEN SyncAtRest
                                          ELSE [sy[o] EXCEPT !.fresh = FALSE]]

\* load_state, and what has to be done.  `tries` counts the attempts.
Load(s, forced, tries) ==
  LET empty == \A c \in LoggedCalls : board[c].n = 0
      mode == IF forced \/ s \in distrust THEN "rebuild"
              ELSE IF state = NoRow THEN IF empty THEN "rebuild" ELSE "checkpoint"
              ELSE IF state.ready THEN "increment" ELSE "rebuild" IN
  sync' = [sync EXCEPT ![s] = [at |-> "loaded", mode |-> mode, tries |-> tries, fresh |-> TRUE,
                               from |-> IF mode = "increment" THEN state.seq ELSE 0,
                               gen |-> IF mode = "increment" THEN state.gen ELSE generation]]

SyncFromLogService(s) ==
  /\ sync[s] = SyncAtRest
  /\ Load(s, FALSE, 0)
  /\ UNCHANGED <<records, view, distrust, mishaps, untaken, forgotten>>

\* mark_degraded: the third attempt in vain, or an error.
Degrade(s) ==
  /\ distrust' = distrust \cup {s}
  /\ state' = [state EXCEPT !.ready = FALSE]
  /\ sync' = Revised([sync EXCEPT ![s] = SyncAtRest])
  /\ UNCHANGED board

\* A conflict tries again; another generation rebuilds.
Again(s, forced) ==
  IF sync[s].tries >= 2 THEN Degrade(s)
  ELSE Load(s, forced, sync[s].tries + 1) /\ UNCHANGED <<view, distrust>>

\* open_window and _aggregate_items: the records behind the cursor.
OpenCallWindow(s) ==
  /\ sync[s].at = "loaded"
  /\ LET y == sync[s]
         end == Top({LastKept, y.from})
         items == IF y.mode = "checkpoint" THEN {} ELSE {c \in Kept : call[c].seq > y.from} IN
     IF y.gen # generation THEN Again(s, TRUE)
     ELSE /\ sync' = [sync EXCEPT ![s] = [at |-> "aggregated", mode |-> y.mode, fresh |-> y.fresh,
                                          gen |-> y.gen, end |-> end, tries |-> y.tries,
                                          says |-> [c \in items |-> call[c].says]]]
          /\ UNCHANGED <<view, distrust>>
  /\ UNCHANGED <<records, mishaps, untaken, forgotten>>

\* _verify_source
SameSource(s) == sync[s].gen = generation

\* _verify_expected_state
SameRevision(s) == sync[s].fresh

\* _write: apply_increment or replace_projection, one transaction.
WriteProjection(s) ==
  /\ sync[s].at = "aggregated"
  /\ LET y == sync[s]
         counted(c) == [n |-> (IF y.mode = "increment" THEN board[c].n ELSE 0) + 1, v |-> y.says[c]]
         next == [gen |-> y.gen, seq |-> y.end, ready |-> TRUE] IN
     IF ~SameRevision(s) THEN Again(s, FALSE) /\ UNCHANGED untaken
     ELSE IF ~SameSource(s) THEN Again(s, TRUE) /\ UNCHANGED untaken
     ELSE /\ board' = [c \in LoggedCalls |->
                         IF c \in DOMAIN y.says THEN counted(c)
                         ELSE IF y.mode = "rebuild" THEN Uncounted ELSE board[c]]
          /\ state' = next
          /\ distrust' = distrust \ {s}
          /\ LET done == [sync EXCEPT ![s] = SyncAtRest] IN
             sync' = IF next = state /\ y.mode # "rebuild" THEN done ELSE Revised(done)
          /\ untaken' = IF y.mode = "checkpoint" THEN {c \in LoggedCalls : call[c].seq <= y.end}
                        ELSE IF y.mode = "rebuild" THEN {} ELSE untaken
  /\ UNCHANGED <<records, mishaps, forgotten>>

\* A synchronisation fails for another reason.
SyncFails(s) ==
  /\ sync[s] # SyncAtRest /\ mishaps < MaxMishaps
  /\ mishaps' = mishaps + 1
  /\ Degrade(s)
  /\ UNCHANGED <<records, untaken, forgotten>>

ProjectionNext ==
  \/ \E c \in LoggedCalls :
       \/ AppendInserts(c) \/ AppendCommits(c) \/ TaskEnds(c)
       \/ FinalizeEndedTask(c) \/ ReconcileCallRecord(c) \/ DeleteRecord(c)
  \/ \E s \in Syncers :
       \/ ResetSchema(s) \/ SyncFromLogService(s) \/ OpenCallWindow(s)
       \/ WriteProjection(s) \/ SyncFails(s)

ProjectionSpec == ProjectionInit /\ [][ProjectionNext]_projectionVars

-----------------------------------------------------------------------------
(* Properties *)

\* While the projection follows the present generation, each call is counted at
\* most once and as what its record says now, and, with one writer, no record
\* behind the cursor is left out but those a checkpoint took for counted
\* (sync_from_log_service, _write, _verify_source).
ProjectionAgrees ==
  (state.ready /\ state.gen = generation) =>
    \A c \in LoggedCalls :
      /\ c \notin untaken => board[c].n <= 1
      /\ c \in Kept /\ board[c].n > 0 /\ c \notin untaken => board[c].v = call[c].says
      /\ OneWriter /\ c \in Kept \ untaken /\ call[c].seq <= state.seq => board[c].n = 1

\* When both the end of the task and the submission have looked, the record of
\* an ended task says so, whichever of them came first
\* (finalize_call_record, _finalize_call_record_for_task).
EndedCallsAreFinal ==
  \A c \in Kept : call[c].task = "handled" /\ call[c].checked => call[c].says = "final"

CallsAreProjected == ProjectionAgrees /\ EndedCallsAreFinal

\* docs/storage-architecture.md:39: what a user or the retention deletes stays
\* counted in the projection that was formed.
DeletionsKeepTheProjection == \A c \in forgotten : board[c].n > 0
=============================================================================
