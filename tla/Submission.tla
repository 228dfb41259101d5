----------------------------- MODULE Submission -----------------------------
(***************************************************************************)
(* The submission of image tasks of one owner: image_task_service._submit, *)
(* repository.enqueue_task on PostgreSQL, the input files written before   *)
(* the task exists, and the sweep that removes files without a row.        *)
(*                                                                         *)
(* An HTTP request is a submission; the task it creates has its name.      *)
(* enqueue_task locks identifiers one at a time, in sorted order, and      *)
(* holds them to the end of its transaction.  Every read outside that      *)
(* transaction is a transaction of its own.  Identifiers are numbers so    *)
(* that they can be sorted; the lock of the backlog is one more lock.      *)
(***************************************************************************)
EXTENDS Naturals, FiniteSets

CONSTANTS
  Submissions,     \* HTTP requests that submit a task
  Identifiers,     \* positive numbers that stand for keys and client task ids
  IdempotencyKey,  \* submission -> its key
  ClientTaskId,    \* submission -> its client_task_id
  RequestHash,     \* submission -> hash of what it asks for
  MaxBacklog       \* tasks that may wait at a time

NoTask == "none"
BacklogLock == 0

ASSUME SubmissionAssumption ==
  /\ IsFiniteSet(Submissions) /\ NoTask \notin Submissions
  /\ Identifiers \subseteq Nat \ {BacklogLock}
  /\ IdempotencyKey \in [Submissions -> Identifiers]
  /\ ClientTaskId \in [Submissions -> Identifiers]
  /\ MaxBacklog \in Nat \ {0}

Locks == Identifiers \cup {BacklogLock}

VARIABLES
  progress,    \* where each submission is
  lockHolder,  \* advisory lock -> the submission that holds it
  rows,        \* committed tasks
  aliases,     \* committed idempotency aliases, <<key, task>>
  waiting,     \* tasks that were not started yet
  answer,      \* the task each submission was answered with
  inputFiles,  \* submissions whose input files are on disk
  agedFiles,   \* those whose files are older than the retention
  orphans      \* what a pass of the sweep has still to delete

submissionVars ==
  <<progress, lockHolder, rows, aliases, waiting, answer, inputFiles, agedFiles,
    orphans>>

Ended == {"found", "answered", "conflict", "refused", "failed", "dead"}
InTransaction == {"locking", "counting", "committing"}
HoldsFiles == {"persisted"} \cup InTransaction

IdentifiersOf(r) == {IdempotencyKey[r], ClientTaskId[r]}

SubmissionTypeOK ==
  /\ progress \in [Submissions -> {"new", "unmatched", "admitted", "replayed",
                                   "aborted"} \cup HoldsFiles \cup Ended]
  /\ lockHolder \in [Locks -> Submissions \cup {NoTask}]
  /\ rows \subseteq Submissions
  /\ aliases \subseteq Identifiers \X rows
  /\ waiting \subseteq rows
  /\ answer \in [Submissions -> rows \cup {NoTask}]
  /\ inputFiles \subseteq Submissions
  /\ agedFiles \subseteq inputFiles
  /\ orphans \subseteq Submissions

SubmissionInit ==
  /\ progress = [r \in Submissions |-> "new"]
  /\ lockHolder = [l \in Locks |-> NoTask]
  /\ rows = {}
  /\ aliases = {}
  /\ waiting = {}
  /\ answer = [r \in Submissions |-> NoTask]
  /\ inputFiles = {}
  /\ agedFiles = {}
  /\ orphans = {}

Advance(r, p) == progress' = [progress EXCEPT ![r] = p]
DatabaseUnchanged == UNCHANGED <<rows, aliases, waiting>>
FilesUnchanged == UNCHANGED <<inputFiles, agedFiles, orphans>>

-----------------------------------------------------------------------------
(* Lookups *)

Named(i) == {t \in rows : i \in IdentifiersOf(t)}
Aliased(i) == {t \in rows : <<i, t>> \in aliases}

\* get_task_by_idempotency_key: rows with that key, else its alias.
ByKey(k) ==
  LET own == {t \in rows : IdempotencyKey[t] = k} IN
  IF own # {} THEN own ELSE Aliased(k)

\* _find_task: rows that carry the id in either column, else an alias.
ByClientId(c) == IF Named(c) # {} THEN Named(c) ELSE Aliased(c)

\* _find_existing_idempotent_task: two lookups, and the one by the key may have
\* been made before its task was there.
FoundBefore(r, early) ==
  (IF early THEN {} ELSE ByKey(IdempotencyKey[r])) \cup ByClientId(ClientTaskId[r])

\* _matching_existing_task: any task that either identifier names.
MatchingTasks(r) == UNION {Named(i) \cup Aliased(i) : i \in IdentifiersOf(r)}

Conflicting(r, T) ==
  Cardinality(T) > 1 \/ \E t \in T : RequestHash[t] # RequestHash[r]

-----------------------------------------------------------------------------
(* _submit, before the transaction of enqueue_task *)

FindExisting(r) ==
  /\ progress[r] = "new"
  /\ \E early \in BOOLEAN :
       LET found == FoundBefore(r, early) IN
       \/ found = {} /\ Advance(r, "unmatched") /\ UNCHANGED answer
       \/ found # {} /\ Conflicting(r, found) /\ Advance(r, "conflict")
          /\ UNCHANGED answer
       \/ /\ found # {} /\ ~Conflicting(r, found)
          /\ Advance(r, "found")
          /\ \E t \in found : answer' = [answer EXCEPT ![r] = t]
  /\ DatabaseUnchanged /\ FilesUnchanged /\ UNCHANGED lockHolder

BacklogFull == Cardinality(waiting) >= MaxBacklog

\* _ensure_backlog_capacity, an early answer without a lock.
EnsureCapacity(r) ==
  /\ progress[r] = "unmatched"
  /\ Advance(r, IF BacklogFull THEN "refused" ELSE "admitted")
  /\ DatabaseUnchanged /\ FilesUnchanged /\ UNCHANGED <<lockHolder, answer>>

\* The queue is not running, or _ensure_submission_capacity finds a gate
\* closed: before anything is done, before the files, or after them.
Refuse(r) ==
  /\ progress[r] \in {"new", "unmatched", "persisted"}
  /\ Advance(r, IF progress[r] = "persisted" THEN "aborted" ELSE "refused")
  /\ DatabaseUnchanged /\ FilesUnchanged /\ UNCHANGED <<lockHolder, answer>>

\* _persist_unlocked: the file, or what was there before when a step failed.
PersistUnlocked(r, ok) == inputFiles' = IF ok THEN inputFiles \cup {r} ELSE inputFiles

\* The files are written before the row; a failure removes them again.
PersistInputs(r) ==
  /\ progress[r] = "admitted"
  /\ \E ok \in BOOLEAN :
       PersistUnlocked(r, ok) /\ Advance(r, IF ok THEN "persisted" ELSE "failed")
  /\ DatabaseUnchanged /\ UNCHANGED <<lockHolder, answer, agedFiles, orphans>>

-----------------------------------------------------------------------------
(* enqueue_task: one transaction *)

Free(l) == lockHolder[l] = NoTask
Missing(r) == {i \in IdentifiersOf(r) : lockHolder[i] # r}

\* Mutant: identifiers are locked in the order of the request.
NextInRequest(r) ==
  IF IdempotencyKey[r] \in Missing(r) THEN IdempotencyKey[r] ELSE ClientTaskId[r]

\* _lock_identifier_namespace locks in sorted order.
NextIdentifier(r) == CHOOSE i \in Missing(r) : \A k \in Missing(r) : i <= k

LockIdentifier(r) ==
  /\ progress[r] \in {"persisted", "locking"}
  /\ Missing(r) # {}
  /\ Free(NextIdentifier(r))
  /\ lockHolder' = [lockHolder EXCEPT ![NextIdentifier(r)] = r]
  /\ Advance(r, "locking")
  /\ DatabaseUnchanged /\ FilesUnchanged /\ UNCHANGED answer

Locked(r) == progress[r] = "locking" /\ Missing(r) = {}
Released(r) == [l \in Locks |-> IF lockHolder[l] = r THEN NoTask ELSE lockHolder[l]]

\* The transaction ends by a rollback; the input files are discarded next.
Abort(r) ==
  /\ Advance(r, "aborted")
  /\ lockHolder' = Released(r)
  /\ DatabaseUnchanged /\ FilesUnchanged /\ UNCHANGED answer

\* _bind_idempotency_alias
BoundAlias(r, t) ==
  IF IdempotencyKey[r] \in IdentifiersOf(t) THEN aliases
  ELSE aliases \cup {<<IdempotencyKey[r], t>>}

\* A task was created since the first look: it is the answer.
ReplayExisting(r) ==
  /\ Locked(r)
  /\ \E t \in MatchingTasks(r) :
       /\ ~Conflicting(r, MatchingTasks(r))
       /\ aliases' = BoundAlias(r, t)
       /\ answer' = [answer EXCEPT ![r] = t]
  /\ lockHolder' = Released(r)
  /\ Advance(r, "replayed")
  /\ FilesUnchanged /\ UNCHANGED <<rows, waiting>>

ConflictInside(r) ==
  /\ Locked(r)
  /\ MatchingTasks(r) # {} /\ Conflicting(r, MatchingTasks(r))
  /\ Abort(r)

\* Mutant: the waiting tasks are counted without a lock.
CountedUnlocked(r) == lockHolder

BacklogLocked(r) == [lockHolder EXCEPT ![BacklogLock] = r]

LockBacklog(r) ==
  /\ Locked(r)
  /\ MatchingTasks(r) = {}
  /\ Free(BacklogLock)
  /\ lockHolder' = BacklogLocked(r)
  /\ Advance(r, "counting")
  /\ DatabaseUnchanged /\ FilesUnchanged /\ UNCHANGED answer

\* The insert reads the input files into the row: it fails without them.
CountBacklog(r) ==
  /\ progress[r] = "counting"
  /\ \/ /\ ~BacklogFull /\ r \in inputFiles
        /\ Advance(r, "committing")
        /\ DatabaseUnchanged /\ FilesUnchanged /\ UNCHANGED <<lockHolder, answer>>
     \/ BacklogFull /\ Abort(r)

\* The commit, whose acknowledgement may be lost: the caller then discards
\* the files of a task that exists (its row has their content).
CommitTask(r) ==
  /\ progress[r] = "committing"
  /\ rows' = rows \cup {r}
  /\ waiting' = waiting \cup {r}
  /\ lockHolder' = Released(r)
  /\ \/ Advance(r, "answered") /\ answer' = [answer EXCEPT ![r] = r]
     \/ Advance(r, "aborted") /\ UNCHANGED answer
  /\ FilesUnchanged /\ UNCHANGED aliases

\* _submit discards the files of a replay and of a failed transaction.
DiscardInputs(r) ==
  /\ progress[r] \in {"replayed", "aborted"}
  /\ Advance(r, IF progress[r] = "replayed" THEN "answered" ELSE "failed")
  /\ inputFiles' = inputFiles \ {r}
  /\ agedFiles' = agedFiles \ {r}
  /\ DatabaseUnchanged /\ UNCHANGED <<lockHolder, answer, orphans>>

-----------------------------------------------------------------------------
(* The worker and the sweep *)

\* A worker claims the first job of a task: it leaves the backlog.
StartTask(t) ==
  /\ t \in waiting
  /\ waiting' = waiting \ {t}
  /\ FilesUnchanged /\ UNCHANGED <<progress, lockHolder, rows, aliases, answer>>

OrphanFiles == agedFiles \ rows

\* cleanup_orphan_input_artifacts: the known paths and the age limit are
\* read, then files are removed one by one.  No hour passes in between.
ListOrphans ==
  /\ orphans = {}
  /\ OrphanFiles # {}
  /\ orphans' = OrphanFiles
  /\ DatabaseUnchanged
  /\ UNCHANGED <<progress, lockHolder, answer, inputFiles, agedFiles>>

RemoveOrphan(r) ==
  /\ r \in orphans
  /\ orphans' = orphans \ {r}
  /\ inputFiles' = inputFiles \ {r}
  /\ agedFiles' = agedFiles \ {r}
  /\ DatabaseUnchanged /\ UNCHANGED <<progress, lockHolder, answer>>

\* A file gets older than the retention, an hour, after its request ended.
FileAges(r) ==
  /\ r \in inputFiles \ agedFiles
  /\ progress[r] \in Ended
  /\ agedFiles' = agedFiles \cup {r}
  /\ DatabaseUnchanged
  /\ UNCHANGED <<progress, lockHolder, answer, inputFiles, orphans>>

\* The process dies: the database rolls back and releases the locks.
SubmissionCrash(r) ==
  /\ progress[r] \in {"persisted", "replayed", "aborted"} \cup InTransaction
  /\ Advance(r, "dead")
  /\ lockHolder' = Released(r)
  /\ DatabaseUnchanged /\ FilesUnchanged /\ UNCHANGED answer

Submit(r) ==
  \/ FindExisting(r)
  \/ EnsureCapacity(r)
  \/ Refuse(r)
  \/ PersistInputs(r)
  \/ LockIdentifier(r)
  \/ ReplayExisting(r)
  \/ ConflictInside(r)
  \/ LockBacklog(r)
  \/ CountBacklog(r)
  \/ CommitTask(r)
  \/ DiscardInputs(r)

Sweep(r) == ListOrphans \/ RemoveOrphan(r)

SubmissionNext ==
  \E r \in Submissions :
    Submit(r) \/ SubmissionCrash(r) \/ StartTask(r) \/ Sweep(r) \/ FileAges(r)

SubmissionSpec == SubmissionInit /\ [][SubmissionNext]_submissionVars

-----------------------------------------------------------------------------
(* Properties *)

\* No identifier ever names two tasks, as key, client id or alias, whatever
\* submissions raced for it: a status query or a replay has one answer.
OneTaskPerIdentifier ==
  \A i \in Identifiers : Cardinality(Named(i) \cup Aliased(i)) <= 1

\* The first look, which may miss the key, answers with the task of the client id.
FoundByClientId(s, t) == progress[s] = "new" /\ t \in ByClientId(ClientTaskId[s])

\* Once enqueue_task answered a key, whether it created the task or bound the
\* key to it in a replay, every later submission with that key is answered
\* with that task, with the one its own client id names at the first look, or
\* not at all: no second task is created for the key and no other is replayed.
\* (The exception: the first look reads the key before its task is there, or
\* finds it in no row because it is only the client id of its task.)
KeysKeepTheirTask ==
  [][\A r, s \in Submissions :
       (/\ progress[r] \in {"replayed", "answered"}
        /\ IdempotencyKey[s] = IdempotencyKey[r]
        /\ answer'[s] # answer[s]) =>
          answer'[s] = answer[r] \/ FoundByClientId(s, answer'[s])]_submissionVars

\* Submissions that race at the limit never exceed it.
BacklogWithinLimit == Cardinality(waiting) <= MaxBacklog

\* The sweep and the discards of other submissions leave a submission its
\* files until its insert has read them, and a task that was answered for good.
InputsAreKept ==
  \A r \in Submissions :
    progress[r] \in HoldsFiles \/ answer[r] = r => r \in inputFiles

\* No submissions wait for each other's locks: each that began comes to an end.
SubmissionsEnd == <>[](\A r \in Submissions : progress[r] \in Ended \cup {"new"})

\* Files that no task row names disappear in the end, also those that crashed
\* requests and failed discards left behind.
OrphansVanish == <>[](inputFiles \subseteq rows)

\* One task for each identifier, the same for good, with its files and within
\* the limit, whatever submissions, sweeps and crashes race (enqueue_task).
SubmissionsAreSafe ==
  /\ [](OneTaskPerIdentifier /\ BacklogWithinLimit /\ InputsAreKept)
  /\ KeysKeepTheirTask
=============================================================================
