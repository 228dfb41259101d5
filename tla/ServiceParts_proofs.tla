-------------------------- MODULE ServiceParts_proofs --------------------------
(***************************************************************************)
(* What the services keep to, for every value of the constants: idempotent *)
(* submission, the quota of a user, the imports of accounts, the resource  *)
(* gate and the backups.  One section a component: its inductive invariant, *)
(* one lemma for every action, the safety theorem.  The last section says  *)
(* the same of the instance in which the components are checked together.  *)
(***************************************************************************)
EXTENDS MCServiceParts, FiniteSetTheorems, FunctionTheorems, SequenceTheorems,
        WellFoundedInduction, TLAPS

-----------------------------------------------------------------------------
(* Submissions *)

\* The task t answers to the identifier i, by its own name or by an alias.
Carries(t, i) == i \in IdentifiersOf(t) \/ <<i, t>> \in aliases

\* A submission that counts or commits holds every lock it took.
LocksHeld ==
  \A r \in Submissions : progress[r] \in {"counting", "committing"} =>
    \A i \in IdentifiersOf(r) \cup {BacklogLock} : lockHolder[i] = r

\* While it does, no task carries one of its identifiers.
NothingMatches ==
  \A r \in Submissions : progress[r] \in {"counting", "committing"} =>
    \A t \in rows, i \in IdentifiersOf(r) : ~Carries(t, i)

\* No two tasks carry one identifier.
OneCarrier ==
  \A i \in Identifiers : \A t, u \in rows : Carries(t, i) /\ Carries(u, i) => t = u

\* The submission of a task has left its transaction.
RowsEnded ==
  \A r \in rows : progress[r] \in {"answered", "aborted", "failed", "dead"}

\* Who has an answer has left its transaction as well.
AnswersEnded ==
  \A r \in Submissions : answer[r] # NoTask =>
    progress[r] \in {"found", "replayed", "answered", "dead"}

\* The task enqueue_task answered carries the key it was asked for.
KeysCarried ==
  \A r \in Submissions : progress[r] \in {"replayed", "answered"} =>
    answer[r] \in rows /\ Carries(answer[r], IdempotencyKey[r])

\* The room that was counted is there until the commit.
RoomCounted ==
  \A r \in Submissions : progress[r] = "committing" => ~BacklogFull

\* The sweep has in hand only files of submissions that ended without a task.
OnlyEndedSwept ==
  /\ \A r \in agedFiles : progress[r] \in Ended
  /\ \A r \in orphans : progress[r] \in Ended /\ r \notin rows

SubmissionInv ==
  /\ SubmissionTypeOK
  /\ LocksHeld /\ NothingMatches /\ OneCarrier /\ RowsEnded /\ AnswersEnded
  /\ KeysCarried /\ RoomCounted /\ OnlyEndedSwept
  /\ BacklogWithinLimit /\ InputsAreKept

\* The identifiers of a submission are identifiers, and none is the backlog's.
LEMMA IdentifiersAreLocks ==
  ASSUME NEW r \in Submissions
  PROVE  /\ IdentifiersOf(r) \subseteq Identifiers /\ IdentifiersOf(r) \subseteq Locks
         /\ BacklogLock \in Locks /\ BacklogLock \notin Identifiers
BY SubmissionAssumption DEF IdentifiersOf, Locks

\* What waits is a finite set.
LEMMA WaitingIsFinite ==
  ASSUME SubmissionInv
  PROVE  IsFiniteSet(waiting) /\ Cardinality(waiting) \in Nat
<1>1. waiting \in SUBSET Submissions  BY DEF SubmissionInv, SubmissionTypeOK
<1>2. IsFiniteSet(waiting)  BY <1>1, SubmissionAssumption, FS_Subset
<1> QED  BY <1>2, FS_CardinalityType

\* The first look ends the submission with a task, or leaves the rows to others.
LEMMA FirstLook ==
  ASSUME SubmissionInv, NEW r \in Submissions, FindExisting(r)
  PROVE  /\ progress[r] = "new" /\ r \notin rows
         /\ UNCHANGED <<lockHolder, rows, aliases, waiting, inputFiles, agedFiles, orphans>>
         /\ \/ /\ \E p \in {"unmatched", "conflict"} : progress' = [progress EXCEPT ![r] = p]
               /\ answer' = answer
            \/ /\ progress' = [progress EXCEPT ![r] = "found"]
               /\ \E t \in rows : answer' = [answer EXCEPT ![r] = t]
<1>1. \A e \in BOOLEAN : FoundBefore(r, e) \subseteq rows
  BY DEF FoundBefore, ByKey, ByClientId, Named, Aliased
<1>2. r \notin rows  BY DEF FindExisting, SubmissionInv, RowsEnded
<1>3. PICK e \in BOOLEAN :
        \/ FoundBefore(r, e) = {} /\ Advance(r, "unmatched") /\ UNCHANGED answer
        \/ /\ FoundBefore(r, e) # {} /\ Conflicting(r, FoundBefore(r, e))
           /\ Advance(r, "conflict") /\ UNCHANGED answer
        \/ /\ FoundBefore(r, e) # {} /\ ~Conflicting(r, FoundBefore(r, e))
           /\ Advance(r, "found")
           /\ \E t \in FoundBefore(r, e) : answer' = [answer EXCEPT ![r] = t]
  BY DEF FindExisting
<1>4. \/ (Advance(r, "unmatched") \/ Advance(r, "conflict")) /\ answer' = answer
      \/ Advance(r, "found") /\ \E t \in rows : answer' = [answer EXCEPT ![r] = t]
  BY <1>1, <1>3
<1> QED
  BY <1>2, <1>4 DEF FindExisting, Advance, DatabaseUnchanged, FilesUnchanged

\* A submission looks for its task before it takes a lock, late or not.
LEMMA SubFindExisting ==
  ASSUME SubmissionInv, NEW r \in Submissions, FindExisting(r)
  PROVE  SubmissionInv'
<1>0. /\ progress[r] = "new" /\ r \notin rows
      /\ UNCHANGED <<lockHolder, rows, aliases, waiting, inputFiles, agedFiles, orphans>>
  BY FirstLook
<1>1. PICK p \in {"unmatched", "conflict", "found"} :
        /\ progress' = [progress EXCEPT ![r] = p]
        /\ p # "found" => answer' = answer
        /\ p = "found" => \E t \in rows : answer' = [answer EXCEPT ![r] = t]
  BY FirstLook
<1>2. PICK t : IF p = "found" THEN t \in rows /\ answer' = [answer EXCEPT ![r] = t]
               ELSE t = answer[r] /\ answer' = answer
  BY <1>1
<1>3. /\ progress'[r] = p /\ \A q \in Submissions \ {r} : progress'[q] = progress[q]
      /\ answer'[r] = t /\ \A q \in Submissions \ {r} : answer'[q] = answer[q]
  BY <1>1, <1>2 DEF SubmissionInv, SubmissionTypeOK
<1>4. t # r
  BY <1>0, <1>1, <1>2, SubmissionAssumption DEF SubmissionInv, SubmissionTypeOK, AnswersEnded
<1>5. SubmissionTypeOK'
  <2>1. progress' \in [Submissions -> {"new", "unmatched", "admitted", "replayed",
                                   "aborted"} \cup HoldsFiles \cup Ended]
    BY <1>1 DEF SubmissionInv, SubmissionTypeOK, Ended
  <2>2. answer' \in [Submissions -> rows' \cup {NoTask}]
    BY <1>0, <1>1, <1>2 DEF SubmissionInv, SubmissionTypeOK
  <2> QED  BY <2>1, <2>2, <1>0 DEF SubmissionInv, SubmissionTypeOK
<1>6. LocksHeld'  BY <1>0, <1>1, <1>3 DEF SubmissionInv, LocksHeld
<1>7. NothingMatches'  BY <1>0, <1>1, <1>3 DEF SubmissionInv, NothingMatches, Carries
<1>8. OneCarrier'  BY <1>0 DEF SubmissionInv, OneCarrier, Carries
<1>9. RowsEnded'  BY <1>0, <1>3 DEF SubmissionInv, SubmissionTypeOK, RowsEnded
<1>10. AnswersEnded'
  BY <1>0, <1>1, <1>2, <1>3 DEF SubmissionInv, AnswersEnded
<1>11. KeysCarried'  BY <1>0, <1>1, <1>3 DEF SubmissionInv, KeysCarried, Carries
<1>12. RoomCounted'  BY <1>0, <1>1, <1>3 DEF SubmissionInv, RoomCounted, BacklogFull
<1>13. OnlyEndedSwept'
  BY <1>0, <1>3 DEF SubmissionInv, SubmissionTypeOK, OnlyEndedSwept, Ended
<1>14. BacklogWithinLimit'  BY <1>0 DEF SubmissionInv, BacklogWithinLimit
<1>15. InputsAreKept'
  BY <1>0, <1>1, <1>3, <1>4 DEF SubmissionInv, InputsAreKept, HoldsFiles, InTransaction
<1> QED
  BY <1>5, <1>6, <1>7, <1>8, <1>9, <1>10, <1>11, <1>12, <1>13, <1>14, <1>15 DEF SubmissionInv

\* A submission that found nothing sees whether the backlog has room.
LEMMA SubEnsureCapacity ==
  ASSUME SubmissionInv, NEW r \in Submissions, EnsureCapacity(r)
  PROVE  SubmissionInv'
<1>1. SubmissionTypeOK'
  BY SubmissionAssumption
    DEF SubmissionInv, SubmissionTypeOK, HoldsFiles, InTransaction, Ended, Locks,
        EnsureCapacity, Advance, DatabaseUnchanged, FilesUnchanged
<1>2. LocksHeld'
  BY SubmissionAssumption
    DEF SubmissionInv, LocksHeld, SubmissionTypeOK, HoldsFiles, InTransaction, Ended, Locks,
        EnsureCapacity, Advance, DatabaseUnchanged, FilesUnchanged
<1>3. NothingMatches'
  BY SubmissionAssumption
    DEF SubmissionInv, NothingMatches, SubmissionTypeOK, Carries, IdentifiersOf, HoldsFiles,
        InTransaction, Ended, EnsureCapacity, Advance, DatabaseUnchanged, FilesUnchanged
<1>4. OneCarrier'
  BY SubmissionAssumption
    DEF SubmissionInv, OneCarrier, Carries, EnsureCapacity, Advance, DatabaseUnchanged,
        FilesUnchanged
<1>5. RowsEnded'
  BY SubmissionAssumption
    DEF SubmissionInv, RowsEnded, SubmissionTypeOK, EnsureCapacity, Advance, DatabaseUnchanged,
        FilesUnchanged
<1>6. AnswersEnded'
  BY SubmissionAssumption
    DEF SubmissionInv, AnswersEnded, SubmissionTypeOK, EnsureCapacity, Advance,
        DatabaseUnchanged, FilesUnchanged
<1>7. KeysCarried'
  BY SubmissionAssumption
    DEF SubmissionInv, KeysCarried, SubmissionTypeOK, Carries, EnsureCapacity, Advance,
        DatabaseUnchanged, FilesUnchanged
<1>8. RoomCounted'
  BY SubmissionAssumption
    DEF SubmissionInv, RoomCounted, SubmissionTypeOK, BacklogFull, EnsureCapacity, Advance,
        DatabaseUnchanged, FilesUnchanged
<1>9. OnlyEndedSwept'
  BY SubmissionAssumption
    DEF SubmissionInv, OnlyEndedSwept, SubmissionTypeOK, Ended, EnsureCapacity, Advance,
        DatabaseUnchanged, FilesUnchanged
<1>10. BacklogWithinLimit'
  BY SubmissionAssumption
    DEF SubmissionInv, BacklogWithinLimit, EnsureCapacity, Advance, DatabaseUnchanged,
        FilesUnchanged
<1>11. InputsAreKept'
  BY SubmissionAssumption
    DEF SubmissionInv, InputsAreKept, SubmissionTypeOK, HoldsFiles, InTransaction, Ended,
        EnsureCapacity, Advance, DatabaseUnchanged, FilesUnchanged
<1> QED  BY <1>1, <1>2, <1>3, <1>4, <1>5, <1>6, <1>7, <1>8, <1>9, <1>10, <1>11 DEF SubmissionInv

\* A submission is refused for the backlog.
LEMMA SubRefuse ==
  ASSUME SubmissionInv, NEW r \in Submissions, Refuse(r)
  PROVE  SubmissionInv'
<1>1. SubmissionTypeOK'
  BY SubmissionAssumption
    DEF SubmissionInv, SubmissionTypeOK, HoldsFiles, InTransaction, Ended, Locks, Refuse,
        Advance, DatabaseUnchanged, FilesUnchanged
<1>2. LocksHeld'
  BY SubmissionAssumption
    DEF SubmissionInv, LocksHeld, SubmissionTypeOK, HoldsFiles, InTransaction, Ended, Locks,
        Refuse, Advance, DatabaseUnchanged, FilesUnchanged
<1>3. NothingMatches'
  BY SubmissionAssumption
    DEF SubmissionInv, NothingMatches, SubmissionTypeOK, Carries, IdentifiersOf, HoldsFiles,
        InTransaction, Ended, Refuse, Advance, DatabaseUnchanged, FilesUnchanged
<1>4. OneCarrier'
  BY SubmissionAssumption
    DEF SubmissionInv, OneCarrier, Carries, Refuse, Advance, DatabaseUnchanged, FilesUnchanged
<1>5. RowsEnded'
  BY SubmissionAssumption
    DEF SubmissionInv, RowsEnded, SubmissionTypeOK, Refuse, Advance, DatabaseUnchanged,
        FilesUnchanged
<1>6. AnswersEnded'
  BY SubmissionAssumption
    DEF SubmissionInv, AnswersEnded, SubmissionTypeOK, Refuse, Advance, DatabaseUnchanged,
        FilesUnchanged
<1>7. KeysCarried'
  BY SubmissionAssumption
    DEF SubmissionInv, KeysCarried, SubmissionTypeOK, Carries, Refuse, Advance,
        DatabaseUnchanged, FilesUnchanged
<1>8. RoomCounted'
  BY SubmissionAssumption
    DEF SubmissionInv, RoomCounted, SubmissionTypeOK, BacklogFull, Refuse, Advance,
        DatabaseUnchanged, FilesUnchanged
<1>9. OnlyEndedSwept'
  BY SubmissionAssumption
    DEF SubmissionInv, OnlyEndedSwept, SubmissionTypeOK, Ended, Refuse, Advance,
        DatabaseUnchanged, FilesUnchanged
<1>10. BacklogWithinLimit'
  BY SubmissionAssumption
    DEF SubmissionInv, BacklogWithinLimit, Refuse, Advance, DatabaseUnchanged, FilesUnchanged
<1>11. InputsAreKept'
  BY SubmissionAssumption
    DEF SubmissionInv, InputsAreKept, SubmissionTypeOK, HoldsFiles, InTransaction, Ended,
        Refuse, Advance, DatabaseUnchanged, FilesUnchanged
<1> QED  BY <1>1, <1>2, <1>3, <1>4, <1>5, <1>6, <1>7, <1>8, <1>9, <1>10, <1>11 DEF SubmissionInv

\* The files of a submission are written.
LEMMA SubPersistInputs ==
  ASSUME SubmissionInv, NEW r \in Submissions, PersistInputs(r)
  PROVE  SubmissionInv'
<1>1. SubmissionTypeOK'
  BY SubmissionAssumption
    DEF SubmissionInv, SubmissionTypeOK, HoldsFiles, InTransaction, Ended, Locks, PersistInputs,
        PersistUnlocked, Advance, DatabaseUnchanged
<1>2. LocksHeld'
  BY SubmissionAssumption
    DEF SubmissionInv, LocksHeld, SubmissionTypeOK, HoldsFiles, InTransaction, Ended, Locks,
        PersistInputs, PersistUnlocked, Advance, DatabaseUnchanged
<1>3. NothingMatches'
  BY SubmissionAssumption
    DEF SubmissionInv, NothingMatches, SubmissionTypeOK, Carries, IdentifiersOf, HoldsFiles,
        InTransaction, Ended, PersistInputs, PersistUnlocked, Advance, DatabaseUnchanged
<1>4. OneCarrier'
  BY SubmissionAssumption
    DEF SubmissionInv, OneCarrier, Carries, PersistInputs, PersistUnlocked, Advance,
        DatabaseUnchanged
<1>5. RowsEnded'
  BY SubmissionAssumption
    DEF SubmissionInv, RowsEnded, SubmissionTypeOK, PersistInputs, PersistUnlocked, Advance,
        DatabaseUnchanged
<1>6. AnswersEnded'
  BY SubmissionAssumption
    DEF SubmissionInv, AnswersEnded, SubmissionTypeOK, PersistInputs, PersistUnlocked, Advance,
        DatabaseUnchanged
<1>7. KeysCarried'
  BY SubmissionAssumption
    DEF SubmissionInv, KeysCarried, SubmissionTypeOK, Carries, PersistInputs, PersistUnlocked,
        Advance, DatabaseUnchanged
<1>8. RoomCounted'
  BY SubmissionAssumption
    DEF SubmissionInv, RoomCounted, SubmissionTypeOK, BacklogFull, PersistInputs,
        PersistUnlocked, Advance, DatabaseUnchanged
<1>9. OnlyEndedSwept'
  BY SubmissionAssumption
    DEF SubmissionInv, OnlyEndedSwept, SubmissionTypeOK, Ended, PersistInputs, PersistUnlocked,
        Advance, DatabaseUnchanged
<1>10. BacklogWithinLimit'
  BY SubmissionAssumption
    DEF SubmissionInv, BacklogWithinLimit, PersistInputs, PersistUnlocked, Advance,
        DatabaseUnchanged
<1>11. InputsAreKept'
  BY SubmissionAssumption
    DEF SubmissionInv, InputsAreKept, SubmissionTypeOK, HoldsFiles, InTransaction, Ended,
        PersistInputs, PersistUnlocked, Advance, DatabaseUnchanged
<1> QED  BY <1>1, <1>2, <1>3, <1>4, <1>5, <1>6, <1>7, <1>8, <1>9, <1>10, <1>11 DEF SubmissionInv

\* A submission takes the next of its locks.
LEMMA SubLockIdentifier ==
  ASSUME SubmissionInv, NEW r \in Submissions, LockIdentifier(r)
  PROVE  SubmissionInv'
<1>1. SubmissionTypeOK'
  BY SubmissionAssumption
    DEF SubmissionInv, SubmissionTypeOK, HoldsFiles, InTransaction, Ended, Locks,
        LockIdentifier, Free, Advance, DatabaseUnchanged, FilesUnchanged
<1>2. LocksHeld'
  BY SubmissionAssumption
    DEF SubmissionInv, LocksHeld, SubmissionTypeOK, HoldsFiles, InTransaction, Ended, Locks,
        LockIdentifier, Free, Advance, DatabaseUnchanged, FilesUnchanged
<1>3. NothingMatches'
  BY SubmissionAssumption
    DEF SubmissionInv, NothingMatches, SubmissionTypeOK, Carries, IdentifiersOf, HoldsFiles,
        InTransaction, Ended, LockIdentifier, Free, Advance, DatabaseUnchanged, FilesUnchanged
<1>4. OneCarrier'
  BY SubmissionAssumption
    DEF SubmissionInv, OneCarrier, Carries, LockIdentifier, Free, Advance, DatabaseUnchanged,
        FilesUnchanged
<1>5. RowsEnded'
  BY SubmissionAssumption
    DEF SubmissionInv, RowsEnded, SubmissionTypeOK, LockIdentifier, Free, Advance,
        DatabaseUnchanged, FilesUnchanged
<1>6. AnswersEnded'
  BY SubmissionAssumption
    DEF SubmissionInv, AnswersEnded, SubmissionTypeOK, LockIdentifier, Free, Advance,
        DatabaseUnchanged, FilesUnchanged
<1>7. KeysCarried'
  BY SubmissionAssumption
    DEF SubmissionInv, KeysCarried, SubmissionTypeOK, Carries, LockIdentifier, Free, Advance,
        DatabaseUnchanged, FilesUnchanged
<1>8. RoomCounted'
  BY SubmissionAssumption
    DEF SubmissionInv, RoomCounted, SubmissionTypeOK, BacklogFull, LockIdentifier, Free,
        Advance, DatabaseUnchanged, FilesUnchanged
<1>9. OnlyEndedSwept'
  BY SubmissionAssumption
    DEF SubmissionInv, OnlyEndedSwept, SubmissionTypeOK, Ended, LockIdentifier, Free, Advance,
        DatabaseUnchanged, FilesUnchanged
<1>10. BacklogWithinLimit'
  BY SubmissionAssumption
    DEF SubmissionInv, BacklogWithinLimit, LockIdentifier, Free, Advance, DatabaseUnchanged,
        FilesUnchanged
<1>11. InputsAreKept'
  BY SubmissionAssumption
    DEF SubmissionInv, InputsAreKept, SubmissionTypeOK, HoldsFiles, InTransaction, Ended,
        LockIdentifier, Free, Advance, DatabaseUnchanged, FilesUnchanged
<1> QED  BY <1>1, <1>2, <1>3, <1>4, <1>5, <1>6, <1>7, <1>8, <1>9, <1>10, <1>11 DEF SubmissionInv

\* Under its locks a submission meets a task of another request.
LEMMA SubConflictInside ==
  ASSUME SubmissionInv, NEW r \in Submissions, ConflictInside(r)
  PROVE  SubmissionInv'
<1>1. SubmissionTypeOK'
  BY SubmissionAssumption
    DEF SubmissionInv, SubmissionTypeOK, HoldsFiles, InTransaction, Ended, Locks,
        ConflictInside, Locked, Abort, Released, Advance, DatabaseUnchanged, FilesUnchanged
<1>2. LocksHeld'
  <2> SUFFICES ASSUME NEW q \in Submissions, progress'[q] \in {"counting", "committing"},
                      NEW i \in IdentifiersOf(q) \cup {BacklogLock}
               PROVE  lockHolder'[i] = q
    BY DEF LocksHeld
  <2>1. q # r /\ progress[q] \in {"counting", "committing"}
    BY DEF SubmissionInv, SubmissionTypeOK, ConflictInside, Locked, Abort, Released, Advance
  <2>2. i \in Locks /\ lockHolder[i] = q
    BY <2>1, IdentifiersAreLocks DEF SubmissionInv, LocksHeld
  <2> QED  BY <2>1, <2>2 DEF ConflictInside, Locked, Abort, Released, Advance
<1>3. NothingMatches'
  BY SubmissionAssumption
    DEF SubmissionInv, NothingMatches, SubmissionTypeOK, Carries, IdentifiersOf, HoldsFiles,
        InTransaction, Ended, ConflictInside, Locked, Abort, Released, Advance, DatabaseUnchanged,
        FilesUnchanged
<1>4. OneCarrier'
  BY SubmissionAssumption
    DEF SubmissionInv, OneCarrier, Carries, ConflictInside, Locked, Abort, Released, Advance,
        DatabaseUnchanged, FilesUnchanged
<1>5. RowsEnded'
  BY SubmissionAssumption
    DEF SubmissionInv, RowsEnded, SubmissionTypeOK, ConflictInside, Locked, Abort, Released,
        Advance, DatabaseUnchanged, FilesUnchanged
<1>6. AnswersEnded'
  BY SubmissionAssumption
    DEF SubmissionInv, AnswersEnded, SubmissionTypeOK, ConflictInside, Locked, Abort, Released,
        Advance, DatabaseUnchanged, FilesUnchanged
<1>7. KeysCarried'
  BY SubmissionAssumption
    DEF SubmissionInv, KeysCarried, SubmissionTypeOK, Carries, ConflictInside, Locked, Abort,
        Released, Advance, DatabaseUnchanged, FilesUnchanged
<1>8. RoomCounted'
  BY SubmissionAssumption
    DEF SubmissionInv, RoomCounted, SubmissionTypeOK, BacklogFull, ConflictInside, Locked,
        Abort, Released, Advance, DatabaseUnchanged, FilesUnchanged
<1>9. OnlyEndedSwept'
  BY SubmissionAssumption
    DEF SubmissionInv, OnlyEndedSwept, SubmissionTypeOK, Ended, ConflictInside, Locked, Abort,
        Released, Advance, DatabaseUnchanged, FilesUnchanged
<1>10. BacklogWithinLimit'
  BY SubmissionAssumption
    DEF SubmissionInv, BacklogWithinLimit, ConflictInside, Locked, Abort, Released, Advance,
        DatabaseUnchanged, FilesUnchanged
<1>11. InputsAreKept'
  BY SubmissionAssumption
    DEF SubmissionInv, InputsAreKept, SubmissionTypeOK, HoldsFiles, InTransaction, Ended,
        ConflictInside, Locked, Abort, Released, Advance, DatabaseUnchanged, FilesUnchanged
<1> QED  BY <1>1, <1>2, <1>3, <1>4, <1>5, <1>6, <1>7, <1>8, <1>9, <1>10, <1>11 DEF SubmissionInv

\* A submission takes the lock of the backlog last.
LEMMA SubLockBacklog ==
  ASSUME SubmissionInv, NEW r \in Submissions, LockBacklog(r)
  PROVE  SubmissionInv'
<1>1. SubmissionTypeOK'
  BY SubmissionAssumption
    DEF SubmissionInv, SubmissionTypeOK, HoldsFiles, InTransaction, Ended, Locks, LockBacklog,
        Locked, Missing, BacklogLocked, Free, Advance, DatabaseUnchanged, FilesUnchanged
<1>2. LocksHeld'
  BY SubmissionAssumption
    DEF SubmissionInv, LocksHeld, SubmissionTypeOK, HoldsFiles, InTransaction, Ended, Locks,
        LockBacklog, Locked, Missing, BacklogLocked, Free, Advance, DatabaseUnchanged,
        FilesUnchanged
<1>3. NothingMatches'
  <2>1. \A t \in rows, i \in IdentifiersOf(r) : ~Carries(t, i)
    <3> SUFFICES ASSUME NEW t \in rows, NEW i \in IdentifiersOf(r), Carries(t, i)
                 PROVE  FALSE
      OBVIOUS
    <3>1. t \in Named(i) \cup Aliased(i)  BY DEF Named, Aliased, Carries
    <3> QED  BY <3>1 DEF LockBacklog, MatchingTasks
  <2>2. UNCHANGED <<rows, aliases>> /\ \A q \in Submissions \ {r} : progress'[q] = progress[q]
    BY DEF SubmissionInv, SubmissionTypeOK, LockBacklog, Advance, DatabaseUnchanged
  <2> QED  BY <2>1, <2>2 DEF SubmissionInv, NothingMatches, Carries
<1>4. OneCarrier'
  BY SubmissionAssumption
    DEF SubmissionInv, OneCarrier, Carries, LockBacklog, Locked, Missing, BacklogLocked, Free,
        Advance, DatabaseUnchanged, FilesUnchanged
<1>5. RowsEnded'
  BY SubmissionAssumption
    DEF SubmissionInv, RowsEnded, SubmissionTypeOK, LockBacklog, Locked, Missing, BacklogLocked,
        Free, Advance, DatabaseUnchanged, FilesUnchanged
<1>6. AnswersEnded'
  BY SubmissionAssumption
    DEF SubmissionInv, AnswersEnded, SubmissionTypeOK, LockBacklog, Locked, Missing,
        BacklogLocked, Free, Advance, DatabaseUnchanged, FilesUnchanged
<1>7. KeysCarried'
  BY SubmissionAssumption
    DEF SubmissionInv, KeysCarried, SubmissionTypeOK, Carries, LockBacklog, Locked, Missing,
        BacklogLocked, Free, Advance, DatabaseUnchanged, FilesUnchanged
<1>8. RoomCounted'
  BY SubmissionAssumption
    DEF SubmissionInv, RoomCounted, SubmissionTypeOK, BacklogFull, LockBacklog, Locked, Missing,
        BacklogLocked, Free, Advance, DatabaseUnchanged, FilesUnchanged
<1>9. OnlyEndedSwept'
  BY SubmissionAssumption
    DEF SubmissionInv, OnlyEndedSwept, SubmissionTypeOK, Ended, LockBacklog, Locked, Missing,
        BacklogLocked, Free, Advance, DatabaseUnchanged, FilesUnchanged
<1>10. BacklogWithinLimit'
  BY SubmissionAssumption
    DEF SubmissionInv, BacklogWithinLimit, LockBacklog, Locked, Missing, BacklogLocked, Free,
        Advance, DatabaseUnchanged, FilesUnchanged
<1>11. InputsAreKept'
  BY SubmissionAssumption
    DEF SubmissionInv, InputsAreKept, SubmissionTypeOK, HoldsFiles, InTransaction, Ended,
        LockBacklog, Locked, Missing, BacklogLocked, Free, Advance, DatabaseUnchanged,
        FilesUnchanged
<1> QED  BY <1>1, <1>2, <1>3, <1>4, <1>5, <1>6, <1>7, <1>8, <1>9, <1>10, <1>11 DEF SubmissionInv

\* A submission counts the backlog it has locked.
LEMMA SubCountBacklog ==
  ASSUME SubmissionInv, NEW r \in Submissions, CountBacklog(r)
  PROVE  SubmissionInv'
<1>1. SubmissionTypeOK'
  BY SubmissionAssumption
    DEF SubmissionInv, SubmissionTypeOK, HoldsFiles, InTransaction, Ended, Locks, CountBacklog,
        Abort, Released, Advance, DatabaseUnchanged, FilesUnchanged
<1>2. LocksHeld'
  BY SubmissionAssumption
    DEF SubmissionInv, LocksHeld, SubmissionTypeOK, HoldsFiles, InTransaction, Ended, Locks,
        CountBacklog, Abort, Released, Advance, DatabaseUnchanged, FilesUnchanged
<1>3. NothingMatches'
  BY SubmissionAssumption
    DEF SubmissionInv, NothingMatches, SubmissionTypeOK, Carries, IdentifiersOf, HoldsFiles,
        InTransaction, Ended, CountBacklog, Abort, Released, Advance, DatabaseUnchanged,
        FilesUnchanged
<1>4. OneCarrier'
  BY SubmissionAssumption
    DEF SubmissionInv, OneCarrier, Carries, CountBacklog, Abort, Released, Advance,
        DatabaseUnchanged, FilesUnchanged
<1>5. RowsEnded'
  BY SubmissionAssumption
    DEF SubmissionInv, RowsEnded, SubmissionTypeOK, CountBacklog, Abort, Released, Advance,
        DatabaseUnchanged, FilesUnchanged
<1>6. AnswersEnded'
  BY SubmissionAssumption
    DEF SubmissionInv, AnswersEnded, SubmissionTypeOK, CountBacklog, Abort, Released, Advance,
        DatabaseUnchanged, FilesUnchanged
<1>7. KeysCarried'
  BY SubmissionAssumption
    DEF SubmissionInv, KeysCarried, SubmissionTypeOK, Carries, CountBacklog, Abort, Released,
        Advance, DatabaseUnchanged, FilesUnchanged
<1>8. RoomCounted'
  BY SubmissionAssumption
    DEF SubmissionInv, RoomCounted, SubmissionTypeOK, BacklogFull, CountBacklog, Abort,
        Released, Advance, DatabaseUnchanged, FilesUnchanged
<1>9. OnlyEndedSwept'
  BY SubmissionAssumption
    DEF SubmissionInv, OnlyEndedSwept, SubmissionTypeOK, Ended, CountBacklog, Abort, Released,
        Advance, DatabaseUnchanged, FilesUnchanged
<1>10. BacklogWithinLimit'
  BY SubmissionAssumption
    DEF SubmissionInv, BacklogWithinLimit, CountBacklog, Abort, Released, Advance,
        DatabaseUnchanged, FilesUnchanged
<1>11. InputsAreKept'
  BY SubmissionAssumption
    DEF SubmissionInv, InputsAreKept, SubmissionTypeOK, HoldsFiles, InTransaction, Ended,
        CountBacklog, Abort, Released, Advance, DatabaseUnchanged, FilesUnchanged
<1> QED  BY <1>1, <1>2, <1>3, <1>4, <1>5, <1>6, <1>7, <1>8, <1>9, <1>10, <1>11 DEF SubmissionInv

\* The files of a submission that made no task are discarded.
LEMMA SubDiscardInputs ==
  ASSUME SubmissionInv, NEW r \in Submissions, DiscardInputs(r)
  PROVE  SubmissionInv'
<1>1. SubmissionTypeOK'
  BY SubmissionAssumption
    DEF SubmissionInv, SubmissionTypeOK, HoldsFiles, InTransaction, Ended, Locks, DiscardInputs,
        Advance, DatabaseUnchanged
<1>2. LocksHeld'
  BY SubmissionAssumption
    DEF SubmissionInv, LocksHeld, SubmissionTypeOK, HoldsFiles, InTransaction, Ended, Locks,
        DiscardInputs, Advance, DatabaseUnchanged
<1>3. NothingMatches'
  BY SubmissionAssumption
    DEF SubmissionInv, NothingMatches, SubmissionTypeOK, Carries, IdentifiersOf, HoldsFiles,
        InTransaction, Ended, DiscardInputs, Advance, DatabaseUnchanged
<1>4. OneCarrier'
  BY SubmissionAssumption
    DEF SubmissionInv, OneCarrier, Carries, DiscardInputs, Advance, DatabaseUnchanged
<1>5. RowsEnded'
  BY SubmissionAssumption
    DEF SubmissionInv, RowsEnded, SubmissionTypeOK, DiscardInputs, Advance, DatabaseUnchanged
<1>6. AnswersEnded'
  BY SubmissionAssumption
    DEF SubmissionInv, AnswersEnded, SubmissionTypeOK, DiscardInputs, Advance, DatabaseUnchanged
<1>7. KeysCarried'
  BY SubmissionAssumption
    DEF SubmissionInv, KeysCarried, SubmissionTypeOK, Carries, DiscardInputs, Advance,
        DatabaseUnchanged
<1>8. RoomCounted'
  BY SubmissionAssumption
    DEF SubmissionInv, RoomCounted, SubmissionTypeOK, BacklogFull, DiscardInputs, Advance,
        DatabaseUnchanged
<1>9. OnlyEndedSwept'
  BY SubmissionAssumption
    DEF SubmissionInv, OnlyEndedSwept, SubmissionTypeOK, Ended, DiscardInputs, Advance,
        DatabaseUnchanged
<1>10. BacklogWithinLimit'
  BY SubmissionAssumption
    DEF SubmissionInv, BacklogWithinLimit, DiscardInputs, Advance, DatabaseUnchanged
<1>11. InputsAreKept'
  <2>1. progress[r] \in {"replayed", "aborted"}  BY DEF DiscardInputs
  <2>a. r \notin rows \/ answer[r] = NoTask
    BY <2>1 DEF SubmissionInv, RowsEnded, AnswersEnded
  <2>2. answer[r] # r  BY <2>a, SubmissionAssumption DEF SubmissionInv, SubmissionTypeOK
  <2>3. progress'[r] \notin HoldsFiles
    BY DEF SubmissionInv, SubmissionTypeOK, DiscardInputs, Advance, HoldsFiles, InTransaction
  <2>4. \A q \in Submissions \ {r} : progress'[q] = progress[q]
    BY DEF SubmissionInv, SubmissionTypeOK, DiscardInputs, Advance
  <2> QED  BY <2>2, <2>3, <2>4 DEF SubmissionInv, InputsAreKept, DiscardInputs
<1> QED  BY <1>1, <1>2, <1>3, <1>4, <1>5, <1>6, <1>7, <1>8, <1>9, <1>10, <1>11 DEF SubmissionInv

\* A task leaves the backlog.
LEMMA SubStartTask ==
  ASSUME SubmissionInv, NEW r \in Submissions, StartTask(r)
  PROVE  SubmissionInv'
<1>0. Cardinality(waiting) \in Nat /\ Cardinality(waiting') = Cardinality(waiting) - 1
  BY WaitingIsFinite, FS_RemoveElement DEF StartTask
<1>1. SubmissionTypeOK'
  BY SubmissionAssumption
    DEF SubmissionInv, SubmissionTypeOK, HoldsFiles, InTransaction, Ended, Locks, StartTask,
        FilesUnchanged
<1>2. LocksHeld'
  BY SubmissionAssumption
    DEF SubmissionInv, LocksHeld, SubmissionTypeOK, HoldsFiles, InTransaction, Ended, Locks,
        StartTask, FilesUnchanged
<1>3. NothingMatches'
  BY SubmissionAssumption
    DEF SubmissionInv, NothingMatches, SubmissionTypeOK, Carries, IdentifiersOf, HoldsFiles,
        InTransaction, Ended, StartTask, FilesUnchanged
<1>4. OneCarrier'
  BY SubmissionAssumption DEF SubmissionInv, OneCarrier, Carries, StartTask, FilesUnchanged
<1>5. RowsEnded'
  BY SubmissionAssumption
    DEF SubmissionInv, RowsEnded, SubmissionTypeOK, StartTask, FilesUnchanged
<1>6. AnswersEnded'
  BY SubmissionAssumption
    DEF SubmissionInv, AnswersEnded, SubmissionTypeOK, StartTask, FilesUnchanged
<1>7. KeysCarried'
  BY SubmissionAssumption
    DEF SubmissionInv, KeysCarried, SubmissionTypeOK, Carries, StartTask, FilesUnchanged
<1>8. RoomCounted'
  BY <1>0, SubmissionAssumption DEF SubmissionInv, RoomCounted, BacklogFull, StartTask
<1>9. OnlyEndedSwept'
  BY SubmissionAssumption
    DEF SubmissionInv, OnlyEndedSwept, SubmissionTypeOK, Ended, StartTask, FilesUnchanged
<1>10. BacklogWithinLimit'
  BY <1>0, SubmissionAssumption DEF SubmissionInv, BacklogWithinLimit
<1>11. InputsAreKept'
  BY SubmissionAssumption
    DEF SubmissionInv, InputsAreKept, SubmissionTypeOK, HoldsFiles, InTransaction, Ended,
        StartTask, FilesUnchanged
<1> QED  BY <1>1, <1>2, <1>3, <1>4, <1>5, <1>6, <1>7, <1>8, <1>9, <1>10, <1>11 DEF SubmissionInv

\* The sweep lists the files that no task names.
LEMMA SubListOrphans ==
  ASSUME SubmissionInv, ListOrphans
  PROVE  SubmissionInv'
<1>1. SubmissionTypeOK'
  BY SubmissionAssumption
    DEF SubmissionInv, SubmissionTypeOK, HoldsFiles, InTransaction, Ended, Locks, ListOrphans,
        OrphanFiles, DatabaseUnchanged
<1>2. LocksHeld'
  BY SubmissionAssumption
    DEF SubmissionInv, LocksHeld, SubmissionTypeOK, HoldsFiles, InTransaction, Ended, Locks,
        ListOrphans, OrphanFiles, DatabaseUnchanged
<1>3. NothingMatches'
  BY SubmissionAssumption
    DEF SubmissionInv, NothingMatches, SubmissionTypeOK, Carries, IdentifiersOf, HoldsFiles,
        InTransaction, Ended, ListOrphans, OrphanFiles, DatabaseUnchanged
<1>4. OneCarrier'
  BY SubmissionAssumption
    DEF SubmissionInv, OneCarrier, Carries, ListOrphans, OrphanFiles, DatabaseUnchanged
<1>5. RowsEnded'
  BY SubmissionAssumption
    DEF SubmissionInv, RowsEnded, SubmissionTypeOK, ListOrphans, OrphanFiles, DatabaseUnchanged
<1>6. AnswersEnded'
  BY SubmissionAssumption
    DEF SubmissionInv, AnswersEnded, SubmissionTypeOK, ListOrphans, OrphanFiles,
        DatabaseUnchanged
<1>7. KeysCarried'
  BY SubmissionAssumption
    DEF SubmissionInv, KeysCarried, SubmissionTypeOK, Carries, ListOrphans, OrphanFiles,
        DatabaseUnchanged
<1>8. RoomCounted'
  BY SubmissionAssumption
    DEF SubmissionInv, RoomCounted, SubmissionTypeOK, BacklogFull, ListOrphans, OrphanFiles,
        DatabaseUnchanged
<1>9. OnlyEndedSwept'
  BY SubmissionAssumption
    DEF SubmissionInv, OnlyEndedSwept, SubmissionTypeOK, Ended, ListOrphans, OrphanFiles,
        DatabaseUnchanged
<1>10. BacklogWithinLimit'
  BY SubmissionAssumption
    DEF SubmissionInv, BacklogWithinLimit, ListOrphans, OrphanFiles, DatabaseUnchanged
<1>11. InputsAreKept'
  BY SubmissionAssumption
    DEF SubmissionInv, InputsAreKept, SubmissionTypeOK, HoldsFiles, InTransaction, Ended,
        ListOrphans, OrphanFiles, DatabaseUnchanged
<1> QED  BY <1>1, <1>2, <1>3, <1>4, <1>5, <1>6, <1>7, <1>8, <1>9, <1>10, <1>11 DEF SubmissionInv

\* The sweep removes one of the files it listed.
LEMMA SubRemoveOrphan ==
  ASSUME SubmissionInv, NEW r \in Submissions, RemoveOrphan(r)
  PROVE  SubmissionInv'
<1>1. SubmissionTypeOK'
  BY SubmissionAssumption
    DEF SubmissionInv, SubmissionTypeOK, HoldsFiles, InTransaction, Ended, Locks, RemoveOrphan,
        DatabaseUnchanged
<1>2. LocksHeld'
  BY SubmissionAssumption
    DEF SubmissionInv, LocksHeld, SubmissionTypeOK, HoldsFiles, InTransaction, Ended, Locks,
        RemoveOrphan, DatabaseUnchanged
<1>3. NothingMatches'
  BY SubmissionAssumption
    DEF SubmissionInv, NothingMatches, SubmissionTypeOK, Carries, IdentifiersOf, HoldsFiles,
        InTransaction, Ended, RemoveOrphan, DatabaseUnchanged
<1>4. OneCarrier'
  BY SubmissionAssumption DEF SubmissionInv, OneCarrier, Carries, RemoveOrphan, DatabaseUnchanged
<1>5. RowsEnded'
  BY SubmissionAssumption
    DEF SubmissionInv, RowsEnded, SubmissionTypeOK, RemoveOrphan, DatabaseUnchanged
<1>6. AnswersEnded'
  BY SubmissionAssumption
    DEF SubmissionInv, AnswersEnded, SubmissionTypeOK, RemoveOrphan, DatabaseUnchanged
<1>7. KeysCarried'
  BY SubmissionAssumption
    DEF SubmissionInv, KeysCarried, SubmissionTypeOK, Carries, RemoveOrphan, DatabaseUnchanged
<1>8. RoomCounted'
  BY SubmissionAssumption
    DEF SubmissionInv, RoomCounted, SubmissionTypeOK, BacklogFull, RemoveOrphan,
        DatabaseUnchanged
<1>9. OnlyEndedSwept'
  BY SubmissionAssumption
    DEF SubmissionInv, OnlyEndedSwept, SubmissionTypeOK, Ended, RemoveOrphan, DatabaseUnchanged
<1>10. BacklogWithinLimit'
  BY SubmissionAssumption DEF SubmissionInv, BacklogWithinLimit, RemoveOrphan, DatabaseUnchanged
<1>11. InputsAreKept'
  <2>1. r \in Submissions /\ progress[r] \in Ended /\ r \notin rows /\ r # NoTask
    BY SubmissionAssumption DEF SubmissionInv, OnlyEndedSwept, SubmissionTypeOK, RemoveOrphan
  <2>2. progress[r] \notin HoldsFiles  BY <2>1 DEF Ended, HoldsFiles, InTransaction
  <2>3. answer[r] # r  BY <2>1 DEF SubmissionInv, SubmissionTypeOK
  <2> QED  BY <2>2, <2>3 DEF SubmissionInv, InputsAreKept, RemoveOrphan
<1> QED  BY <1>1, <1>2, <1>3, <1>4, <1>5, <1>6, <1>7, <1>8, <1>9, <1>10, <1>11 DEF SubmissionInv

\* A file becomes old enough for the sweep.
LEMMA SubFileAges ==
  ASSUME SubmissionInv, NEW r \in Submissions, FileAges(r)
  PROVE  SubmissionInv'
<1>1. SubmissionTypeOK'
  BY SubmissionAssumption
    DEF SubmissionInv, SubmissionTypeOK, HoldsFiles, InTransaction, Ended, Locks, FileAges,
        DatabaseUnchanged
<1>2. LocksHeld'
  BY SubmissionAssumption
    DEF SubmissionInv, LocksHeld, SubmissionTypeOK, HoldsFiles, InTransaction, Ended, Locks,
        FileAges, DatabaseUnchanged
<1>3. NothingMatches'
  BY SubmissionAssumption
    DEF SubmissionInv, NothingMatches, SubmissionTypeOK, Carries, IdentifiersOf, HoldsFiles,
        InTransaction, Ended, FileAges, DatabaseUnchanged
<1>4. OneCarrier'
  BY SubmissionAssumption DEF SubmissionInv, OneCarrier, Carries, FileAges, DatabaseUnchanged
<1>5. RowsEnded'
  BY SubmissionAssumption
    DEF SubmissionInv, RowsEnded, SubmissionTypeOK, FileAges, DatabaseUnchanged
<1>6. AnswersEnded'
  BY SubmissionAssumption
    DEF SubmissionInv, AnswersEnded, SubmissionTypeOK, FileAges, DatabaseUnchanged
<1>7. KeysCarried'
  BY SubmissionAssumption
    DEF SubmissionInv, KeysCarried, SubmissionTypeOK, Carries, FileAges, DatabaseUnchanged
<1>8. RoomCounted'
  BY SubmissionAssumption
    DEF SubmissionInv, RoomCounted, SubmissionTypeOK, BacklogFull, FileAges, DatabaseUnchanged
<1>9. OnlyEndedSwept'
  BY SubmissionAssumption
    DEF SubmissionInv, OnlyEndedSwept, SubmissionTypeOK, Ended, FileAges, DatabaseUnchanged
<1>10. BacklogWithinLimit'
  BY SubmissionAssumption DEF SubmissionInv, BacklogWithinLimit, FileAges, DatabaseUnchanged
<1>11. InputsAreKept'
  BY SubmissionAssumption
    DEF SubmissionInv, InputsAreKept, SubmissionTypeOK, HoldsFiles, InTransaction, Ended,
        FileAges, DatabaseUnchanged
<1> QED  BY <1>1, <1>2, <1>3, <1>4, <1>5, <1>6, <1>7, <1>8, <1>9, <1>10, <1>11 DEF SubmissionInv

\* A process dies in the middle of a submission, whose locks are freed.
LEMMA SubSubmissionCrash ==
  ASSUME SubmissionInv, NEW r \in Submissions, SubmissionCrash(r)
  PROVE  SubmissionInv'
<1>1. SubmissionTypeOK'
  BY SubmissionAssumption
    DEF SubmissionInv, SubmissionTypeOK, HoldsFiles, InTransaction, Ended, Locks,
        SubmissionCrash, Released, Advance, DatabaseUnchanged, FilesUnchanged
<1>2. LocksHeld'
  <2> SUFFICES ASSUME NEW q \in Submissions, progress'[q] \in {"counting", "committing"},
                      NEW i \in IdentifiersOf(q) \cup {BacklogLock}
               PROVE  lockHolder'[i] = q
    BY DEF LocksHeld
  <2>1. q # r /\ progress[q] \in {"counting", "committing"}
    BY DEF SubmissionInv, SubmissionTypeOK, SubmissionCrash, Released, Advance
  <2>2. i \in Locks /\ lockHolder[i] = q
    BY <2>1, IdentifiersAreLocks DEF SubmissionInv, LocksHeld
  <2> QED  BY <2>1, <2>2 DEF SubmissionCrash, Released, Advance
<1>3. NothingMatches'
  BY SubmissionAssumption
    DEF SubmissionInv, NothingMatches, SubmissionTypeOK, Carries, IdentifiersOf, HoldsFiles,
        InTransaction, Ended, SubmissionCrash, Released, Advance, DatabaseUnchanged, FilesUnchanged
<1>4. OneCarrier'
  BY SubmissionAssumption
    DEF SubmissionInv, OneCarrier, Carries, SubmissionCrash, Released, Advance,
        DatabaseUnchanged, FilesUnchanged
<1>5. RowsEnded'
  BY SubmissionAssumption
    DEF SubmissionInv, RowsEnded, SubmissionTypeOK, SubmissionCrash, Released, Advance,
        DatabaseUnchanged, FilesUnchanged
<1>6. AnswersEnded'
  BY SubmissionAssumption
    DEF SubmissionInv, AnswersEnded, SubmissionTypeOK, SubmissionCrash, Released, Advance,
        DatabaseUnchanged, FilesUnchanged
<1>7. KeysCarried'
  BY SubmissionAssumption
    DEF SubmissionInv, KeysCarried, SubmissionTypeOK, Carries, SubmissionCrash, Released,
        Advance, DatabaseUnchanged, FilesUnchanged
<1>8. RoomCounted'
  BY SubmissionAssumption
    DEF SubmissionInv, RoomCounted, SubmissionTypeOK, BacklogFull, SubmissionCrash, Released,
        Advance, DatabaseUnchanged, FilesUnchanged
<1>9. OnlyEndedSwept'
  BY SubmissionAssumption
    DEF SubmissionInv, OnlyEndedSwept, SubmissionTypeOK, Ended, SubmissionCrash, Released,
        Advance, DatabaseUnchanged, FilesUnchanged
<1>10. BacklogWithinLimit'
  BY SubmissionAssumption
    DEF SubmissionInv, BacklogWithinLimit, SubmissionCrash, Released, Advance,
        DatabaseUnchanged, FilesUnchanged
<1>11. InputsAreKept'
  BY SubmissionAssumption
    DEF SubmissionInv, InputsAreKept, SubmissionTypeOK, HoldsFiles, InTransaction, Ended,
        SubmissionCrash, Released, Advance, DatabaseUnchanged, FilesUnchanged
<1> QED  BY <1>1, <1>2, <1>3, <1>4, <1>5, <1>6, <1>7, <1>8, <1>9, <1>10, <1>11 DEF SubmissionInv

\* A finite set has at most one element when it has no two.
LEMMA AtMostOne ==
  ASSUME NEW S, IsFiniteSet(S)
  PROVE  /\ (\A x, y \in S : x = y) => Cardinality(S) <= 1
         /\ Cardinality(S) <= 1 => \A x, y \in S : x = y
<1>1. Cardinality(S) \in Nat  BY FS_CardinalityType
<1>2. ASSUME \A x, y \in S : x = y PROVE Cardinality(S) <= 1
  <2>1. CASE S = {}  BY <2>1, FS_EmptySet
  <2>2. CASE S # {}
    <3>1. PICK x \in S : TRUE  BY <2>2
    <3>2. S = {x}  BY <1>2, <3>1
    <3> QED  BY <3>2, FS_Singleton
  <2> QED  BY <2>1, <2>2
<1>3. ASSUME Cardinality(S) <= 1, NEW x \in S, NEW y \in S PROVE x = y
  <2>1. Cardinality(S) # 0  BY FS_EmptySet
  <2>2. Cardinality(S) = 1  BY <1>1, <1>3, <2>1
  <2>3. PICK z : S = {z}  BY <2>2, FS_Singleton
  <2> QED  BY <2>3
<1> QED  BY <1>2, <1>3

\* What a submission finds under its locks is every task that carries one of
\* its identifiers.
LEMMA FoundUnderLocks ==
  ASSUME SubmissionInv, NEW r \in Submissions
  PROVE  /\ IsFiniteSet(MatchingTasks(r)) /\ MatchingTasks(r) \subseteq rows
         /\ \A u \in rows, i \in IdentifiersOf(r) : Carries(u, i) => u \in MatchingTasks(r)
         /\ \A u \in MatchingTasks(r) : \E i \in IdentifiersOf(r) : Carries(u, i)
<1>1. MatchingTasks(r) \subseteq rows  BY DEF MatchingTasks, Named, Aliased
<1>2. MatchingTasks(r) \in SUBSET Submissions
  BY <1>1 DEF SubmissionInv, SubmissionTypeOK
<1>3. IsFiniteSet(MatchingTasks(r))  BY <1>2, SubmissionAssumption, FS_Subset
<1>4. ASSUME NEW u \in rows, NEW i \in IdentifiersOf(r), Carries(u, i)
      PROVE  u \in MatchingTasks(r)
  <2>1. u \in Named(i) \cup Aliased(i)  BY <1>4 DEF Named, Aliased, Carries
  <2> QED  BY <2>1 DEF MatchingTasks
<1>5. ASSUME NEW u \in MatchingTasks(r)
      PROVE  \E i \in IdentifiersOf(r) : Carries(u, i)
  BY DEF MatchingTasks, Named, Aliased, Carries
<1> QED  BY <1>1, <1>3, <1>4, <1>5

\* A replay binds the key to the only task that carries an identifier of it.
LEMMA SubReplayExisting ==
  ASSUME SubmissionInv, NEW r \in Submissions, ReplayExisting(r)
  PROVE  SubmissionInv'
<1> DEFINE k == IdempotencyKey[r]
<1>1. /\ progress[r] = "locking" /\ progress' = [progress EXCEPT ![r] = "replayed"]
      /\ lockHolder' = Released(r)
      /\ UNCHANGED <<rows, waiting, inputFiles, agedFiles, orphans>>
  BY DEF ReplayExisting, Locked, Advance, FilesUnchanged
<1>2. PICK t \in MatchingTasks(r) :
        /\ ~Conflicting(r, MatchingTasks(r))
        /\ aliases' = BoundAlias(r, t) /\ answer' = [answer EXCEPT ![r] = t]
  BY DEF ReplayExisting
<1>3. t \in rows /\ k \in IdentifiersOf(r) /\ k \in Identifiers
  BY FoundUnderLocks, SubmissionAssumption DEF IdentifiersOf
<1>4. \A u \in MatchingTasks(r) : u = t
  <2>1. IsFiniteSet(MatchingTasks(r)) /\ ~(Cardinality(MatchingTasks(r)) > 1)
    BY <1>2, FoundUnderLocks DEF Conflicting
  <2>2. Cardinality(MatchingTasks(r)) \in Nat  BY <2>1, FS_CardinalityType
  <2> QED  BY <2>1, <2>2, AtMostOne
<1>5. \A i \in IdentifiersOf(r) : lockHolder[i] = r
  BY DEF ReplayExisting, Locked, Missing
<1>6. \A u \in rows, i \in Identifiers : Carries(u, i)' <=> Carries(u, i) \/ (u = t /\ i = k)
  BY <1>2, <1>3 DEF Carries, BoundAlias
<1>7. /\ progress'[r] = "replayed" /\ \A q \in Submissions \ {r} : progress'[q] = progress[q]
      /\ answer'[r] = t /\ \A q \in Submissions \ {r} : answer'[q] = answer[q]
  BY <1>1, <1>2 DEF SubmissionInv, SubmissionTypeOK
<1>8. r \notin rows /\ t # r  BY <1>1, <1>3 DEF SubmissionInv, RowsEnded
<1>9. \A q \in Submissions : progress'[q] \in {"counting", "committing"} =>
        q # r /\ progress[q] \in {"counting", "committing"}
  BY <1>7
<1>a. SubmissionTypeOK'
  <2>1. progress' \in [Submissions -> {"new", "unmatched", "admitted", "replayed",
                                   "aborted"} \cup HoldsFiles \cup Ended]
    BY <1>1 DEF SubmissionInv, SubmissionTypeOK
  <2>2. answer' \in [Submissions -> rows' \cup {NoTask}]
    BY <1>1, <1>2, <1>3 DEF SubmissionInv, SubmissionTypeOK
  <2>3. aliases' \subseteq Identifiers \X rows'
    BY <1>1, <1>2, <1>3 DEF SubmissionInv, SubmissionTypeOK, BoundAlias
  <2>4. lockHolder' \in [Locks -> Submissions \cup {NoTask}]
    BY <1>1 DEF SubmissionInv, SubmissionTypeOK, Released
  <2> QED  BY <2>1, <2>2, <2>3, <2>4, <1>1 DEF SubmissionInv, SubmissionTypeOK
<1>b. LocksHeld'
  <2> SUFFICES ASSUME NEW q \in Submissions, progress'[q] \in {"counting", "committing"},
                      NEW i \in IdentifiersOf(q) \cup {BacklogLock}
               PROVE  lockHolder'[i] = q
    BY DEF LocksHeld
  <2>1. i \in Locks /\ lockHolder[i] = q
    BY <1>9, IdentifiersAreLocks DEF SubmissionInv, LocksHeld
  <2> QED  BY <2>1, <1>1, <1>9 DEF Released
<1>c. NothingMatches'
  <2> SUFFICES ASSUME NEW q \in Submissions, progress'[q] \in {"counting", "committing"},
                      NEW u \in rows', NEW i \in IdentifiersOf(q)
               PROVE  ~Carries(u, i)'
    BY DEF NothingMatches
  <2>1. q # r /\ lockHolder[i] = q /\ i \in Identifiers
    BY <1>9, IdentifiersAreLocks DEF SubmissionInv, LocksHeld
  <2>2. i # k  BY <2>1, <1>3, <1>5
  <2>3. ~Carries(u, i)  BY <1>1, <1>9 DEF SubmissionInv, NothingMatches
  <2> QED  BY <2>1, <2>2, <2>3, <1>1, <1>6
<1>d. OneCarrier'
  <2> SUFFICES ASSUME NEW i \in Identifiers, NEW u \in rows', NEW v \in rows',
                      Carries(u, i)', Carries(v, i)'
               PROVE  u = v
    BY DEF OneCarrier
  <2>1. u \in rows /\ v \in rows  BY <1>1
  <2>2. (Carries(u, i) \/ (u = t /\ i = k)) /\ (Carries(v, i) \/ (v = t /\ i = k))
    BY <2>1, <1>6
  <2>3. CASE i = k  BY <2>1, <2>2, <2>3, <1>3, <1>4, FoundUnderLocks
  <2>4. CASE i # k  BY <2>1, <2>2, <2>4 DEF SubmissionInv, OneCarrier
  <2> QED  BY <2>3, <2>4
<1>e. RowsEnded'  BY <1>1, <1>7, <1>8 DEF SubmissionInv, SubmissionTypeOK, RowsEnded
<1>f. AnswersEnded'  BY <1>7 DEF SubmissionInv, AnswersEnded
<1>g. KeysCarried'
  <2> SUFFICES ASSUME NEW q \in Submissions, progress'[q] \in {"replayed", "answered"}
               PROVE  answer'[q] \in rows' /\ Carries(answer[q], IdempotencyKey[q])'
    BY DEF KeysCarried, Carries
  <2>1. CASE q = r
    <3>1. k \in IdentifiersOf(t) \/ <<k, t>> \in aliases'  BY <1>2 DEF BoundAlias
    <3> QED  BY <2>1, <3>1, <1>1, <1>3, <1>7 DEF Carries
  <2>2. CASE q # r
    <3>1. answer[q] \in rows /\ Carries(answer[q], IdempotencyKey[q])
      BY <2>2, <1>7 DEF SubmissionInv, KeysCarried
    <3>2. aliases \subseteq aliases'  BY <1>2 DEF BoundAlias
    <3> QED  BY <2>2, <3>1, <3>2, <1>1, <1>7 DEF Carries
  <2> QED  BY <2>1, <2>2
<1>h. RoomCounted'  BY <1>1, <1>7 DEF SubmissionInv, RoomCounted, BacklogFull
<1>i. OnlyEndedSwept'
  BY <1>1, <1>7 DEF SubmissionInv, SubmissionTypeOK, OnlyEndedSwept, Ended
<1>j. BacklogWithinLimit'  BY <1>1 DEF SubmissionInv, BacklogWithinLimit
<1>k. InputsAreKept'
  BY <1>1, <1>7, <1>8 DEF SubmissionInv, InputsAreKept, HoldsFiles, InTransaction
<1> QED
  BY <1>a, <1>b, <1>c, <1>d, <1>e, <1>f, <1>g, <1>h, <1>i, <1>j, <1>k DEF SubmissionInv

\* A task is inserted under the locks of its identifiers and of the backlog.
LEMMA SubCommitTask ==
  ASSUME SubmissionInv, NEW r \in Submissions, CommitTask(r)
  PROVE  SubmissionInv'
<1>1. /\ progress[r] = "committing"
      /\ rows' = rows \cup {r} /\ waiting' = waiting \cup {r} /\ lockHolder' = Released(r)
      /\ UNCHANGED <<aliases, inputFiles, agedFiles, orphans>>
  BY DEF CommitTask, FilesUnchanged
<1>2. PICK p \in {"answered", "aborted"} :
        /\ progress' = [progress EXCEPT ![r] = p]
        /\ p = "answered" => answer' = [answer EXCEPT ![r] = r]
        /\ p = "aborted" => answer' = answer
  BY DEF CommitTask, Advance
<1>3. PICK t : answer' = [answer EXCEPT ![r] = t] /\ t = IF p = "answered" THEN r ELSE NoTask
  BY <1>1, <1>2 DEF SubmissionInv, SubmissionTypeOK, AnswersEnded
<1>4. /\ progress'[r] = p /\ \A q \in Submissions \ {r} : progress'[q] = progress[q]
      /\ answer'[r] = t /\ \A q \in Submissions \ {r} : answer'[q] = answer[q]
  BY <1>2, <1>3 DEF SubmissionInv, SubmissionTypeOK
<1>5. r \notin rows  BY <1>1 DEF SubmissionInv, RowsEnded
<1>6. \A i : ~(<<i, r>> \in aliases)  BY <1>5 DEF SubmissionInv, SubmissionTypeOK
<1>7. \A i \in IdentifiersOf(r) \cup {BacklogLock} : lockHolder[i] = r
  BY <1>1 DEF SubmissionInv, LocksHeld
<1>8. \A u \in rows, i \in IdentifiersOf(r) : ~Carries(u, i)
  BY <1>1 DEF SubmissionInv, NothingMatches
<1>9. \A q \in Submissions : progress'[q] \in {"counting", "committing"} =>
        q # r /\ progress[q] \in {"counting", "committing"}
  BY <1>2, <1>4
<1>a. SubmissionTypeOK'
  <2>1. progress' \in [Submissions -> {"new", "unmatched", "admitted", "replayed",
                                   "aborted"} \cup HoldsFiles \cup Ended]
    BY <1>2 DEF SubmissionInv, SubmissionTypeOK, Ended
  <2>2. answer' \in [Submissions -> rows' \cup {NoTask}]
    BY <1>1, <1>3 DEF SubmissionInv, SubmissionTypeOK
  <2>3. lockHolder' \in [Locks -> Submissions \cup {NoTask}]
    BY <1>1 DEF SubmissionInv, SubmissionTypeOK, Released
  <2> QED  BY <2>1, <2>2, <2>3, <1>1 DEF SubmissionInv, SubmissionTypeOK
<1>b. LocksHeld'
  <2> SUFFICES ASSUME NEW q \in Submissions, progress'[q] \in {"counting", "committing"},
                      NEW i \in IdentifiersOf(q) \cup {BacklogLock}
               PROVE  lockHolder'[i] = q
    BY DEF LocksHeld
  <2>1. i \in Locks /\ lockHolder[i] = q
    BY <1>9, IdentifiersAreLocks DEF SubmissionInv, LocksHeld
  <2> QED  BY <2>1, <1>1, <1>9 DEF Released
<1>c. NothingMatches'
  <2> SUFFICES ASSUME NEW q \in Submissions, progress'[q] \in {"counting", "committing"},
                      NEW u \in rows', NEW i \in IdentifiersOf(q), Carries(u, i)'
               PROVE  FALSE
    BY DEF NothingMatches
  <2>1. q # r /\ lockHolder[i] = q
    BY <1>9 DEF SubmissionInv, LocksHeld
  <2>2. i \notin IdentifiersOf(r)  BY <2>1, <1>7
  <2>3. Carries(u, i) /\ u # r  BY <2>2, <1>1, <1>6 DEF Carries
  <2> QED  BY <2>3, <1>1, <1>9 DEF SubmissionInv, NothingMatches
<1>d. OneCarrier'
  <2> SUFFICES ASSUME NEW i \in Identifiers, NEW u \in rows', NEW v \in rows',
                      Carries(u, i)', Carries(v, i)'
               PROVE  u = v
    BY DEF OneCarrier
  <2>1. Carries(u, i) /\ Carries(v, i)  BY <1>1 DEF Carries
  <2>2. CASE i \in IdentifiersOf(r)
    <3>1. u \notin rows /\ v \notin rows  BY <2>1, <2>2, <1>8
    <3> QED  BY <3>1, <1>1
  <2>3. CASE i \notin IdentifiersOf(r)
    <3>1. u # r /\ v # r  BY <2>1, <2>3, <1>6 DEF Carries
    <3> QED  BY <3>1, <2>1, <1>1 DEF SubmissionInv, OneCarrier
  <2> QED  BY <2>2, <2>3
<1>e. RowsEnded'  BY <1>1, <1>4 DEF SubmissionInv, SubmissionTypeOK, RowsEnded
<1>f. AnswersEnded'  BY <1>3, <1>4 DEF SubmissionInv, AnswersEnded
<1>g. KeysCarried'
  <2>1. IdempotencyKey[r] \in IdentifiersOf(r)  BY DEF IdentifiersOf
  <2>2. p = "answered" => answer'[r] = r  BY <1>3, <1>4
  <2> QED  BY <2>1, <2>2, <1>1, <1>4 DEF SubmissionInv, KeysCarried, Carries
<1>h. RoomCounted'
  <2>1. \A q \in Submissions : progress[q] \in {"counting", "committing"} => q = r
    BY <1>7 DEF SubmissionInv, LocksHeld
  <2> QED  BY <2>1, <1>9 DEF RoomCounted
<1>i. OnlyEndedSwept'
  <2>1. r \notin agedFiles /\ r \notin orphans
    BY <1>1 DEF SubmissionInv, OnlyEndedSwept, Ended
  <2> QED  BY <2>1, <1>1, <1>4 DEF SubmissionInv, SubmissionTypeOK, OnlyEndedSwept
<1>j. BacklogWithinLimit'
  <2>1. IsFiniteSet(waiting) /\ Cardinality(waiting) \in Nat  BY WaitingIsFinite
  <2>2. Cardinality(waiting) < MaxBacklog
    BY <2>1, <1>1, SubmissionAssumption DEF SubmissionInv, RoomCounted, BacklogFull
  <2>a. Cardinality(waiting \cup {r}) =
          IF r \in waiting THEN Cardinality(waiting) ELSE Cardinality(waiting) + 1
    BY <2>1, FS_AddElement
  <2>3. Cardinality(waiting') <= Cardinality(waiting) + 1  BY <1>1, <2>1, <2>a
  <2>4. Cardinality(waiting') \in Nat
    BY <1>1, <2>1, FS_AddElement, FS_CardinalityType
  <2> QED  BY <2>1, <2>2, <2>3, <2>4, SubmissionAssumption DEF BacklogWithinLimit
<1>k. InputsAreKept'
  <2>1. r \in inputFiles  BY <1>1 DEF SubmissionInv, InputsAreKept, HoldsFiles, InTransaction
  <2> QED  BY <2>1, <1>1, <1>4 DEF SubmissionInv, InputsAreKept, HoldsFiles, InTransaction
<1> QED
  BY <1>a, <1>b, <1>c, <1>d, <1>e, <1>f, <1>g, <1>h, <1>i, <1>j, <1>k DEF SubmissionInv

\* Before the first submission nothing is locked, stored or swept.
LEMMA SubmissionInvInit == SubmissionInit => SubmissionInv
<1> SUFFICES ASSUME SubmissionInit PROVE SubmissionInv
  OBVIOUS
<1>1. SubmissionTypeOK /\ LocksHeld /\ NothingMatches /\ OneCarrier /\ RowsEnded
      /\ AnswersEnded /\ KeysCarried /\ RoomCounted /\ OnlyEndedSwept /\ InputsAreKept
  BY SubmissionAssumption
     DEF SubmissionInit, SubmissionTypeOK, LocksHeld, NothingMatches, OneCarrier, RowsEnded,
         AnswersEnded, KeysCarried, RoomCounted, OnlyEndedSwept, InputsAreKept, HoldsFiles,
         InTransaction, Ended
<1>2. BacklogWithinLimit
  BY FS_EmptySet, SubmissionAssumption DEF SubmissionInit, BacklogWithinLimit
<1> QED  BY <1>1, <1>2 DEF SubmissionInv

\* Every step of the submissions keeps the invariant.
LEMMA SubmissionInvNext == SubmissionInv /\ [SubmissionNext]_submissionVars => SubmissionInv'
<1> SUFFICES ASSUME SubmissionInv, [SubmissionNext]_submissionVars PROVE SubmissionInv'
  OBVIOUS
<1>1. CASE UNCHANGED submissionVars
  BY <1>1 DEF submissionVars, SubmissionInv, SubmissionTypeOK, LocksHeld, NothingMatches,
     OneCarrier, RowsEnded, AnswersEnded, KeysCarried, RoomCounted, OnlyEndedSwept,
     BacklogWithinLimit, InputsAreKept, Carries, BacklogFull
<1>2. ASSUME NEW r \in Submissions, Submit(r) PROVE SubmissionInv'
  BY <1>2, SubFindExisting, SubEnsureCapacity, SubRefuse, SubPersistInputs,
     SubLockIdentifier, SubReplayExisting, SubConflictInside, SubLockBacklog,
     SubCountBacklog, SubCommitTask, SubDiscardInputs
     DEF Submit
<1>3. ASSUME NEW r \in Submissions, Sweep(r) PROVE SubmissionInv'
  BY <1>3, SubListOrphans, SubRemoveOrphan DEF Sweep
<1> QED
  BY <1>1, <1>2, <1>3, SubSubmissionCrash, SubStartTask, SubFileAges DEF SubmissionNext

\* The step property, from the invariant on both sides of the step.
LEMMA KeysStep ==
  ASSUME SubmissionInv, SubmissionInv', SubmissionNext,
         NEW r \in Submissions, NEW s \in Submissions,
         progress[r] \in {"replayed", "answered"},
         IdempotencyKey[s] = IdempotencyKey[r], answer'[s] # answer[s]
  PROVE  answer'[s] = answer[r] \/ FoundByClientId(s, answer'[s])
<1> DEFINE k == IdempotencyKey[r]
<1>1. answer[r] \in rows /\ Carries(answer[r], k) /\ k \in Identifiers
  BY SubmissionAssumption DEF SubmissionInv, KeysCarried
<1>2. \/ FindExisting(s) \/ ReplayExisting(s) \/ CommitTask(s)
  <2>1. PICK q \in Submissions : Submit(q) \/ SubmissionCrash(q) \/ StartTask(q) \/ Sweep(q)
                                 \/ FileAges(q)
    BY DEF SubmissionNext
  <2>2. FindExisting(q) \/ ReplayExisting(q) \/ CommitTask(q)
    BY <2>1 DEF Submit, EnsureCapacity, Refuse, PersistInputs, LockIdentifier, ConflictInside,
       LockBacklog, CountBacklog, DiscardInputs, Abort, SubmissionCrash, StartTask, Sweep,
       ListOrphans, RemoveOrphan, FileAges
  <2>3. \A v \in Submissions \ {q} : answer'[v] = answer[v]
    BY <2>2 DEF FindExisting, ReplayExisting, CommitTask, SubmissionInv, SubmissionTypeOK
  <2> QED  BY <2>2, <2>3
<1>3. CASE FindExisting(s)
  <2>0. PICK e \in BOOLEAN :
          \E t \in FoundBefore(s, e) :
            ~Conflicting(s, FoundBefore(s, e)) /\ answer' = [answer EXCEPT ![s] = t]
    BY <1>3 DEF FindExisting
  <2>1. PICK t \in FoundBefore(s, e) : answer' = [answer EXCEPT ![s] = t]
    BY <2>0
  <2>2. answer'[s] = t /\ progress[s] = "new"
    BY <1>3, <2>1 DEF FindExisting, SubmissionInv, SubmissionTypeOK
  <2>3. CASE t \in ByClientId(ClientTaskId[s])
    BY <2>2, <2>3 DEF FoundByClientId
  <2>4. CASE t \notin ByClientId(ClientTaskId[s])
    <3>1. t \in ByKey(k)  BY <2>1, <2>4 DEF FoundBefore
    <3>2. t \in rows /\ Carries(t, k)  BY <3>1 DEF ByKey, Aliased, Carries, IdentifiersOf
    <3> QED  BY <1>1, <2>2, <3>2 DEF SubmissionInv, OneCarrier
  <2> QED  BY <2>3, <2>4
<1>4. CASE ReplayExisting(s)
  <2>1. PICK t \in MatchingTasks(s) :
          ~Conflicting(s, MatchingTasks(s)) /\ answer' = [answer EXCEPT ![s] = t]
    BY <1>4 DEF ReplayExisting
  <2>2. answer'[s] = t  BY <2>1 DEF SubmissionInv, SubmissionTypeOK
  <2>3. answer[r] \in MatchingTasks(s)
    BY <1>1, FoundUnderLocks DEF IdentifiersOf
  <2>4. IsFiniteSet(MatchingTasks(s)) /\ ~(Cardinality(MatchingTasks(s)) > 1)
    BY <2>1, FoundUnderLocks DEF Conflicting
  <2>5. Cardinality(MatchingTasks(s)) \in Nat  BY <2>4, FS_CardinalityType
  <2> QED  BY <2>1, <2>2, <2>3, <2>4, <2>5, AtMostOne
<1>5. CASE CommitTask(s)
  <2>1. progress[s] = "committing"  BY <1>5 DEF CommitTask
  <2>2. ~Carries(answer[r], k)
    BY <1>1, <2>1 DEF SubmissionInv, NothingMatches, IdentifiersOf
  <2> QED  BY <1>1, <2>2
<1> QED  BY <1>2, <1>3, <1>4, <1>5

\* If no two tasks carry an identifier, at most one is counted for it.
LEMMA OneCarrierCounted == SubmissionInv => OneTaskPerIdentifier
<1> SUFFICES ASSUME SubmissionInv, NEW i \in Identifiers
             PROVE  Cardinality(Named(i) \cup Aliased(i)) <= 1
  BY DEF OneTaskPerIdentifier
<1>1. Named(i) \cup Aliased(i) \in SUBSET Submissions
  BY DEF SubmissionInv, SubmissionTypeOK, Named, Aliased
<1>2. IsFiniteSet(Named(i) \cup Aliased(i))
  BY <1>1, SubmissionAssumption, FS_Subset
<1>3. \A t, u \in Named(i) \cup Aliased(i) : t = u
  BY DEF SubmissionInv, OneCarrier, Carries, Named, Aliased
<1> QED  BY <1>2, <1>3, AtMostOne

\* The inductive invariant of the submissions.
LEMMA SubmissionInvariant == SubmissionSpec => []SubmissionInv
<1> QED  BY SubmissionInvInit, SubmissionInvNext, PTL DEF SubmissionSpec

\* Whatever submissions race for keys and client ids, crash or are swept, each
\* identifier names one task, a key that was answered keeps its task, the limit
\* of the backlog holds and no submission loses its files (enqueue_task,
\* cleanup_orphan_input_artifacts).
THEOREM SubmissionsSafe == SubmissionSpec => SubmissionsAreSafe
<1>1. SubmissionInv => OneTaskPerIdentifier /\ BacklogWithinLimit /\ InputsAreKept
  BY OneCarrierCounted DEF SubmissionInv
<1>2. SubmissionInv /\ SubmissionInv' /\ [SubmissionNext]_submissionVars =>
        [\A r, s \in Submissions :
           (/\ progress[r] \in {"replayed", "answered"}
            /\ IdempotencyKey[s] = IdempotencyKey[r]
            /\ answer'[s] # answer[s]) =>
              answer'[s] = answer[r] \/ FoundByClientId(s, answer'[s])]_submissionVars
  BY KeysStep
<1> QED
  BY <1>1, <1>2, SubmissionInvariant, PTL
    DEF SubmissionSpec, SubmissionsAreSafe, KeysKeepTheirTask

-----------------------------------------------------------------------------
(* The quota of a user *)

FileType == [date: Days, usage: Nat, idem: SUBSET Ids, resv: SUBSET Requests]

\* An identifier is charged with all the identifiers of some request.
ChargesComplete ==
  \A i \in quotaFile.idem : \E s \in Requests :
    i \in KeysOf(s) /\ KeysOf(s) \subseteq quotaFile.idem

\* A request holds a reservation it shares an identifier with, and cancels
\* only its own.
HandlesShare ==
  \A r \in Requests : handle[r].rid # NoReservation =>
    /\ KeysOf(handle[r].rid) \cap KeysOf(r) # {}
    /\ handle[r].rid # r => handle[r].cancelable = FALSE

\* Who was accepted has a task, its own or one it matched.
AcceptedHaveTasks ==
  \A r \in Requests : stage[r] = "accepted" =>
    \E t \in created : KeysOf(t) \cap KeysOf(r) # {}

PastReserve == {"reserved", "accepted", "rejected", "done", "uncommitted"}

\* The file is never ahead of the calendar, nor behind a request that reserved.
DaysInOrder ==
  ~crossed =>
    /\ quotaFile.date <= today
    /\ \A r \in Requests : /\ handle[r].day <= today
                           /\ stage[r] \in PastReserve => handle[r].day <= quotaFile.date

\* The bills of a day are those of the identifiers in its file.
BillsFollowFile ==
  ~crossed => \A d \in Days, i \in Ids :
    /\ bill[d][i] <= 1
    /\ d > quotaFile.date \/ (d = quotaFile.date /\ i \notin quotaFile.idem) => bill[d][i] = 0

\* Until its commit a request that holds nothing is charged, and its own
\* reservation is in the file, charged or expired.
ReservedOrCharged ==
  ~crossed => \A r \in Requests :
    stage[r] \in {"reserved", "accepted"} /\ handle[r].day = quotaFile.date =>
      /\ handle[r].rid = NoReservation => IsCharged(quotaFile, r)
      /\ handle[r].rid = r =>
           r \in quotaFile.resv \/ IsCharged(quotaFile, r) \/ r \in expired

QuotaInv ==
  /\ QuotaTypeOK
  /\ FileWithinLimit /\ ReservationsDisjoint /\ ChargesComplete /\ HandlesShare
  /\ AcceptedHaveTasks /\ ChargesHaveTasks
  /\ DaysInOrder /\ BillsFollowFile /\ ReservedOrCharged
  /\ SuccessIsCharged /\ OwnReservationHolds

-----------------------------------------------------------------------------
(* Units *)

\* The units of one request are as many as it asks for.
LEMMA UnitsOfOne ==
  ASSUME NEW r \in Requests
  PROVE  /\ IsFiniteSet({<<r, i>> : i \in 1..UnitsOf[r]})
         /\ Cardinality({<<r, i>> : i \in 1..UnitsOf[r]}) = UnitsOf[r]
<1> DEFINE S == 1..UnitsOf[r]
           T == {<<r, i>> : i \in 1..UnitsOf[r]}
           f == [i \in S |-> <<r, i>>]
<1>1. UnitsOf[r] \in Nat \ {0}  BY QuotaAssumption
<1>2. IsFiniteSet(S) /\ Cardinality(S) = UnitsOf[r]  BY <1>1, FS_Interval
<1>3. f \in Bijection(S, T)
  <2>1. f \in [S -> T]  OBVIOUS
  <2>2. \A i, j \in S : f[i] = f[j] => i = j  OBVIOUS
  <2>3. \A t \in T : \E i \in S : f[i] = t  OBVIOUS
  <2> QED  BY <2>1, <2>2, <2>3 DEF Bijection, Injection, Surjection, IsInjective
<1>4. ExistsBijection(S, T)  BY <1>3 DEF ExistsBijection
<1> QED  BY <1>2, <1>4, FS_Bijection

\* What a set of reservations holds is finite.
LEMMA PendingIsNat ==
  ASSUME NEW R \in SUBSET Requests
  PROVE  IsFiniteSet(UnitsHeld(R)) /\ Pending(R) \in Nat
<1> DEFINE T == {{<<r, i>> : i \in 1..UnitsOf[r]} : r \in R}
           f == [r \in R |-> {<<r, i>> : i \in 1..UnitsOf[r]}]
<1>1. IsFiniteSet(R)  BY QuotaAssumption, FS_Subset
<1>2. f \in Surjection(R, T)
  <2>1. f \in [R -> T]  OBVIOUS
  <2>2. \A t \in T : \E r \in R : f[r] = t  OBVIOUS
  <2> QED  BY <2>1, <2>2 DEF Surjection
<1>3. IsFiniteSet(T)
  <2> HIDE DEF T, f
  <2> QED  BY <1>1, <1>2, FS_Surjection
<1>4. \A t \in T : IsFiniteSet(t)  BY UnitsOfOne
<1>5. IsFiniteSet(UNION T)
  <2> HIDE DEF T
  <2> QED  BY <1>3, <1>4, FS_UNION
<1>6. UnitsHeld(R) = UNION T  BY DEF UnitsHeld
<1>7. IsFiniteSet(UnitsHeld(R))
  <2> HIDE DEF T
  <2> QED  BY <1>5, <1>6
<1> QED  BY <1>7, FS_CardinalityType DEF Pending

\* No reservation, no pending unit.
LEMMA PendingEmpty == Pending({}) = 0
BY FS_EmptySet DEF Pending, UnitsHeld

\* One reservation more is as many units more.
LEMMA PendingOne ==
  ASSUME NEW r \in Requests
  PROVE  Pending({r}) = UnitsOf[r]
<1>1. UnitsHeld({r}) = {<<r, i>> : i \in 1..UnitsOf[r]}  BY DEF UnitsHeld
<1> QED  BY <1>1, UnitsOfOne DEF Pending

\* Reservations that are not the same hold units of their own.
LEMMA PendingUnion ==
  ASSUME NEW A \in SUBSET Requests, NEW B \in SUBSET Requests, A \cap B = {}
  PROVE  Pending(A \cup B) = Pending(A) + Pending(B)
<1>1. UnitsHeld(A \cup B) = UnitsHeld(A) \cup UnitsHeld(B)  BY DEF UnitsHeld
<1>2. UnitsHeld(A) \cap UnitsHeld(B) = {}  BY DEF UnitsHeld
<1>3. /\ IsFiniteSet(UnitsHeld(A)) /\ IsFiniteSet(UnitsHeld(B))
      /\ Pending(A) \in Nat /\ Pending(B) \in Nat
  BY PendingIsNat
<1>4. Cardinality(UnitsHeld(A) \cup UnitsHeld(B)) =
        Cardinality(UnitsHeld(A)) + Cardinality(UnitsHeld(B))
        - Cardinality(UnitsHeld(A) \cap UnitsHeld(B))
  BY <1>3, FS_Union
<1>5. Cardinality(UnitsHeld(A) \cap UnitsHeld(B)) = 0  BY <1>2, FS_EmptySet
<1>6. Pending(A \cup B) = Cardinality(UnitsHeld(A) \cup UnitsHeld(B))  BY <1>1 DEF Pending
<1>7. Cardinality(UnitsHeld(A)) \in Nat /\ Cardinality(UnitsHeld(B)) \in Nat
  BY <1>3 DEF Pending
<1>8. Cardinality(UnitsHeld(A) \cup UnitsHeld(B)) =
        Cardinality(UnitsHeld(A)) + Cardinality(UnitsHeld(B))
  BY <1>4, <1>5, <1>7
<1> QED  BY <1>6, <1>8 DEF Pending

\* Fewer reservations hold no more units.
LEMMA PendingMonotone ==
  ASSUME NEW B \in SUBSET Requests, NEW A \in SUBSET B
  PROVE  Pending(A) <= Pending(B)
<1>1. A \in SUBSET Requests /\ B \ A \in SUBSET Requests  OBVIOUS
<1>2. Pending(A \cup (B \ A)) = Pending(A) + Pending(B \ A)  BY <1>1, PendingUnion
<1>3. A \cup (B \ A) = B  OBVIOUS
<1>4. Pending(A) \in Nat /\ Pending(B \ A) \in Nat  BY <1>1, PendingIsNat
<1>5. Pending(B) = Pending(A) + Pending(B \ A)  BY <1>2, <1>3, Zenon
<1> QED  BY <1>4, <1>5

\* A reservation that leaves the file takes its units with it.
LEMMA PendingWithout ==
  ASSUME NEW R \in SUBSET Requests, NEW s \in R
  PROVE  Pending(R \ {s}) + UnitsOf[s] = Pending(R)
<1>1. R \ {s} \in SUBSET Requests /\ {s} \in SUBSET Requests /\ (R \ {s}) \cap {s} = {}
  OBVIOUS
<1>2. Pending((R \ {s}) \cup {s}) = Pending(R \ {s}) + Pending({s})  BY <1>1, PendingUnion
<1>3. (R \ {s}) \cup {s} = R  OBVIOUS
<1>4. Pending(R) = Pending(R \ {s}) + Pending({s})  BY <1>2, <1>3, Zenon
<1> QED  BY <1>4, PendingOne

-----------------------------------------------------------------------------
(* The file as it is read *)

\* What _load returns for the day d.
IsLoaded(f, d) ==
  /\ f \in FileType /\ f.date = d
  /\ f.usage + Pending(f.resv) <= Limit
  /\ quotaFile.date = d => /\ f.usage = quotaFile.usage /\ f.idem = quotaFile.idem
                           /\ f.resv = quotaFile.resv \ expired
  /\ quotaFile.date # d => f.usage = 0 /\ f.idem = {} /\ f.resv = {}

\* A file that is loaded is of its day, without what has expired.
LEMMA Loaded ==
  ASSUME QuotaInv, NEW d \in Days
  PROVE  IsLoaded(Load(d), d)
<1>1. quotaFile \in FileType  BY DEF QuotaInv, QuotaTypeOK, FileType
<1>2. CASE quotaFile.date = d
  <2>1. PICK f \in FileType : f = quotaFile  BY <1>1
  <2>2. PICK g : g = [f EXCEPT !.resv = f.resv \ expired]  OBVIOUS
  <2>3. Load(d) = g  BY <1>2, <2>1, <2>2 DEF Load
  <2>4. /\ g.date = f.date /\ g.usage = f.usage /\ g.idem = f.idem
        /\ g.resv = f.resv \ expired /\ g \in FileType
    BY <2>2 DEF FileType
  <2>5. f.resv \in SUBSET Requests /\ f.usage \in Nat  BY DEF FileType
  <2>6. Pending(g.resv) <= Pending(f.resv) /\ Pending(g.resv) \in Nat /\ Pending(f.resv) \in Nat
    <3>1. g.resv \in SUBSET f.resv  BY <2>4
    <3> QED  BY <3>1, <2>5, PendingMonotone, PendingIsNat
  <2>7. f.usage + Pending(f.resv) <= Limit  BY <2>1 DEF QuotaInv, FileWithinLimit
  <2> QED  BY <1>2, <2>1, <2>3, <2>4, <2>5, <2>6, <2>7, QuotaAssumption DEF IsLoaded
<1>3. CASE quotaFile.date # d
  <2>1. PICK g : g = EmptyFile(d)  OBVIOUS
  <2>2. Load(d) = g  BY <1>3, <2>1 DEF Load
  <2>3. g.date = d /\ g.usage = 0 /\ g.idem = {} /\ g.resv = {} /\ g \in FileType
    BY <2>1 DEF EmptyFile, FileType
  <2> QED  BY <1>3, <2>2, <2>3, PendingEmpty, QuotaAssumption DEF IsLoaded
<1> QED  BY <1>2, <1>3

\* A charge, of a file whose reservations do not hold s.
LEMMA ChargedFile ==
  ASSUME NEW f \in FileType, NEW s \in Requests, NEW g, g = ChargeOnce(f, s)
  PROVE  /\ g \in FileType /\ g.date = f.date /\ g.resv = f.resv
         /\ IsCharged(f, s) => g = f
         /\ ~IsCharged(f, s) => /\ g # f /\ g.usage = f.usage + UnitsOf[s]
                                /\ g.idem = f.idem \cup KeysOf(s)
<1>1. KeysOf(s) \in SUBSET Ids /\ UnitsOf[s] \in Nat \ {0}
  BY QuotaAssumption DEF KeysOf
<1>2. CASE IsCharged(f, s)  BY <1>2 DEF ChargeOnce
<1>3. CASE ~IsCharged(f, s)
  <2>1. g = [f EXCEPT !.usage = f.usage + UnitsOf[s], !.idem = f.idem \cup KeysOf(s)]
    BY <1>3 DEF ChargeOnce, Charged
  <2>2. /\ g.date = f.date /\ g.resv = f.resv /\ g.usage = f.usage + UnitsOf[s]
        /\ g.idem = f.idem \cup KeysOf(s)
    BY <2>1 DEF FileType
  <2>a. /\ f.usage \in Nat /\ f.idem \in SUBSET Ids
    BY DEF FileType
  <2>b. f.usage + UnitsOf[s] \in Nat /\ f.idem \cup KeysOf(s) \in SUBSET Ids  BY <2>a, <1>1
  <2>3. g \in FileType  BY <2>1, <2>b DEF FileType
  <2>4. g # f  BY <2>2, <1>1 DEF FileType
  <2> QED  BY <1>3, <2>2, <2>3, <2>4
<1> QED  BY <1>2, <1>3

\* A request reads the day.
LEMMA QuotaReadDay ==
  ASSUME QuotaInv, NEW r \in Requests, ReadDay(r)
  PROVE  QuotaInv'
<1>1. QuotaTypeOK'
  <2>1. stage' \in [Requests -> RequestStages]
    BY DEF QuotaInv, QuotaTypeOK, ReadDay, Become, RequestStages
  <2>2. handle' \in [Requests -> [rid: Requests \cup {NoReservation}, day: Days,
                                 cancelable: BOOLEAN]]
    BY DEF QuotaInv, QuotaTypeOK, ReadDay
  <2> QED
    BY <2>1, <2>2 DEF QuotaInv, QuotaTypeOK, ReadDay, NoBill
<1>2. FileWithinLimit'
  BY QuotaAssumption DEF QuotaInv, FileWithinLimit, ReadDay, Become, NoBill
<1>3. ReservationsDisjoint'
  BY QuotaAssumption DEF QuotaInv, ReservationsDisjoint, ReadDay, Become, NoBill
<1>4. ChargesComplete'
  BY QuotaAssumption DEF QuotaInv, ChargesComplete, ReadDay, Become, NoBill
<1>5. HandlesShare'
  BY QuotaAssumption DEF QuotaInv, HandlesShare, QuotaTypeOK, ReadDay, Become, NoBill
<1>6. AcceptedHaveTasks'
  BY QuotaAssumption DEF QuotaInv, AcceptedHaveTasks, QuotaTypeOK, KeysOf, ReadDay, Become, NoBill
<1>7. ChargesHaveTasks'
  BY QuotaAssumption DEF QuotaInv, ChargesHaveTasks, ReadDay, Become, NoBill
<1>8. DaysInOrder'
  BY QuotaAssumption
    DEF QuotaInv, DaysInOrder, QuotaTypeOK, PastReserve, Days, ReadDay, Become, NoBill
<1>9. BillsFollowFile'
  BY QuotaAssumption DEF QuotaInv, BillsFollowFile, QuotaTypeOK, ReadDay, Become, NoBill
<1>10. ReservedOrCharged'
  BY QuotaAssumption
    DEF QuotaInv, ReservedOrCharged, QuotaTypeOK, IsCharged, ReadDay, Become, NoBill
<1>11. SuccessIsCharged'
  BY QuotaAssumption
    DEF QuotaInv, SuccessIsCharged, QuotaTypeOK, IsCharged, ReadDay, Become, NoBill
<1>12. OwnReservationHolds'
  BY QuotaAssumption DEF QuotaInv, OwnReservationHolds, QuotaTypeOK, ReadDay, Become, NoBill
<1> QED  BY <1>1, <1>2, <1>3, <1>4, <1>5, <1>6, <1>7, <1>8, <1>9, <1>10, <1>11, <1>12 DEF QuotaInv

\* A request is accepted, for its reservation or for a task that is there.
LEMMA QuotaSubmitAccepted ==
  ASSUME QuotaInv, NEW r \in Requests, SubmitAccepted(r)
  PROVE  QuotaInv'
<1>1. QuotaTypeOK'
  BY QuotaAssumption
    DEF QuotaInv, QuotaTypeOK, RequestStages, Days, LiveStages, SubmitAccepted, Matching,
        Become, NoBill
<1>2. FileWithinLimit'
  BY QuotaAssumption DEF QuotaInv, FileWithinLimit, SubmitAccepted, Matching, Become, NoBill
<1>3. ReservationsDisjoint'
  BY QuotaAssumption DEF QuotaInv, ReservationsDisjoint, SubmitAccepted, Matching, Become, NoBill
<1>4. ChargesComplete'
  BY QuotaAssumption DEF QuotaInv, ChargesComplete, SubmitAccepted, Matching, Become, NoBill
<1>5. HandlesShare'
  BY QuotaAssumption
    DEF QuotaInv, HandlesShare, QuotaTypeOK, SubmitAccepted, Matching, Become, NoBill
<1>6. AcceptedHaveTasks'
  BY QuotaAssumption
    DEF QuotaInv, AcceptedHaveTasks, QuotaTypeOK, KeysOf, SubmitAccepted, Matching, Become,
        NoBill
<1>7. ChargesHaveTasks'
  BY QuotaAssumption DEF QuotaInv, ChargesHaveTasks, SubmitAccepted, Matching, Become, NoBill
<1>8. DaysInOrder'
  BY QuotaAssumption
    DEF QuotaInv, DaysInOrder, QuotaTypeOK, PastReserve, Days, SubmitAccepted, Matching, Become,
        NoBill
<1>9. BillsFollowFile'
  BY QuotaAssumption
    DEF QuotaInv, BillsFollowFile, QuotaTypeOK, SubmitAccepted, Matching, Become, NoBill
<1>10. ReservedOrCharged'
  BY QuotaAssumption
    DEF QuotaInv, ReservedOrCharged, QuotaTypeOK, IsCharged, SubmitAccepted, Matching, Become,
        NoBill
<1>11. SuccessIsCharged'
  BY QuotaAssumption
    DEF QuotaInv, SuccessIsCharged, QuotaTypeOK, IsCharged, SubmitAccepted, Matching, Become,
        NoBill
<1>12. OwnReservationHolds'
  BY QuotaAssumption
    DEF QuotaInv, OwnReservationHolds, QuotaTypeOK, SubmitAccepted, Matching, Become, NoBill
<1> QED  BY <1>1, <1>2, <1>3, <1>4, <1>5, <1>6, <1>7, <1>8, <1>9, <1>10, <1>11, <1>12 DEF QuotaInv

\* A request is rejected.
LEMMA QuotaSubmitRejected ==
  ASSUME QuotaInv, NEW r \in Requests, SubmitRejected(r)
  PROVE  QuotaInv'
<1>1. QuotaTypeOK'
  BY QuotaAssumption
    DEF QuotaInv, QuotaTypeOK, RequestStages, Days, LiveStages, SubmitRejected, Become, NoBill
<1>2. FileWithinLimit'
  BY QuotaAssumption DEF QuotaInv, FileWithinLimit, SubmitRejected, Become, NoBill
<1>3. ReservationsDisjoint'
  BY QuotaAssumption DEF QuotaInv, ReservationsDisjoint, SubmitRejected, Become, NoBill
<1>4. ChargesComplete'
  BY QuotaAssumption DEF QuotaInv, ChargesComplete, SubmitRejected, Become, NoBill
<1>5. HandlesShare'
  BY QuotaAssumption DEF QuotaInv, HandlesShare, QuotaTypeOK, SubmitRejected, Become, NoBill
<1>6. AcceptedHaveTasks'
  BY QuotaAssumption
    DEF QuotaInv, AcceptedHaveTasks, QuotaTypeOK, KeysOf, SubmitRejected, Become, NoBill
<1>7. ChargesHaveTasks'
  BY QuotaAssumption DEF QuotaInv, ChargesHaveTasks, SubmitRejected, Become, NoBill
<1>8. DaysInOrder'
  BY QuotaAssumption
    DEF QuotaInv, DaysInOrder, QuotaTypeOK, PastReserve, Days, SubmitRejected, Become, NoBill
<1>9. BillsFollowFile'
  BY QuotaAssumption DEF QuotaInv, BillsFollowFile, QuotaTypeOK, SubmitRejected, Become, NoBill
<1>10. ReservedOrCharged'
  BY QuotaAssumption
    DEF QuotaInv, ReservedOrCharged, QuotaTypeOK, IsCharged, SubmitRejected, Become, NoBill
<1>11. SuccessIsCharged'
  BY QuotaAssumption
    DEF QuotaInv, SuccessIsCharged, QuotaTypeOK, IsCharged, SubmitRejected, Become, NoBill
<1>12. OwnReservationHolds'
  BY QuotaAssumption
    DEF QuotaInv, OwnReservationHolds, QuotaTypeOK, SubmitRejected, Become, NoBill
<1> QED  BY <1>1, <1>2, <1>3, <1>4, <1>5, <1>6, <1>7, <1>8, <1>9, <1>10, <1>11, <1>12 DEF QuotaInv

\* A reservation expires.
LEMMA QuotaExpire ==
  ASSUME QuotaInv, NEW r \in Requests, Expire(r)
  PROVE  QuotaInv'
<1>1. QuotaTypeOK'
  BY QuotaAssumption DEF QuotaInv, QuotaTypeOK, RequestStages, Days, LiveStages, Expire, NoBill
<1>2. FileWithinLimit'
  BY QuotaAssumption DEF QuotaInv, FileWithinLimit, Expire, NoBill
<1>3. ReservationsDisjoint'
  BY QuotaAssumption DEF QuotaInv, ReservationsDisjoint, Expire, NoBill
<1>4. ChargesComplete'
  BY QuotaAssumption DEF QuotaInv, ChargesComplete, Expire, NoBill
<1>5. HandlesShare'
  BY QuotaAssumption DEF QuotaInv, HandlesShare, QuotaTypeOK, Expire, NoBill
<1>6. AcceptedHaveTasks'
  BY QuotaAssumption DEF QuotaInv, AcceptedHaveTasks, QuotaTypeOK, KeysOf, Expire, NoBill
<1>7. ChargesHaveTasks'
  BY QuotaAssumption DEF QuotaInv, ChargesHaveTasks, Expire, NoBill
<1>8. DaysInOrder'
  BY QuotaAssumption DEF QuotaInv, DaysInOrder, QuotaTypeOK, PastReserve, Days, Expire, NoBill
<1>9. BillsFollowFile'
  BY QuotaAssumption DEF QuotaInv, BillsFollowFile, QuotaTypeOK, Expire, NoBill
<1>10. ReservedOrCharged'
  BY QuotaAssumption DEF QuotaInv, ReservedOrCharged, QuotaTypeOK, IsCharged, Expire, NoBill
<1>11. SuccessIsCharged'
  BY QuotaAssumption DEF QuotaInv, SuccessIsCharged, QuotaTypeOK, IsCharged, Expire, NoBill
<1>12. OwnReservationHolds'
  BY QuotaAssumption DEF QuotaInv, OwnReservationHolds, QuotaTypeOK, Expire, NoBill
<1> QED  BY <1>1, <1>2, <1>3, <1>4, <1>5, <1>6, <1>7, <1>8, <1>9, <1>10, <1>11, <1>12 DEF QuotaInv

\* The process of a request dies.
LEMMA QuotaCrash ==
  ASSUME QuotaInv, NEW r \in Requests, Crash(r)
  PROVE  QuotaInv'
<1>1. QuotaTypeOK'
  BY QuotaAssumption
    DEF QuotaInv, QuotaTypeOK, RequestStages, Days, LiveStages, Crash, Become, NoBill
<1>2. FileWithinLimit'
  BY QuotaAssumption DEF QuotaInv, FileWithinLimit, Crash, LiveStages, Become, NoBill
<1>3. ReservationsDisjoint'
  BY QuotaAssumption DEF QuotaInv, ReservationsDisjoint, Crash, LiveStages, Become, NoBill
<1>4. ChargesComplete'
  BY QuotaAssumption DEF QuotaInv, ChargesComplete, Crash, LiveStages, Become, NoBill
<1>5. HandlesShare'
  BY QuotaAssumption DEF QuotaInv, HandlesShare, QuotaTypeOK, Crash, LiveStages, Become, NoBill
<1>6. AcceptedHaveTasks'
  BY QuotaAssumption
    DEF QuotaInv, AcceptedHaveTasks, QuotaTypeOK, KeysOf, Crash, LiveStages, Become, NoBill
<1>7. ChargesHaveTasks'
  BY QuotaAssumption DEF QuotaInv, ChargesHaveTasks, Crash, LiveStages, Become, NoBill
<1>8. DaysInOrder'
  BY QuotaAssumption
    DEF QuotaInv, DaysInOrder, QuotaTypeOK, PastReserve, Days, Crash, LiveStages, Become, NoBill
<1>9. BillsFollowFile'
  BY QuotaAssumption DEF QuotaInv, BillsFollowFile, QuotaTypeOK, Crash, LiveStages, Become, NoBill
<1>10. ReservedOrCharged'
  BY QuotaAssumption
    DEF QuotaInv, ReservedOrCharged, QuotaTypeOK, IsCharged, Crash, LiveStages, Become, NoBill
<1>11. SuccessIsCharged'
  BY QuotaAssumption
    DEF QuotaInv, SuccessIsCharged, QuotaTypeOK, IsCharged, Crash, LiveStages, Become, NoBill
<1>12. OwnReservationHolds'
  BY QuotaAssumption
    DEF QuotaInv, OwnReservationHolds, QuotaTypeOK, Crash, LiveStages, Become, NoBill
<1> QED  BY <1>1, <1>2, <1>3, <1>4, <1>5, <1>6, <1>7, <1>8, <1>9, <1>10, <1>11, <1>12 DEF QuotaInv

\* A day ends.
LEMMA QuotaNextDay ==
  ASSUME QuotaInv, NextDay
  PROVE  QuotaInv'
<1>1. QuotaTypeOK'
  BY QuotaAssumption DEF QuotaInv, QuotaTypeOK, RequestStages, Days, LiveStages, NextDay, NoBill
<1>2. FileWithinLimit'
  BY QuotaAssumption DEF QuotaInv, FileWithinLimit, NextDay, NoBill
<1>3. ReservationsDisjoint'
  BY QuotaAssumption DEF QuotaInv, ReservationsDisjoint, NextDay, NoBill
<1>4. ChargesComplete'
  BY QuotaAssumption DEF QuotaInv, ChargesComplete, NextDay, NoBill
<1>5. HandlesShare'
  BY QuotaAssumption DEF QuotaInv, HandlesShare, QuotaTypeOK, NextDay, NoBill
<1>6. AcceptedHaveTasks'
  BY QuotaAssumption DEF QuotaInv, AcceptedHaveTasks, QuotaTypeOK, KeysOf, NextDay, NoBill
<1>7. ChargesHaveTasks'
  BY QuotaAssumption DEF QuotaInv, ChargesHaveTasks, NextDay, NoBill
<1>8. DaysInOrder'
  BY QuotaAssumption DEF QuotaInv, DaysInOrder, QuotaTypeOK, PastReserve, Days, NextDay, NoBill
<1>9. BillsFollowFile'
  BY QuotaAssumption DEF QuotaInv, BillsFollowFile, QuotaTypeOK, NextDay, NoBill
<1>10. ReservedOrCharged'
  BY QuotaAssumption DEF QuotaInv, ReservedOrCharged, QuotaTypeOK, IsCharged, NextDay, NoBill
<1>11. SuccessIsCharged'
  BY QuotaAssumption DEF QuotaInv, SuccessIsCharged, QuotaTypeOK, IsCharged, NextDay, NoBill
<1>12. OwnReservationHolds'
  BY QuotaAssumption DEF QuotaInv, OwnReservationHolds, QuotaTypeOK, NextDay, NoBill
<1> QED  BY <1>1, <1>2, <1>3, <1>4, <1>5, <1>6, <1>7, <1>8, <1>9, <1>10, <1>11, <1>12 DEF QuotaInv

-----------------------------------------------------------------------------
(* reserve *)

\* A reserve() that leaves the file alone.
ReservesInPlace(r, p) ==
  /\ stage[r] = "dated" /\ p \in {"reserved", "refused"}
  /\ stage' = [stage EXCEPT ![r] = p]
  /\ UNCHANGED <<today, expired, created, bill, quotaFile>>
  /\ crossed' \in BOOLEAN /\ (~crossed' => ~crossed)
  /\ handle' \in [Requests -> [rid: Requests \cup {NoReservation}, day: Days,
                               cancelable: BOOLEAN]]
  /\ \A q \in Requests : /\ handle'[q].day = handle[q].day
                         /\ q # r => handle'[q] = handle[q]
  /\ HandlesShare'
  /\ p = "reserved" =>
       /\ handle[r].day <= quotaFile.date
       /\ handle'[r].rid = NoReservation => IsCharged(quotaFile, r)
       /\ handle'[r].rid = r => r \in quotaFile.resv \/ IsCharged(quotaFile, r)

\* A request reserves in a file that is loaded: it finds its identifiers charged
\* or reserved, or adds a reservation that fits.
LEMMA QuotaReserveInPlace ==
  ASSUME QuotaInv, NEW r \in Requests, NEW p, ReservesInPlace(r, p)
  PROVE  QuotaInv'
<1>1. /\ stage'[r] = p /\ \A q \in Requests \ {r} : stage'[q] = stage[q]
      /\ p \in {"reserved", "refused"} /\ stage[r] = "dated"
      /\ UNCHANGED <<today, expired, created, bill, quotaFile>>
      /\ ~crossed' => ~crossed
  BY DEF ReservesInPlace, QuotaInv, QuotaTypeOK
<1>2. \A q \in Requests : /\ handle'[q].day = handle[q].day
                          /\ q # r => handle'[q] = handle[q]
  BY DEF ReservesInPlace
<1>3. p = "reserved" =>
        /\ handle[r].day <= quotaFile.date
        /\ handle'[r].rid = NoReservation => IsCharged(quotaFile, r)
        /\ handle'[r].rid = r => r \in quotaFile.resv \/ IsCharged(quotaFile, r)
  BY DEF ReservesInPlace
<1>a. QuotaTypeOK'
  BY DEF QuotaInv, QuotaTypeOK, ReservesInPlace, RequestStages
<1>b. FileWithinLimit' /\ ReservationsDisjoint' /\ ChargesComplete' /\ ChargesHaveTasks'
  BY <1>1 DEF QuotaInv, FileWithinLimit, ReservationsDisjoint, ChargesComplete,
              ChargesHaveTasks
<1>c. HandlesShare'  BY DEF ReservesInPlace
<1>d. AcceptedHaveTasks'  BY <1>1 DEF QuotaInv, AcceptedHaveTasks
<1>e. DaysInOrder'
  BY <1>1, <1>2, <1>3 DEF QuotaInv, DaysInOrder, PastReserve
<1>f. BillsFollowFile'  BY <1>1 DEF QuotaInv, BillsFollowFile
<1>g. ReservedOrCharged'  BY <1>1, <1>2, <1>3 DEF QuotaInv, ReservedOrCharged, IsCharged
<1>h. SuccessIsCharged'  BY <1>1, <1>2 DEF QuotaInv, SuccessIsCharged, IsCharged
<1>i. OwnReservationHolds'  BY <1>1, <1>2 DEF QuotaInv, OwnReservationHolds
<1> QED
  BY <1>a, <1>b, <1>c, <1>d, <1>e, <1>f, <1>g, <1>h, <1>i DEF QuotaInv

\* A new reservation, in the file of the day that was read.
LEMMA QuotaReserveFresh ==
  ASSUME QuotaInv, NEW r \in Requests, stage[r] = "dated", ReserveFresh(r),
         crossed' = (crossed \/ handle[r].day # today),
         UNCHANGED <<today, expired, created, bill>>
  PROVE  QuotaInv'
<1> DEFINE d == handle[r].day
<1>1. d \in Days  BY DEF QuotaInv, QuotaTypeOK
<1>2. PICK f : f = Load(d)  OBVIOUS
<1>3. IsLoaded(f, d)  BY <1>1, <1>2, Loaded
<1>4. /\ Reservable(f, r) /\ Fits(f, UnitsOf[r])
      /\ quotaFile' = [f EXCEPT !.resv = f.resv \cup {r}]
      /\ handle' = [handle EXCEPT ![r].rid = r]
      /\ stage' = [stage EXCEPT ![r] = "reserved"]
  BY <1>2 DEF ReserveFresh, Become
<1>5. /\ f \in FileType /\ f.date = d /\ f.resv \in SUBSET Requests /\ f.usage \in Nat
      /\ f.idem \in SUBSET Ids
  BY <1>3 DEF IsLoaded, FileType
<1>6. /\ quotaFile' \in FileType /\ quotaFile'.date = d /\ quotaFile'.usage = f.usage
      /\ quotaFile'.idem = f.idem /\ quotaFile'.resv = f.resv \cup {r}
  BY <1>4, <1>5 DEF FileType
<1>7. PICK h \in [rid: Requests \cup {NoReservation}, day: Days, cancelable: BOOLEAN] :
        h = handle[r]
  BY DEF QuotaInv, QuotaTypeOK
<1>8. PICK k : k = [h EXCEPT !.rid = r]  OBVIOUS
<1>9. /\ k.rid = r /\ k.day = d /\ k \in [rid: Requests \cup {NoReservation}, day: Days,
                                          cancelable: BOOLEAN]
  BY <1>7, <1>8
<1>10. /\ handle'[r] = k /\ \A q \in Requests \ {r} : handle'[q] = handle[q]
       /\ handle' \in [Requests -> [rid: Requests \cup {NoReservation}, day: Days,
                                    cancelable: BOOLEAN]]
  BY <1>4, <1>7, <1>8, <1>9 DEF QuotaInv, QuotaTypeOK
<1>11. /\ stage'[r] = "reserved" /\ \A q \in Requests \ {r} : stage'[q] = stage[q]
       /\ stage' \in [Requests -> RequestStages]
  BY <1>4 DEF QuotaInv, QuotaTypeOK, RequestStages
<1>12. ~crossed' => ~crossed /\ d = today
  OBVIOUS
<1>13. ~crossed' => quotaFile.date <= d
  BY <1>12 DEF QuotaInv, DaysInOrder
<1>14. KeysOf(r) # {} /\ \A s \in f.resv : KeysOf(s) \cap KeysOf(r) = {}
  BY <1>4 DEF Reservable, KeysOf
<1>15. \A q \in Requests \ {r} : ~crossed' /\ stage[q] \in PastReserve /\ handle[q].day = d =>
         quotaFile.date = d
  <2> SUFFICES ASSUME NEW q \in Requests \ {r}, ~crossed', stage[q] \in PastReserve,
                      handle[q].day = d
               PROVE  quotaFile.date = d
    OBVIOUS
  <2>1. d <= quotaFile.date  BY <1>12 DEF QuotaInv, DaysInOrder
  <2>2. quotaFile.date \in Nat /\ d \in Nat
    BY <1>1, QuotaAssumption DEF QuotaInv, QuotaTypeOK, Days
  <2> QED  BY <2>1, <2>2, <1>13
<1>16. quotaFile.date = d => /\ f.idem = quotaFile.idem
                             /\ f.resv = quotaFile.resv \ expired
  BY <1>3 DEF IsLoaded
<1>a. QuotaTypeOK'
  BY <1>6, <1>10, <1>11 DEF QuotaInv, QuotaTypeOK, FileType
<1>b. FileWithinLimit'
  <2>1. r \notin f.resv  BY <1>14
  <2>2. Pending(f.resv \cup {r}) = Pending(f.resv) + UnitsOf[r]
    <3>1. {r} \in SUBSET Requests /\ f.resv \cap {r} = {}  BY <2>1
    <3> QED  BY <3>1, <1>5, PendingUnion, PendingOne
  <2>3. Pending(f.resv) \in Nat /\ UnitsOf[r] \in Nat  BY <1>5, PendingIsNat, QuotaAssumption
  <2>4. f.usage + Pending(f.resv) + UnitsOf[r] <= Limit  BY <1>4 DEF Fits
  <2>5. Pending(quotaFile'.resv) = Pending(f.resv) + UnitsOf[r]  BY <2>2, <1>6
  <2>6. quotaFile'.usage + Pending(quotaFile'.resv) <= Limit
    BY <2>3, <2>4, <2>5, <1>5, <1>6, QuotaAssumption
  <2> QED  BY <2>6 DEF FileWithinLimit, Pending, UnitsHeld
<1>c. ReservationsDisjoint'
  <2>1. \A s, t \in f.resv : s # t => KeysOf(s) \cap KeysOf(t) = {}
    BY <1>3, <1>5 DEF QuotaInv, ReservationsDisjoint, IsLoaded
  <2> QED  BY <2>1, <1>6, <1>14 DEF ReservationsDisjoint
<1>d. ChargesComplete'
  BY <1>3, <1>6 DEF QuotaInv, ChargesComplete, IsLoaded
<1>e. HandlesShare'
  BY <1>9, <1>10, <1>14 DEF QuotaInv, HandlesShare
<1>f. AcceptedHaveTasks'  BY <1>11 DEF QuotaInv, AcceptedHaveTasks
<1>g. ChargesHaveTasks'
  BY <1>3, <1>6 DEF QuotaInv, ChargesHaveTasks, IsLoaded
<1>h. DaysInOrder'
  <2> SUFFICES ASSUME ~crossed', NEW q \in Requests
               PROVE  /\ d <= today /\ handle'[q].day <= today
                      /\ stage'[q] \in PastReserve => handle'[q].day <= d
    BY <1>6 DEF DaysInOrder
  <2>1. d \in Nat /\ quotaFile.date \in Nat /\ handle[q].day \in Nat
    <3>1. d \in Days /\ quotaFile.date \in Days  BY <1>1 DEF QuotaInv, QuotaTypeOK
    <3>2. handle[q].day \in Days  BY DEF QuotaInv, QuotaTypeOK
    <3> QED  BY <3>1, <3>2, QuotaAssumption DEF Days
  <2>2. d = today /\ ~crossed  BY <1>12
  <2>3. CASE q = r  BY <2>1, <2>2, <2>3, <1>9, <1>10
  <2>4. CASE q # r
    <3>1. handle'[q].day = handle[q].day /\ stage'[q] = stage[q]  BY <2>4, <1>10, <1>11
    <3>2. handle[q].day <= today  BY <2>2 DEF QuotaInv, DaysInOrder
    <3> QED  BY <2>1, <2>2, <3>1, <3>2
  <2> QED  BY <2>3, <2>4
<1>i. BillsFollowFile'
  <2> SUFFICES ASSUME ~crossed', NEW e \in Days, NEW i \in Ids
               PROVE  /\ bill[e][i] <= 1
                      /\ e > d \/ (e = d /\ i \notin f.idem) => bill[e][i] = 0
    BY <1>6 DEF BillsFollowFile
  <2>1. e \in Nat /\ d \in Nat /\ quotaFile.date \in Nat
    BY <1>1, QuotaAssumption DEF QuotaInv, QuotaTypeOK, Days
  <2>2. ~crossed /\ quotaFile.date <= d  BY <1>12, <1>13
  <2>3. /\ bill[e][i] <= 1
        /\ e > quotaFile.date \/ (e = quotaFile.date /\ i \notin quotaFile.idem) =>
             bill[e][i] = 0
    BY <2>2 DEF QuotaInv, BillsFollowFile
  <2> QED  BY <2>1, <2>2, <2>3, <1>16
<1>j. ReservedOrCharged'
  <2> SUFFICES ASSUME ~crossed', NEW q \in Requests,
                      stage'[q] \in {"reserved", "accepted"}, handle'[q].day = d
               PROVE  /\ handle'[q].rid = NoReservation => IsCharged(quotaFile', q)
                      /\ handle'[q].rid = q => \/ q \in quotaFile'.resv
                                               \/ IsCharged(quotaFile', q) \/ q \in expired
    BY <1>6 DEF ReservedOrCharged, IsCharged
  <2>1. CASE q = r
    BY <2>1, <1>6, <1>9, <1>10, QuotaAssumption
  <2>2. CASE q # r
    <3>1. handle'[q] = handle[q] /\ stage'[q] = stage[q]  BY <2>2, <1>10, <1>11
    <3>2. quotaFile.date = d  BY <2>2, <3>1, <1>15 DEF PastReserve
    <3>3. /\ handle[q].rid = NoReservation => IsCharged(quotaFile, q)
          /\ handle[q].rid = q => \/ q \in quotaFile.resv
                                  \/ IsCharged(quotaFile, q) \/ q \in expired
      BY <3>1, <3>2, <1>12 DEF QuotaInv, ReservedOrCharged
    <3>4. IsCharged(quotaFile, q) => IsCharged(quotaFile', q)
      BY <3>2, <1>6, <1>16 DEF IsCharged
    <3> QED  BY <3>1, <3>2, <3>3, <3>4, <1>6, <1>16
  <2> QED  BY <2>1, <2>2
<1>k. SuccessIsCharged'
  <2> SUFFICES ASSUME Unbridged, ~crossed', NEW q \in Requests, stage'[q] = "done",
                      handle'[q].day = d
               PROVE  IsCharged(quotaFile', q)
    BY <1>6 DEF SuccessIsCharged, IsCharged
  <2>1. q # r /\ handle'[q] = handle[q] /\ stage'[q] = stage[q]  BY <1>10, <1>11
  <2>2. quotaFile.date = d  BY <2>1, <1>15 DEF PastReserve
  <2>3. IsCharged(quotaFile, q)  BY <2>1, <2>2, <1>12 DEF QuotaInv, SuccessIsCharged
  <2> QED  BY <2>2, <2>3, <1>6, <1>16 DEF IsCharged
<1>l. OwnReservationHolds'
  BY <1>10, <1>11, <1>12 DEF QuotaInv, OwnReservationHolds
<1> QED
  BY <1>a, <1>b, <1>c, <1>d, <1>e, <1>f, <1>g, <1>h, <1>i, <1>j, <1>k, <1>l DEF QuotaInv

\* A request reserves.
LEMMA QuotaReserve ==
  ASSUME QuotaInv, NEW r \in Requests, Reserve(r)
  PROVE  QuotaInv'
<1>1. /\ stage[r] = "dated" /\ crossed' = (crossed \/ handle[r].day # today)
      /\ UNCHANGED <<today, expired, created, bill>>
      /\ ReserveCharged(r) \/ ReserveShared(r) \/ ReserveRefused(r) \/ ReserveFresh(r)
  BY DEF Reserve
<1>2. crossed' \in BOOLEAN /\ (~crossed' => ~crossed)  BY <1>1 DEF QuotaInv, QuotaTypeOK
<1>3. handle[r].day \in Days  BY DEF QuotaInv, QuotaTypeOK
<1>4. PICK f : f = Load(handle[r].day)  OBVIOUS
<1>5. IsLoaded(f, handle[r].day)  BY <1>3, <1>4, Loaded
<1>6. f.idem # {} \/ f.resv # {} =>
        /\ quotaFile.date = handle[r].day /\ handle[r].day <= quotaFile.date
        /\ f.idem = quotaFile.idem /\ f.resv = quotaFile.resv \ expired
  BY <1>3, <1>5, QuotaAssumption DEF IsLoaded, QuotaInv, QuotaTypeOK, Days
<1>7. CASE ReserveCharged(r)
  <2>1. /\ IsCharged(f, r) /\ stage' = [stage EXCEPT ![r] = "reserved"]
        /\ quotaFile' = quotaFile /\ handle' = handle
    BY <1>7, <1>4 DEF ReserveCharged, Become
  <2>2. IsCharged(quotaFile, r) /\ handle[r].day <= quotaFile.date
    BY <2>1, <1>6 DEF IsCharged
  <2>3. HandlesShare'  BY <2>1 DEF QuotaInv, HandlesShare
  <2>4. ReservesInPlace(r, "reserved")
    BY <1>1, <1>2, <2>1, <2>2, <2>3 DEF ReservesInPlace, QuotaInv, QuotaTypeOK
  <2> QED  BY <2>4, QuotaReserveInPlace
<1>8. CASE ReserveShared(r)
  <2>1. PICK s \in f.resv :
          /\ KeysOf(s) \cap KeysOf(r) # {}
          /\ handle' = [handle EXCEPT ![r].rid = s, ![r].cancelable = FALSE]
    BY <1>8, <1>4 DEF ReserveShared
  <2>2. /\ ~IsCharged(f, r) /\ stage' = [stage EXCEPT ![r] = "reserved"]
        /\ quotaFile' = quotaFile
    BY <1>8, <1>4 DEF ReserveShared, Become
  <2>3. s \in quotaFile.resv /\ s \in Requests /\ handle[r].day <= quotaFile.date
    BY <2>1, <1>6 DEF QuotaInv, QuotaTypeOK
  <2>4. PICK h \in [rid: Requests \cup {NoReservation}, day: Days, cancelable: BOOLEAN] :
          h = handle[r]
    BY DEF QuotaInv, QuotaTypeOK
  <2>5. PICK k : k = [h EXCEPT !.rid = s, !.cancelable = FALSE]  OBVIOUS
  <2>6. /\ k.rid = s /\ k.day = handle[r].day /\ k.cancelable = FALSE
        /\ k \in [rid: Requests \cup {NoReservation}, day: Days, cancelable: BOOLEAN]
    BY <2>3, <2>4, <2>5
  <2>7. /\ handle'[r] = k /\ \A q \in Requests \ {r} : handle'[q] = handle[q]
        /\ handle' \in [Requests -> [rid: Requests \cup {NoReservation}, day: Days,
                                     cancelable: BOOLEAN]]
    BY <2>1, <2>4, <2>5, <2>6 DEF QuotaInv, QuotaTypeOK
  <2>8. HandlesShare'  BY <2>1, <2>6, <2>7 DEF QuotaInv, HandlesShare
  <2>9. ReservesInPlace(r, "reserved")
    BY <1>1, <1>2, <1>6, <2>1, <2>2, <2>3, <2>6, <2>7, <2>8, QuotaAssumption
       DEF ReservesInPlace
  <2> QED  BY <2>9, QuotaReserveInPlace
<1>9. CASE ReserveRefused(r)
  <2>1. /\ stage' = [stage EXCEPT ![r] = "refused"]
        /\ quotaFile' = quotaFile /\ handle' = handle
    BY <1>9 DEF ReserveRefused, Become
  <2>2. HandlesShare'  BY <2>1 DEF QuotaInv, HandlesShare
  <2>3. ReservesInPlace(r, "refused")
    BY <1>1, <1>2, <2>1, <2>2 DEF ReservesInPlace, QuotaInv, QuotaTypeOK
  <2> QED  BY <2>3, QuotaReserveInPlace
<1>10. CASE ReserveFresh(r)  BY <1>10, <1>1, QuotaReserveFresh
<1> QED  BY <1>1, <1>7, <1>8, <1>9, <1>10
-----------------------------------------------------------------------------
(* commit, cancel and the reconciliation *)

\* A step within one day of the file: reservations leave it, charges are added.
Settles ==
  /\ quotaFile' \in FileType /\ quotaFile'.date = quotaFile.date
  /\ quotaFile.idem \subseteq quotaFile'.idem
  /\ quotaFile'.resv \subseteq quotaFile.resv
  /\ quotaFile'.usage + Pending(quotaFile'.resv) <= Limit
  /\ UNCHANGED <<today, expired, handle, created, crossed>>
  /\ stage' \in [Requests -> RequestStages]
  /\ \A q \in Requests :
       \/ stage'[q] = stage[q]
       \/ stage[q] = "rejected" /\ stage'[q] = "failed"
       \/ /\ stage[q] = "accepted" /\ stage'[q] = "done"
          /\ Unbridged /\ ~crossed /\ handle[q].day = quotaFile.date =>
               IsCharged(quotaFile', q)
       \/ /\ stage[q] = "accepted" /\ stage'[q] = "uncommitted"
          /\ ~crossed /\ handle[q].rid = q => q \in expired
  /\ \A s \in quotaFile.resv : \/ s \in quotaFile'.resv \/ s \in expired
                               \/ IsCharged(quotaFile', s) \/ stage'[s] = "failed"
  /\ bill' \in [Days -> [Ids -> Nat]]

\* A request is settled and no other is disturbed: the invariant is kept.
LEMMA QuotaSettles ==
  ASSUME QuotaInv, Settles, BillsFollowFile', ChargesComplete', ChargesHaveTasks'
  PROVE  QuotaInv'
<1>1. /\ quotaFile' \in FileType /\ quotaFile'.date = quotaFile.date
      /\ quotaFile.idem \subseteq quotaFile'.idem
      /\ quotaFile'.resv \subseteq quotaFile.resv
      /\ UNCHANGED <<today, expired, handle, created, crossed>>
  BY DEF Settles
<1>2. \A q \in Requests :
       \/ stage'[q] = stage[q]
       \/ stage[q] = "rejected" /\ stage'[q] = "failed"
       \/ /\ stage[q] = "accepted" /\ stage'[q] = "done"
          /\ Unbridged /\ ~crossed /\ handle[q].day = quotaFile.date =>
               IsCharged(quotaFile', q)
       \/ /\ stage[q] = "accepted" /\ stage'[q] = "uncommitted"
          /\ ~crossed /\ handle[q].rid = q => q \in expired
  BY DEF Settles
<1>3. \A s \in quotaFile.resv : \/ s \in quotaFile'.resv \/ s \in expired
                                \/ IsCharged(quotaFile', s) \/ stage'[s] = "failed"
  BY DEF Settles
<1>4. \A q \in Requests : IsCharged(quotaFile, q) => IsCharged(quotaFile', q)
  BY <1>1 DEF IsCharged
<1>a. QuotaTypeOK'
  BY DEF QuotaInv, QuotaTypeOK, FileType, Settles
<1>b. FileWithinLimit'
  BY DEF Settles, FileWithinLimit, Pending, UnitsHeld
<1>c. ReservationsDisjoint'  BY <1>1 DEF QuotaInv, ReservationsDisjoint
<1>d. HandlesShare'  BY <1>1 DEF QuotaInv, HandlesShare
<1>e. AcceptedHaveTasks'  BY <1>1, <1>2 DEF QuotaInv, AcceptedHaveTasks
<1>f. DaysInOrder'  BY <1>1, <1>2 DEF QuotaInv, DaysInOrder, PastReserve
<1>g. ReservedOrCharged'
  <2> SUFFICES ASSUME ~crossed', NEW q \in Requests,
                      stage'[q] \in {"reserved", "accepted"},
                      handle'[q].day = quotaFile'.date
               PROVE  /\ handle'[q].rid = NoReservation => IsCharged(quotaFile', q)
                      /\ handle'[q].rid = q => \/ q \in quotaFile'.resv
                                               \/ IsCharged(quotaFile', q) \/ q \in expired
    BY <1>1 DEF ReservedOrCharged, IsCharged
  <2>1. stage'[q] = stage[q]  BY <1>2
  <2>2. /\ handle[q].rid = NoReservation => IsCharged(quotaFile, q)
        /\ handle[q].rid = q => \/ q \in quotaFile.resv
                                \/ IsCharged(quotaFile, q) \/ q \in expired
    BY <1>1, <2>1 DEF QuotaInv, ReservedOrCharged
  <2> QED  BY <1>1, <1>3, <1>4, <2>2
<1>h. SuccessIsCharged'
  <2> SUFFICES ASSUME Unbridged, ~crossed', NEW q \in Requests, stage'[q] = "done",
                      handle'[q].day = quotaFile'.date
               PROVE  IsCharged(quotaFile', q)
    BY DEF SuccessIsCharged, IsCharged
  <2>1. CASE stage'[q] = stage[q]
    BY <2>1, <1>1, <1>4 DEF QuotaInv, SuccessIsCharged
  <2>2. CASE stage'[q] # stage[q]  BY <2>2, <1>1, <1>2
  <2> QED  BY <2>1, <2>2
<1>i. OwnReservationHolds'  BY <1>1, <1>2 DEF QuotaInv, OwnReservationHolds
<1> QED
  BY <1>a, <1>b, <1>c, <1>d, <1>e, <1>f, <1>g, <1>h, <1>i DEF QuotaInv

\* A commit charges reservation s to the file f, which lost reservations.
LEMMA CommitCharges ==
  ASSUME QuotaInv, NEW r \in Requests, stage[r] = "accepted",
         handle[r].rid # NoReservation,
         NEW f \in FileType, f.date = quotaFile.date, f.idem = quotaFile.idem,
         quotaFile' = ChargeOnce(f, handle[r].rid), BillOnce(f, handle[r].rid),
         UNCHANGED created
  PROVE  /\ BillsFollowFile' /\ ChargesComplete' /\ ChargesHaveTasks'
         /\ bill' \in [Days -> [Ids -> Nat]] /\ crossed' = crossed
         /\ IsCharged(quotaFile', handle[r].rid)
         /\ Unbridged => IsCharged(quotaFile', r)
<1>1. PICK s \in Requests : s = handle[r].rid  BY DEF QuotaInv, QuotaTypeOK
<1>2. KeysOf(s) \cap KeysOf(r) # {}  BY <1>1 DEF QuotaInv, HandlesShare
<1>3. /\ KeysOf(s) \in SUBSET Ids /\ KeysOf(s) # {}  BY QuotaAssumption DEF KeysOf
<1>4. PICK g : g = ChargeOnce(f, s)  OBVIOUS
<1>5. /\ g \in FileType /\ g.date = f.date /\ g.resv = f.resv
      /\ IsCharged(f, s) => g = f
      /\ ~IsCharged(f, s) => /\ g # f /\ g.usage = f.usage + UnitsOf[s]
                             /\ g.idem = f.idem \cup KeysOf(s)
  BY <1>4, ChargedFile
<1>6. quotaFile' = g  BY <1>1, <1>4
<1>7. PICK t \in created : KeysOf(t) \cap KeysOf(r) # {}  BY DEF QuotaInv, AcceptedHaveTasks
<1>8. CASE IsCharged(f, s)
  <2>1. g = f /\ bill' = bill /\ crossed' = crossed
    BY <1>1, <1>4, <1>5, <1>8 DEF BillOnce, NoBill
  <2>2. quotaFile'.date = quotaFile.date /\ quotaFile'.idem = quotaFile.idem
    BY <2>1, <1>6
  <2>3. BillsFollowFile' /\ ChargesComplete' /\ ChargesHaveTasks'
    BY <2>1, <2>2 DEF QuotaInv, BillsFollowFile, ChargesComplete, ChargesHaveTasks
  <2>4. IsCharged(quotaFile', s)  BY <2>2, <1>8 DEF IsCharged
  <2>5. ASSUME Unbridged PROVE IsCharged(quotaFile', r)
    <3>1. PICK i \in KeysOf(s) : i \in quotaFile.idem  BY <1>8 DEF IsCharged
    <3>2. PICK x \in Requests : i \in KeysOf(x) /\ KeysOf(x) \subseteq quotaFile.idem
      BY <3>1 DEF QuotaInv, ChargesComplete
    <3>3. KeysOf(s) \cap KeysOf(x) # {}  BY <3>1, <3>2
    <3>4. KeysOf(r) \cap KeysOf(x) # {}  BY <2>5, <1>2, <3>3 DEF Unbridged
    <3> QED  BY <3>2, <3>4, <2>2 DEF IsCharged
  <2>6. bill' \in [Days -> [Ids -> Nat]]  BY <2>1 DEF QuotaInv, QuotaTypeOK
  <2> QED  BY <1>1, <2>1, <2>3, <2>4, <2>5, <2>6
<1>9. CASE ~IsCharged(f, s)
  <2>1. g # f /\ quotaFile'.idem = quotaFile.idem \cup KeysOf(s)
        /\ quotaFile'.date = quotaFile.date
    BY <1>5, <1>6, <1>9
  <2>2. Bill(quotaFile.date, {s})  BY <2>1, <1>1, <1>4 DEF BillOnce
  <2>3. \A i \in Ids : Cardinality({x \in {s} : i \in KeysOf(x)}) =
                         IF i \in KeysOf(s) THEN 1 ELSE 0
    <3> SUFFICES ASSUME NEW i \in Ids
                 PROVE  Cardinality({x \in {s} : i \in KeysOf(x)}) =
                          IF i \in KeysOf(s) THEN 1 ELSE 0
      OBVIOUS
    <3>1. CASE i \in KeysOf(s)
      <4>1. {x \in {s} : i \in KeysOf(x)} = {s}  BY <3>1
      <4> QED  BY <3>1, <4>1, FS_Singleton
    <3>2. CASE i \notin KeysOf(s)
      <4>1. {x \in {s} : i \in KeysOf(x)} = {}  BY <3>2
      <4> QED  BY <3>2, <4>1, FS_EmptySet
    <3> QED  BY <3>1, <3>2
  <2>4. quotaFile.date \in Days /\ bill \in [Days -> [Ids -> Nat]]
    BY DEF QuotaInv, QuotaTypeOK
  <2>5. /\ crossed' = crossed
        /\ bill' = [bill EXCEPT ![quotaFile.date] = [i \in Ids |->
                bill[quotaFile.date][i] + Cardinality({x \in {s} : i \in KeysOf(x)})]]
    BY <2>2 DEF Bill
  <2>6. /\ \A d \in Days : d # quotaFile.date => bill'[d] = bill[d]
        /\ bill'[quotaFile.date] = [i \in Ids |->
                bill[quotaFile.date][i] + Cardinality({x \in {s} : i \in KeysOf(x)})]
    BY <2>4, <2>5
  <2>7. \A i \in Ids : bill'[quotaFile.date][i] =
          bill[quotaFile.date][i] + (IF i \in KeysOf(s) THEN 1 ELSE 0)
    BY <2>3, <2>6
  <2>8. bill' \in [Days -> [Ids -> Nat]]
    <3>1. \A i \in Ids : Cardinality({x \in {s} : i \in KeysOf(x)}) \in Nat  BY <2>3
    <3>2. [i \in Ids |-> bill[quotaFile.date][i] + Cardinality({x \in {s} : i \in KeysOf(x)})]
            \in [Ids -> Nat]
      BY <3>1, <2>4
    <3> QED  BY <3>2, <2>4, <2>5
  <2>9. BillsFollowFile'
    <3> SUFFICES ASSUME ~crossed', NEW d \in Days, NEW i \in Ids
                 PROVE  /\ bill'[d][i] <= 1
                        /\ d > quotaFile.date \/ (d = quotaFile.date /\ i \notin quotaFile'.idem)
                             => bill'[d][i] = 0
      BY <2>1 DEF BillsFollowFile
    <3>1. /\ bill[d][i] <= 1
          /\ d > quotaFile.date \/ (d = quotaFile.date /\ i \notin quotaFile.idem)
               => bill[d][i] = 0
      BY <2>5 DEF QuotaInv, BillsFollowFile
    <3>2. d \in Nat /\ quotaFile.date \in Nat /\ bill[d][i] \in Nat
      BY <2>4, QuotaAssumption DEF Days
    <3>3. i \in KeysOf(s) => i \notin quotaFile.idem  BY <1>9 DEF IsCharged
    <3>4. CASE d = quotaFile.date
      <4>1. bill'[d][i] = bill[d][i] + (IF i \in KeysOf(s) THEN 1 ELSE 0)  BY <3>4, <2>7
      <4>2. CASE i \in KeysOf(s)
        BY <4>1, <4>2, <3>1, <3>2, <3>3, <3>4, <2>1
      <4>3. CASE i \notin KeysOf(s)
        BY <4>1, <4>3, <3>1, <3>2, <3>4, <2>1
      <4> QED  BY <4>2, <4>3
    <3>5. CASE d # quotaFile.date
      <4>1. bill'[d][i] = bill[d][i]  BY <3>5, <2>6
      <4> QED  BY <4>1, <3>1, <3>5
    <3> QED  BY <3>4, <3>5
  <2>10. ChargesComplete'  BY <2>1 DEF QuotaInv, ChargesComplete
  <2>11. ChargesHaveTasks'
    <3> SUFFICES ASSUME Unbridged, NEW i \in quotaFile'.idem
                 PROVE  \E u \in created, x \in Requests :
                          i \in KeysOf(x) /\ KeysOf(x) \cap KeysOf(u) # {}
      BY DEF ChargesHaveTasks
    <3>1. CASE i \in quotaFile.idem  BY <3>1 DEF QuotaInv, ChargesHaveTasks
    <3>2. CASE i \in KeysOf(s)
      <4>1. t \in Requests /\ KeysOf(r) \cap KeysOf(s) # {} /\ KeysOf(r) \cap KeysOf(t) # {}
        BY <1>2, <1>7 DEF QuotaInv, QuotaTypeOK
      <4>2. KeysOf(s) \cap KeysOf(t) # {}  BY <4>1 DEF Unbridged
      <4> QED  BY <3>2, <4>2
    <3> QED  BY <3>1, <3>2, <2>1
  <2>12. IsCharged(quotaFile', s) /\ IsCharged(quotaFile', r)
    BY <2>1, <1>2, <1>3 DEF IsCharged
  <2> QED  BY <1>1, <2>5, <2>8, <2>9, <2>10, <2>11, <2>12
<1> QED  BY <1>8, <1>9
\* A request without a reservation commits nothing.
LEMMA QuotaCommitNothing ==
  ASSUME QuotaInv, NEW r \in Requests, stage[r] = "accepted", CommitNothing(r),
         UNCHANGED <<today, expired, handle, created>>
  PROVE  QuotaInv'
<1>1. /\ handle[r].rid = NoReservation \/ quotaFile.date # handle[r].day
      /\ stage' = [stage EXCEPT ![r] = "done"]
      /\ UNCHANGED <<quotaFile, bill, crossed>>
  BY DEF CommitNothing, Become, NoBill
<1>2. /\ stage'[r] = "done" /\ \A q \in Requests \ {r} : stage'[q] = stage[q]
      /\ stage' \in [Requests -> RequestStages]
  BY <1>1 DEF QuotaInv, QuotaTypeOK, RequestStages
<1>3. ~crossed /\ handle[r].day = quotaFile.date => IsCharged(quotaFile', r)
  BY <1>1 DEF QuotaInv, ReservedOrCharged, IsCharged
<1>4. Settles
  BY <1>1, <1>2, <1>3 DEF Settles, QuotaInv, QuotaTypeOK, FileType, FileWithinLimit
<1>5. BillsFollowFile' /\ ChargesComplete' /\ ChargesHaveTasks'
  BY <1>1 DEF QuotaInv, BillsFollowFile, ChargesComplete, ChargesHaveTasks
<1> QED  BY <1>4, <1>5, QuotaSettles

\* The reservation is taken out and charged, or was charged already.
LEMMA QuotaCommitReserved ==
  ASSUME QuotaInv, NEW r \in Requests, stage[r] = "accepted",
         handle[r].rid # NoReservation, CommitReserved(r),
         UNCHANGED <<today, expired, handle, created>>
  PROVE  QuotaInv'
<1>1. PICK s \in Requests : s = handle[r].rid  BY DEF QuotaInv, QuotaTypeOK
<1>2. quotaFile.date \in Days  BY DEF QuotaInv, QuotaTypeOK
<1>3. PICK f : f = Load(quotaFile.date)  OBVIOUS
<1>4. IsLoaded(f, quotaFile.date)  BY <1>2, <1>3, Loaded
<1>5. PICK g : g = [f EXCEPT !.resv = f.resv \ {s}]  OBVIOUS
<1>6. /\ s \in f.resv /\ quotaFile' = ChargeOnce(g, s) /\ BillOnce(g, s)
      /\ stage' = [stage EXCEPT ![r] = "done"]
  BY <1>1, <1>3, <1>5 DEF CommitReserved, Become
<1>7. /\ f \in FileType /\ f.date = quotaFile.date /\ f.idem = quotaFile.idem
      /\ f.resv = quotaFile.resv \ expired
      /\ f.resv \in SUBSET Requests /\ f.usage \in Nat /\ f.usage + Pending(f.resv) <= Limit
  BY <1>4 DEF IsLoaded, FileType
<1>8. /\ g \in FileType /\ g.date = quotaFile.date /\ g.idem = quotaFile.idem
      /\ g.usage = f.usage /\ g.resv = f.resv \ {s}
  BY <1>5, <1>7 DEF FileType
<1>9. /\ quotaFile' \in FileType /\ quotaFile'.date = g.date /\ quotaFile'.resv = g.resv
      /\ IsCharged(g, s) => quotaFile' = g
      /\ ~IsCharged(g, s) => /\ quotaFile'.usage = g.usage + UnitsOf[s]
                             /\ quotaFile'.idem = g.idem \cup KeysOf(s)
  BY <1>6, <1>8, ChargedFile
<1>10. /\ BillsFollowFile' /\ ChargesComplete' /\ ChargesHaveTasks'
       /\ bill' \in [Days -> [Ids -> Nat]] /\ crossed' = crossed
       /\ IsCharged(quotaFile', s) /\ (Unbridged => IsCharged(quotaFile', r))
  BY <1>1, <1>6, <1>8, CommitCharges
<1>11. /\ stage'[r] = "done" /\ \A q \in Requests \ {r} : stage'[q] = stage[q]
       /\ stage' \in [Requests -> RequestStages]
  BY <1>6 DEF QuotaInv, QuotaTypeOK, RequestStages
<1>12. quotaFile'.usage + Pending(quotaFile'.resv) <= Limit
  <2>1. Pending(g.resv) + UnitsOf[s] = Pending(f.resv)
    BY <1>6, <1>7, <1>8, PendingWithout
  <2>2. Pending(g.resv) \in Nat /\ UnitsOf[s] \in Nat
    BY <1>7, <1>8, PendingIsNat, QuotaAssumption
  <2>3. Pending(quotaFile'.resv) = Pending(g.resv)  BY <1>9
  <2>4. quotaFile'.usage \in {f.usage, f.usage + UnitsOf[s]}  BY <1>8, <1>9
  <2> QED  BY <2>1, <2>2, <2>3, <2>4, <1>7, QuotaAssumption
<1>13. quotaFile.idem \subseteq quotaFile'.idem  BY <1>8, <1>9
<1>14. /\ quotaFile'.resv \subseteq quotaFile.resv
       /\ \A q \in quotaFile.resv : q \in quotaFile'.resv \/ q \in expired \/ q = s
  BY <1>7, <1>8, <1>9
<1>15. Settles
  BY <1>8, <1>9, <1>10, <1>11, <1>12, <1>13, <1>14 DEF Settles
<1> QED  BY <1>10, <1>15, QuotaSettles

\* The reservation is gone: its units are charged if they fit.
LEMMA QuotaCommitLate ==
  ASSUME QuotaInv, NEW r \in Requests, stage[r] = "accepted",
         handle[r].rid # NoReservation, quotaFile.date = handle[r].day, CommitLate(r),
         UNCHANGED <<today, expired, handle, created>>
  PROVE  QuotaInv'
<1>1. PICK s \in Requests : s = handle[r].rid  BY DEF QuotaInv, QuotaTypeOK
<1>2. quotaFile.date \in Days  BY DEF QuotaInv, QuotaTypeOK
<1>3. PICK f : f = Load(quotaFile.date)  OBVIOUS
<1>4. IsLoaded(f, quotaFile.date)  BY <1>2, <1>3, Loaded
<1>5. /\ s \notin f.resv
      /\ IF IsCharged(f, s) \/ Fits(f, UnitsOf[s])
           THEN /\ quotaFile' = ChargeOnce(f, s) /\ BillOnce(f, s)
                /\ stage' = [stage EXCEPT ![r] = "done"]
           ELSE /\ quotaFile' = f /\ NoBill
                /\ stage' = [stage EXCEPT ![r] = "uncommitted"]
  BY <1>1, <1>3 DEF CommitLate, Become
<1>6. /\ f \in FileType /\ f.date = quotaFile.date /\ f.idem = quotaFile.idem
      /\ f.resv = quotaFile.resv \ expired
      /\ f.resv \in SUBSET Requests /\ f.usage \in Nat /\ f.usage + Pending(f.resv) <= Limit
  BY <1>4 DEF IsLoaded, FileType
<1>7. CASE IsCharged(f, s) \/ Fits(f, UnitsOf[s])
  <2>1. /\ quotaFile' = ChargeOnce(f, s) /\ BillOnce(f, s)
        /\ stage' = [stage EXCEPT ![r] = "done"]
    BY <1>5, <1>7
  <2>2. /\ quotaFile' \in FileType /\ quotaFile'.date = f.date /\ quotaFile'.resv = f.resv
        /\ IsCharged(f, s) => quotaFile' = f
        /\ ~IsCharged(f, s) => /\ quotaFile'.usage = f.usage + UnitsOf[s]
                               /\ quotaFile'.idem = f.idem \cup KeysOf(s)
    <3>1. PICK g : g = quotaFile'  OBVIOUS
    <3>2. g = ChargeOnce(f, s)  BY <2>1, <3>1
    <3>3. /\ g \in FileType /\ g.date = f.date /\ g.resv = f.resv
          /\ IsCharged(f, s) => g = f
          /\ ~IsCharged(f, s) => /\ g.usage = f.usage + UnitsOf[s]
                                 /\ g.idem = f.idem \cup KeysOf(s)
      <4>1. f \in FileType /\ s \in Requests  BY <1>1, <1>6
      <4> QED  BY <3>2, <4>1, ChargedFile
    <3> QED  BY <3>1, <3>3
  <2>3. /\ BillsFollowFile' /\ ChargesComplete' /\ ChargesHaveTasks'
        /\ bill' \in [Days -> [Ids -> Nat]] /\ crossed' = crossed
        /\ Unbridged => IsCharged(quotaFile', r)
    BY <1>1, <1>6, <2>1, CommitCharges
  <2>4. /\ stage'[r] = "done" /\ \A q \in Requests \ {r} : stage'[q] = stage[q]
        /\ stage' \in [Requests -> RequestStages]
    BY <2>1 DEF QuotaInv, QuotaTypeOK, RequestStages
  <2>5. quotaFile'.usage + Pending(quotaFile'.resv) <= Limit
    <3>1. Pending(f.resv) \in Nat /\ UnitsOf[s] \in Nat
      BY <1>6, PendingIsNat, QuotaAssumption
    <3>2. Pending(quotaFile'.resv) = Pending(f.resv)  BY <2>2
    <3>3. CASE IsCharged(f, s)  BY <3>2, <3>3, <2>2, <1>6
    <3>4. CASE ~IsCharged(f, s)
      <4>1. f.usage + Pending(f.resv) + UnitsOf[s] <= Limit  BY <3>4, <1>7 DEF Fits
      <4> QED  BY <3>1, <3>2, <3>4, <4>1, <2>2, <1>6, QuotaAssumption
    <3> QED  BY <3>3, <3>4
  <2>6. quotaFile.idem \subseteq quotaFile'.idem  BY <1>6, <2>2
  <2>7. /\ quotaFile'.resv \subseteq quotaFile.resv
        /\ \A q \in quotaFile.resv : q \in quotaFile'.resv \/ q \in expired
    BY <1>6, <2>2
  <2>8. Settles
    BY <1>6, <2>2, <2>3, <2>4, <2>5, <2>6, <2>7 DEF Settles
  <2> QED  BY <2>3, <2>8, QuotaSettles
<1>8. CASE ~(IsCharged(f, s) \/ Fits(f, UnitsOf[s]))
  <2>1. /\ quotaFile' = f /\ UNCHANGED <<bill, crossed>>
        /\ stage' = [stage EXCEPT ![r] = "uncommitted"]
    BY <1>5, <1>8 DEF NoBill
  <2>2. /\ stage'[r] = "uncommitted" /\ \A q \in Requests \ {r} : stage'[q] = stage[q]
        /\ stage' \in [Requests -> RequestStages]
    BY <2>1 DEF QuotaInv, QuotaTypeOK, RequestStages
  <2>3. ~crossed /\ handle[r].rid = r => r \in expired
    <3> SUFFICES ASSUME ~crossed, handle[r].rid = r PROVE r \in expired
      OBVIOUS
    <3>1. r \in quotaFile.resv \/ IsCharged(quotaFile, r) \/ r \in expired
      BY DEF QuotaInv, ReservedOrCharged
    <3>2. s = r /\ ~IsCharged(quotaFile, r)  BY <1>1, <1>6, <1>8 DEF IsCharged
    <3> QED  BY <3>1, <3>2, <1>5, <1>6
  <2>4. /\ BillsFollowFile' /\ ChargesComplete' /\ ChargesHaveTasks'
    BY <2>1, <1>6 DEF QuotaInv, BillsFollowFile, ChargesComplete, ChargesHaveTasks
  <2>5. Settles
    BY <1>6, <2>1, <2>2, <2>3 DEF Settles, QuotaInv, QuotaTypeOK
  <2> QED  BY <2>4, <2>5, QuotaSettles
<1> QED  BY <1>7, <1>8

\* An accepted request commits, in whichever way its reservation is found.
LEMMA QuotaCommit ==
  ASSUME QuotaInv, NEW r \in Requests, Commit(r)
  PROVE  QuotaInv'
BY QuotaCommitNothing, QuotaCommitReserved, QuotaCommitLate DEF Commit

\* Only the first holder takes its reservation out, and it has failed.
LEMMA QuotaCancel ==
  ASSUME QuotaInv, NEW r \in Requests, Cancel(r)
  PROVE  QuotaInv'
<1>1. handle[r].day \in Days  BY DEF QuotaInv, QuotaTypeOK
<1>2. PICK f : f = Load(handle[r].day)  OBVIOUS
<1>3. IsLoaded(f, handle[r].day)  BY <1>1, <1>2, Loaded
<1>4. PICK s : s = handle[r].rid  OBVIOUS
<1>5. /\ stage[r] = "rejected" /\ stage' = [stage EXCEPT ![r] = "failed"]
      /\ UNCHANGED <<today, expired, handle, created, bill, crossed>>
      /\ IF MayCancel(r) /\ s \in f.resv THEN quotaFile' = [f EXCEPT !.resv = f.resv \ {s}]
         ELSE quotaFile' = quotaFile
  BY <1>2, <1>4 DEF Cancel, Become, NoBill
<1>6. /\ stage'[r] = "failed" /\ \A q \in Requests \ {r} : stage'[q] = stage[q]
      /\ stage' \in [Requests -> RequestStages]
  BY <1>5 DEF QuotaInv, QuotaTypeOK, RequestStages
<1>7. CASE MayCancel(r) /\ s \in f.resv
  <2>1. s = r
    BY <1>4, <1>7 DEF MayCancel, QuotaInv, HandlesShare, QuotaTypeOK
  <2>2. /\ f \in FileType /\ f.date = quotaFile.date /\ f.idem = quotaFile.idem
        /\ f.resv = quotaFile.resv \ expired
        /\ f.resv \in SUBSET Requests /\ f.usage \in Nat
        /\ f.usage + Pending(f.resv) <= Limit
    BY <1>3, <1>7 DEF IsLoaded, FileType
  <2>3. /\ quotaFile' \in FileType /\ quotaFile'.date = f.date /\ quotaFile'.idem = f.idem
        /\ quotaFile'.usage = f.usage /\ quotaFile'.resv = f.resv \ {r}
    BY <1>5, <1>7, <2>1, <2>2 DEF FileType
  <2>4. quotaFile'.usage + Pending(quotaFile'.resv) <= Limit
    <3>1. Pending(f.resv \ {r}) <= Pending(f.resv)
      BY <2>2, PendingMonotone
    <3>2. Pending(f.resv \ {r}) \in Nat /\ Pending(f.resv) \in Nat  BY <2>2, PendingIsNat
    <3>3. Pending(quotaFile'.resv) = Pending(f.resv \ {r})  BY <2>3
    <3> QED  BY <3>1, <3>2, <3>3, <2>2, <2>3, QuotaAssumption
  <2>5. Settles
    BY <1>5, <1>6, <2>2, <2>3, <2>4 DEF Settles, QuotaInv, QuotaTypeOK
  <2>6. BillsFollowFile' /\ ChargesComplete' /\ ChargesHaveTasks'
    BY <1>5, <2>2, <2>3 DEF QuotaInv, BillsFollowFile, ChargesComplete, ChargesHaveTasks
  <2> QED  BY <2>5, <2>6, QuotaSettles
<1>8. CASE ~(MayCancel(r) /\ s \in f.resv)
  <2>1. quotaFile' = quotaFile  BY <1>5, <1>8
  <2>2. Settles
    BY <1>5, <1>6, <2>1 DEF Settles, QuotaInv, QuotaTypeOK, FileType, FileWithinLimit
  <2>3. BillsFollowFile' /\ ChargesComplete' /\ ChargesHaveTasks'
    BY <1>5, <2>1 DEF QuotaInv, BillsFollowFile, ChargesComplete, ChargesHaveTasks
  <2> QED  BY <2>2, <2>3, QuotaSettles
<1> QED  BY <1>7, <1>8

\* A start charges the reservations of created tasks: no two share an
\* identifier, and none that was charged is among them.
LEMMA QuotaReconcile ==
  ASSUME QuotaInv, Reconcile
  PROVE  QuotaInv'
<1> DEFINE owed == {s \in Settled : ~IsCharged(quotaFile, s)}
           left == quotaFile.resv \ (Settled \cup expired)
<1>1. PICK f \in FileType : f = quotaFile  BY DEF QuotaInv, QuotaTypeOK, FileType
<1>2. /\ quotaFile.date = today
      /\ quotaFile' = [f EXCEPT !.usage = f.usage + Pending(owed),
                                !.idem = f.idem \cup UNION {KeysOf(s) : s \in owed},
                                !.resv = left]
      /\ Bill(today, owed)
      /\ UNCHANGED <<today, expired, stage, handle, created>>
  BY <1>1 DEF Reconcile
<1>3. /\ f.resv \in SUBSET Requests /\ f.idem \in SUBSET Ids /\ f.usage \in Nat
      /\ f.date \in Days
  BY DEF FileType
<1>4. /\ owed \in SUBSET f.resv /\ left \in SUBSET f.resv /\ owed \cap left = {}
      /\ \A s \in f.resv : s \in left \/ s \in owed \/ s \in expired \/ IsCharged(quotaFile, s)
  BY <1>1 DEF Settled
<1>5. \A s \in owed : KeysOf(s) \in SUBSET Ids /\ KeysOf(s) \cap quotaFile.idem = {}
  BY <1>3, <1>4, QuotaAssumption DEF KeysOf, IsCharged
<1>6. \A s \in owed : \E t \in created : KeysOf(t) \cap KeysOf(s) # {}
  BY DEF Settled, KeysOf
<1>7. \A s, t \in owed : s # t => KeysOf(s) \cap KeysOf(t) = {}
  BY <1>1, <1>4 DEF QuotaInv, ReservationsDisjoint
<1> HIDE DEF owed, left
<1>8. UNION {KeysOf(s) : s \in owed} \in SUBSET Ids  BY <1>5
<1>9. Pending(owed) \in Nat /\ Pending(left) \in Nat /\ Pending(f.resv) \in Nat
  <2>1. owed \in SUBSET Requests /\ left \in SUBSET Requests  BY <1>3, <1>4
  <2> QED  BY <2>1, <1>3, PendingIsNat
<1>10. f.usage + Pending(owed) \in Nat  BY <1>3, <1>9
<1>11. f.idem \cup UNION {KeysOf(s) : s \in owed} \in SUBSET Ids  BY <1>3, <1>8
<1>12. /\ quotaFile'.date = f.date /\ quotaFile'.resv = left
       /\ quotaFile'.usage = f.usage + Pending(owed)
       /\ quotaFile'.idem = f.idem \cup UNION {KeysOf(s) : s \in owed}
  BY <1>2 DEF FileType
<1>13. quotaFile' \in FileType
  <2>1. left \in SUBSET Requests  BY <1>3, <1>4
  <2> QED  BY <1>2, <1>10, <1>11, <2>1 DEF FileType
<1>14. \A i : i \in quotaFile'.idem <=> i \in f.idem \/ \E s \in owed : i \in KeysOf(s)
  BY <1>12
<1>15. quotaFile'.usage + Pending(quotaFile'.resv) <= Limit
  <2>1. owed \in SUBSET Requests /\ left \in SUBSET Requests /\ owed \cup left \in SUBSET f.resv
    BY <1>3, <1>4
  <2>2. Pending(owed \cup left) = Pending(owed) + Pending(left)
    BY <2>1, <1>4, PendingUnion
  <2>3. Pending(owed \cup left) <= Pending(f.resv)  BY <2>1, <1>3, PendingMonotone
  <2>4. f.usage + Pending(f.resv) <= Limit  BY <1>1 DEF QuotaInv, FileWithinLimit
  <2>5. Pending(quotaFile'.resv) = Pending(left)  BY <1>12
  <2> QED  BY <2>2, <2>3, <2>4, <2>5, <1>3, <1>9, <1>12, QuotaAssumption
<1>16. \A i \in Ids : /\ Cardinality({s \in owed : i \in KeysOf(s)}) \in {0, 1}
                      /\ Cardinality({s \in owed : i \in KeysOf(s)}) # 0 => i \notin f.idem
                      /\ i \notin quotaFile'.idem =>
                           Cardinality({s \in owed : i \in KeysOf(s)}) = 0
  <2> SUFFICES ASSUME NEW i \in Ids
               PROVE  /\ Cardinality({s \in owed : i \in KeysOf(s)}) \in {0, 1}
                      /\ Cardinality({s \in owed : i \in KeysOf(s)}) # 0 => i \notin f.idem
                      /\ i \notin quotaFile'.idem =>
                           Cardinality({s \in owed : i \in KeysOf(s)}) = 0
    OBVIOUS
  <2>1. CASE \E s \in owed : i \in KeysOf(s)
    <3>1. PICK s \in owed : i \in KeysOf(s)  BY <2>1
    <3>2. {t \in owed : i \in KeysOf(t)} = {s}  BY <3>1, <1>7
    <3>3. Cardinality({t \in owed : i \in KeysOf(t)}) = 1  BY <3>2, FS_Singleton
    <3>4. i \notin f.idem /\ i \in quotaFile'.idem  BY <3>1, <1>1, <1>5, <1>14
    <3> QED  BY <3>3, <3>4
  <2>2. CASE ~\E s \in owed : i \in KeysOf(s)
    <3>1. {t \in owed : i \in KeysOf(t)} = {}  BY <2>2
    <3>2. Cardinality({t \in owed : i \in KeysOf(t)}) = 0  BY <3>1, FS_EmptySet
    <3> QED  BY <3>2
  <2> QED  BY <2>1, <2>2
<1>17. today \in Days /\ bill \in [Days -> [Ids -> Nat]]  BY DEF QuotaInv, QuotaTypeOK
<1>18. /\ crossed' = crossed
       /\ bill' = [bill EXCEPT ![today] =
                     [i \in Ids |-> bill[today][i] + Cardinality({s \in owed : i \in KeysOf(s)})]]
  BY <1>2 DEF Bill
<1>19. /\ \A d \in Days : d # today => bill'[d] = bill[d]
       /\ \A i \in Ids :
            bill'[today][i] = bill[today][i] + Cardinality({s \in owed : i \in KeysOf(s)})
  BY <1>17, <1>18
<1>20. bill' \in [Days -> [Ids -> Nat]]
  <2>1. \A i \in Ids : Cardinality({s \in owed : i \in KeysOf(s)}) \in Nat  BY <1>16
  <2>2. [i \in Ids |-> bill[today][i] + Cardinality({s \in owed : i \in KeysOf(s)})]
          \in [Ids -> Nat]
    BY <2>1, <1>17
  <2> QED  BY <2>2, <1>17, <1>18
<1>21. BillsFollowFile'
  <2> SUFFICES ASSUME ~crossed', NEW d \in Days, NEW i \in Ids
               PROVE  /\ bill'[d][i] <= 1
                      /\ d > today \/ (d = today /\ i \notin quotaFile'.idem)
                           => bill'[d][i] = 0
    BY <1>1, <1>2, <1>12 DEF BillsFollowFile
  <2>1. /\ bill[d][i] <= 1
        /\ d > today \/ (d = today /\ i \notin f.idem) => bill[d][i] = 0
    BY <1>1, <1>2, <1>18 DEF QuotaInv, BillsFollowFile
  <2>2. d \in Nat /\ today \in Nat /\ bill[d][i] \in Nat
    BY <1>17, QuotaAssumption DEF Days
  <2>3. CASE d = today
    <3>1. PICK n : n = Cardinality({s \in owed : i \in KeysOf(s)})  OBVIOUS
    <3>2. /\ n \in {0, 1} /\ (n # 0 => i \notin f.idem)
          /\ (i \notin quotaFile'.idem => n = 0) /\ bill'[d][i] = bill[d][i] + n
      BY <3>1, <2>3, <1>16, <1>19
    <3>3. i \notin quotaFile'.idem => i \notin f.idem  BY <1>14
    <3> QED  BY <3>2, <3>3, <2>1, <2>2, <2>3
  <2>4. CASE d # today
    <3>1. bill'[d][i] = bill[d][i]  BY <2>4, <1>19
    <3> QED  BY <3>1, <2>1, <2>4
  <2> QED  BY <2>3, <2>4
<1>22. ChargesComplete'
  <2> SUFFICES ASSUME NEW i \in quotaFile'.idem
               PROVE  \E s \in Requests : i \in KeysOf(s) /\ KeysOf(s) \subseteq quotaFile'.idem
    BY DEF ChargesComplete
  <2>1. CASE i \in f.idem
    <3>1. PICK s \in Requests : i \in KeysOf(s) /\ KeysOf(s) \subseteq f.idem
      BY <2>1, <1>1 DEF QuotaInv, ChargesComplete
    <3> QED  BY <3>1, <1>14
  <2>2. CASE \E s \in owed : i \in KeysOf(s)
    BY <2>2, <1>3, <1>4, <1>14
  <2> QED  BY <2>1, <2>2, <1>14
<1>23. ChargesHaveTasks'
  <2> SUFFICES ASSUME Unbridged, NEW i \in quotaFile'.idem
               PROVE  \E u \in created, x \in Requests :
                        i \in KeysOf(x) /\ KeysOf(x) \cap KeysOf(u) # {}
    BY <1>2 DEF ChargesHaveTasks
  <2>1. CASE i \in f.idem  BY <2>1, <1>1 DEF QuotaInv, ChargesHaveTasks
  <2>2. CASE \E s \in owed : i \in KeysOf(s)
    <3>1. PICK s \in owed : i \in KeysOf(s)  BY <2>2
    <3>2. PICK t \in created : KeysOf(t) \cap KeysOf(s) # {}  BY <1>6
    <3>3. s \in Requests  BY <1>3, <1>4
    <3> QED  BY <3>1, <3>2, <3>3
  <2> QED  BY <2>1, <2>2, <1>14
<1>24. \A s \in quotaFile.resv : \/ s \in quotaFile'.resv \/ s \in expired
                                 \/ IsCharged(quotaFile', s)
  <2> SUFFICES ASSUME NEW s \in f.resv, s \notin left, s \notin expired
               PROVE  IsCharged(quotaFile', s)
    BY <1>1, <1>12
  <2>1. KeysOf(s) # {}  BY DEF KeysOf
  <2>2. CASE s \in owed  BY <2>1, <2>2, <1>14 DEF IsCharged
  <2>3. CASE IsCharged(quotaFile, s)  BY <2>3, <1>1, <1>14 DEF IsCharged
  <2> QED  BY <2>2, <2>3, <1>4
<1>25. Settles
  <2>1. quotaFile.idem \subseteq quotaFile'.idem /\ quotaFile'.resv \subseteq quotaFile.resv
        /\ quotaFile'.date = quotaFile.date
    BY <1>1, <1>4, <1>12, <1>14
  <2> QED
    BY <2>1, <1>2, <1>13, <1>15, <1>18, <1>20, <1>24 DEF Settles, QuotaInv, QuotaTypeOK
<1> QED  BY <1>21, <1>22, <1>23, <1>25, QuotaSettles

-----------------------------------------------------------------------------
\* Before the first request the file is empty.
LEMMA QuotaInvInit == QuotaInit => QuotaInv
<1> SUFFICES ASSUME QuotaInit PROVE QuotaInv
  OBVIOUS
<1>1. 0 \in Days  BY QuotaAssumption DEF Days
<1>2. /\ quotaFile \in FileType /\ quotaFile.date = 0 /\ quotaFile.usage = 0
      /\ quotaFile.idem = {} /\ quotaFile.resv = {}
  BY <1>1 DEF QuotaInit, EmptyFile, FileType
<1>3. \A r \in Requests : /\ handle[r].rid = NoReservation /\ handle[r].day = 0
                          /\ stage[r] = "new"
  BY DEF QuotaInit, NoHandle
<1>4. QuotaTypeOK
  BY <1>1, <1>2 DEF QuotaInit, QuotaTypeOK, NoHandle, FileType, RequestStages
<1>5. FileWithinLimit  BY <1>2, PendingEmpty, QuotaAssumption DEF FileWithinLimit
<1>6. ReservationsDisjoint /\ ChargesComplete /\ ChargesHaveTasks
  BY <1>2 DEF ReservationsDisjoint, ChargesComplete, ChargesHaveTasks
<1>7. HandlesShare /\ AcceptedHaveTasks /\ SuccessIsCharged /\ OwnReservationHolds
      /\ ReservedOrCharged
  BY <1>3 DEF HandlesShare, AcceptedHaveTasks, SuccessIsCharged, OwnReservationHolds,
              ReservedOrCharged
<1>8. DaysInOrder /\ BillsFollowFile
  BY <1>2, <1>3 DEF QuotaInit, DaysInOrder, BillsFollowFile, PastReserve
<1> QED  BY <1>4, <1>5, <1>6, <1>7, <1>8 DEF QuotaInv

\* Every step of the quota keeps the invariant.
LEMMA QuotaInvNext == QuotaInv /\ [QuotaNext]_quotaVars => QuotaInv'
<1> SUFFICES ASSUME QuotaInv, [QuotaNext]_quotaVars PROVE QuotaInv'
  OBVIOUS
<1>1. CASE UNCHANGED quotaVars
  BY <1>1 DEF quotaVars, QuotaInv, QuotaTypeOK, FileWithinLimit, ReservationsDisjoint,
     ChargesComplete, HandlesShare, AcceptedHaveTasks, ChargesHaveTasks, DaysInOrder,
     BillsFollowFile, ReservedOrCharged, SuccessIsCharged, OwnReservationHolds, IsCharged
<1>2. ASSUME NEW r \in Requests, Request(r) PROVE QuotaInv'
  BY <1>2, QuotaReadDay, QuotaReserve, QuotaSubmitAccepted, QuotaSubmitRejected,
     QuotaCommit, QuotaCancel DEF Request
<1> QED
  BY <1>1, <1>2, QuotaExpire, QuotaCrash, QuotaReconcile, QuotaNextDay DEF QuotaNext

\* The inductive invariant of the quota.
LEMMA QuotaInvariant == QuotaSpec => []QuotaInv
<1> QED  BY QuotaInvInit, QuotaInvNext, PTL DEF QuotaSpec

\* Through shared, expired, cancelled and late reservations, crashes and starts
\* the file stays within the limit, an identifier is charged once a day and for a
\* task, and who succeeds is charged (reserve, commit, cancel, reconcile).
THEOREM QuotaSafe == QuotaSpec => []QuotaIsSafe
<1>1. QuotaInv => ChargedOncePerDay  BY DEF QuotaInv, BillsFollowFile, ChargedOncePerDay
<1>2. QuotaInv => QuotaIsSafe  BY <1>1 DEF QuotaInv, QuotaIsSafe
<1> QED  BY <1>2, QuotaInvariant, PTL

-----------------------------------------------------------------------------
(* Imports of accounts *)

\* The records of the workers and of the jobs.
WorkerType ==
  [at: Steps, read: JobRecords, done: Nat, left: 0..Total,
   good: 0..Total, bad: Nat, sum: [added: Nat, skipped: Nat]]

JobType ==
  [id: Imports, status: JobStatuses, completed: Nat, failed: Nat,
   added: Nat, skipped: Nat]

SourceType == [is: {"absent", "present", "gone"}, job: JobRecords]

\* No two sources have an open job.
OneOpenJob ==
  \A s, t \in Sources : IsActive(JobOf(s)) /\ IsActive(JobOf(t)) => s = t

\* What a worker read is what is stored.
ReadsCurrent ==
  \A j \in Imports : actor[j].read # NoJob =>
    actor[j].at \in UpdateSteps /\ actor[j].read = JobOf(SourceOf[j])

\* No worker is alive before both stores are constructed.
NobodyBeforeBoot ==
  booted # Providers => \A j \in Imports : actor[j].at \notin LiveSteps

\* The id of a request that has not reserved its source is on no job.
NewIdsUnused ==
  \A j \in Imports : actor[j].at = "new" =>
    \A s \in Sources : HasJob(s) => JobOf(s).id # j

\* The accounts of a worker: until they are handed to the pool, every account
\* is left, fetched or failed; then every one is added, skipped or failed.
Collecting == {"new", "reserved", "begin", "fetch", "checkpoint", "saving", "adding"}
Counted(a) ==
  /\ a.at \in Collecting => /\ a.left + a.good <= Total
                            /\ a.left + a.good + a.bad >= Total
  /\ a.at \in {"saving", "adding"} => a.left = 0
  /\ a.at = "fetch" => a.left > 0
  /\ a.at \in {"added", "syncing", "sync", "finish"} =>
       a.sum.added + a.sum.skipped + a.bad >= Total

ImportInv ==
  /\ ImportTypeOK
  /\ OneOpenJob /\ WorkerOwnsOpenJob /\ ReadsCurrent /\ NobodyBeforeBoot
  /\ NewIdsUnused /\ (\A j \in Imports : Counted(actor[j]))
  /\ CompletedCoversAll

\* A stored job is none or a job, which has an import's id.
LEMMA StoredJobs ==
  ASSUME ImportTypeOK, NEW s \in Sources
  PROVE  /\ cfg[s] \in SourceType /\ JobOf(s) \in JobRecords
         /\ HasJob(s) => JobOf(s) \in JobType
         /\ IsActive(JobOf(s)) => HasJob(s)
BY DEF ImportTypeOK, SourceType, JobRecords, JobType, JobOf, HasJob, IsActive

\* Jobs are not the mark of none.
LEMMA JobsAreJobs ==
  ASSUME NEW m \in JobType
  PROVE  m # NoJob /\ m \in JobRecords
BY ImportAssumption DEF JobType, NoJob, JobRecords

\* The record of a worker.
LEMMA WorkerParts ==
  ASSUME ImportTypeOK, NEW j \in Imports
  PROVE  /\ actor[j] \in WorkerType /\ actor \in [Imports -> WorkerType]
         /\ SourceOf[j] \in Sources
BY ImportAssumption DEF ImportTypeOK, WorkerType

\* A worker that goes on keeps its counts and forgets what it read.
LEMMA GoRecord ==
  ASSUME ImportTypeOK, NEW j \in Imports, NEW to \in Steps, Go(j, to)
  PROVE  \E a \in WorkerType :
           /\ actor' = [actor EXCEPT ![j] = a] /\ a.at = to /\ a.read = NoJob
           /\ a.left = actor[j].left /\ a.good = actor[j].good
           /\ a.bad = actor[j].bad /\ a.sum = actor[j].sum
<1>1. PICK b \in WorkerType : b = actor[j]  BY WorkerParts
<1>2. PICK a : a = [b EXCEPT !.at = to, !.read = NoJob]  OBVIOUS
<1>3. NoJob \in JobRecords  BY DEF JobRecords
<1>4. a \in WorkerType  BY <1>2, <1>3 DEF WorkerType
<1>5. /\ a.at = to /\ a.read = NoJob /\ a.left = b.left /\ a.good = b.good
      /\ a.bad = b.bad /\ a.sum = b.sum
  BY <1>2 DEF WorkerType
<1>6. actor' = [actor EXCEPT ![j] = a]
  BY <1>1, <1>2, WorkerParts DEF Go
<1> QED  BY <1>1, <1>4, <1>5, <1>6

\* A worker does something and the jobs stay as they are.
LEMMA WorkerSteps ==
  ASSUME ImportInv, NEW j \in Imports, actor[j].at \in LiveSteps,
         NEW a \in WorkerType, actor' = [actor EXCEPT ![j] = a], Counted(a),
         a.at \in LiveSteps \cup {"ended", "lost"},
         a.read # NoJob => a.at \in UpdateSteps /\ a.read = JobOf(SourceOf[j]),
         UNCHANGED <<cfg, booted, restarts>>, storeFailures' \in 0..MaxStoreFailures
  PROVE  ImportInv'
<1>1. ImportTypeOK  BY DEF ImportInv
<1>2. actor \in [Imports -> WorkerType]  BY <1>1, WorkerParts
<1>3. /\ actor'[j] = a /\ \A k \in Imports \ {j} : actor'[k] = actor[k]
      /\ actor' \in [Imports -> WorkerType]
  BY <1>2
<1>4. ImportTypeOK'
  BY <1>1, <1>3 DEF ImportTypeOK, WorkerType
<1>5. (OneOpenJob /\ CompletedCoversAll)'
  BY DEF ImportInv, OneOpenJob, CompletedCoversAll, JobOf, HasJob
<1>6. WorkerOwnsOpenJob'
  BY <1>3 DEF ImportInv, WorkerOwnsOpenJob, OwnJob, HasJob, JobOf
<1>7. ReadsCurrent'
  BY <1>3 DEF ImportInv, ReadsCurrent, JobOf
<1>8. booted = Providers  BY DEF ImportInv, NobodyBeforeBoot
<1>9. NobodyBeforeBoot'  BY <1>8 DEF NobodyBeforeBoot
<1>10. a.at # "new"  BY DEF LiveSteps
<1>11. NewIdsUnused'
  BY <1>3, <1>10 DEF ImportInv, NewIdsUnused, HasJob, JobOf
<1>12. (\A k \in Imports : Counted(actor[k]))'
  BY <1>3 DEF ImportInv
<1> QED  BY <1>4, <1>5, <1>6, <1>7, <1>9, <1>11, <1>12 DEF ImportInv

\* A worker does something and its job is written.
LEMMA JobSteps ==
  ASSUME ImportInv, NEW j \in Imports, actor[j].at \in LiveSteps \cup {"new"},
         actor[j].at = "new" => booted = Providers,
         actor[j].at = "new" => \A s \in Sources : ~IsActive(JobOf(s)),
         NEW a \in WorkerType, actor' = [actor EXCEPT ![j] = a], Counted(a),
         a.at \in LiveSteps \cup {"ended"}, a.read = NoJob,
         NEW m \in JobType, m.id = j,
         cfg' = [cfg EXCEPT ![SourceOf[j]].job = m],
         a.at \in LiveSteps => m.status \in {"pending", "running"},
         m.status = "completed" => m.added + m.skipped + m.failed >= Total,
         UNCHANGED <<booted, restarts, storeFailures>>
  PROVE  ImportInv'
<1>1. ImportTypeOK  BY DEF ImportInv
<1>2. actor \in [Imports -> WorkerType]  BY <1>1, WorkerParts
<1>3. /\ actor'[j] = a /\ \A k \in Imports \ {j} : actor'[k] = actor[k]
      /\ actor' \in [Imports -> WorkerType]
  BY <1>2
<1>4. PICK s \in Sources : s = SourceOf[j]  BY <1>1, WorkerParts
<1>5. m # NoJob /\ m \in JobRecords  BY JobsAreJobs
<1>6. /\ cfg'[s].job = m /\ \A t \in Sources \ {s} : cfg'[t] = cfg[t]
      /\ cfg' \in [Sources -> SourceType]
  <2>1. cfg \in [Sources -> SourceType]  BY <1>1 DEF ImportTypeOK, SourceType
  <2>2. PICK c \in SourceType : c = cfg[s]  BY <2>1
  <2>3. PICK d : d = [c EXCEPT !.job = m]  OBVIOUS
  <2>4. d \in SourceType /\ d.job = m  BY <2>3, <1>5 DEF SourceType
  <2>5. cfg' = [cfg EXCEPT ![s] = d]  BY <2>1, <2>2, <2>3, <1>4
  <2>6. cfg'[s] = d  BY <2>1, <2>5
  <2>7. \A t \in Sources \ {s} : cfg'[t] = cfg[t]  BY <2>1, <2>5
  <2>8. cfg' \in [Sources -> SourceType]  BY <2>1, <2>4, <2>5
  <2> QED  BY <2>4, <2>6, <2>7, <2>8
<1>7. ImportTypeOK'
  BY <1>1, <1>3, <1>6 DEF ImportTypeOK, WorkerType, SourceType
<1>8. \A t \in Sources \ {s} : ~IsActive(JobOf(t))
  BY <1>4 DEF ImportInv, WorkerOwnsOpenJob, OneOpenJob
<1>9. \A t \in Sources \ {s} : JobOf(t)' = JobOf(t)  BY <1>6 DEF JobOf
<1>10. JobOf(s)' = m  BY <1>6 DEF JobOf
<1>11. OneOpenJob'  BY <1>8, <1>9 DEF OneOpenJob, IsActive
<1>12. \A k \in Imports \ {j} : actor[k].at \notin LiveSteps
  <2>1. SUFFICES ASSUME NEW k \in Imports, k # j, actor[k].at \in LiveSteps
                 PROVE  FALSE
    OBVIOUS
  <2>2. OwnJob(k) /\ IsActive(JobOf(SourceOf[k])) /\ SourceOf[k] \in Sources
    BY <2>1, <1>1, WorkerParts DEF ImportInv, WorkerOwnsOpenJob
  <2>3. actor[j].at \in LiveSteps  BY <2>2
  <2>4. OwnJob(j) /\ IsActive(JobOf(SourceOf[j])) /\ SourceOf[j] \in Sources
    BY <2>3, <1>1, WorkerParts DEF ImportInv, WorkerOwnsOpenJob
  <2>5. SourceOf[k] = SourceOf[j]  BY <2>2, <2>4 DEF ImportInv, OneOpenJob
  <2> QED  BY <2>1, <2>2, <2>4, <2>5 DEF OwnJob
<1>13. WorkerOwnsOpenJob'
  <2>1. SUFFICES ASSUME NEW k \in Imports, actor'[k].at \in LiveSteps
                 PROVE  (OwnJob(k) /\ IsActive(JobOf(SourceOf[k])))'
    BY DEF WorkerOwnsOpenJob
  <2>2. k = j  BY <2>1, <1>3, <1>12
  <2>3. a.at \in LiveSteps  BY <2>1, <2>2, <1>3
  <2>4. JobOf(SourceOf[j])' = m  BY <1>10, <1>4
  <2> QED  BY <2>2, <2>3, <2>4, <1>5 DEF OwnJob, HasJob, IsActive, JobOf
<1>14. ReadsCurrent'
  <2>1. UpdateSteps \subseteq LiveSteps  BY DEF UpdateSteps, LiveSteps, Steps
  <2>2. \A k \in Imports : actor'[k].read = NoJob
    BY <1>3, <1>12, <2>1 DEF ImportInv, ReadsCurrent
  <2> QED  BY <2>2 DEF ReadsCurrent
<1>15. booted = Providers  BY DEF ImportInv, NobodyBeforeBoot
<1>16. NobodyBeforeBoot'  BY <1>15 DEF NobodyBeforeBoot
<1>17. a.at # "new"  BY DEF LiveSteps
<1>18. NewIdsUnused'
  <2>1. SUFFICES ASSUME NEW k \in Imports, actor'[k].at = "new",
                        NEW t \in Sources, HasJob(t)'
                 PROVE  JobOf(t)'.id # k
    BY DEF NewIdsUnused
  <2>2. k # j /\ actor[k].at = "new"  BY <2>1, <1>3, <1>17
  <2>3. CASE t = s  BY <2>2, <2>3, <1>10
  <2>4. CASE t # s
    BY <2>1, <2>2, <2>4, <1>9 DEF ImportInv, NewIdsUnused, HasJob
  <2> QED  BY <2>3, <2>4
<1>19. (\A k \in Imports : Counted(actor[k]))'
  BY <1>3 DEF ImportInv
<1>20. CompletedCoversAll'
  <2>1. SUFFICES ASSUME NEW t \in Sources, HasJob(t)', JobOf(t)'.status = "completed"
                 PROVE  JobOf(t)'.added + JobOf(t)'.skipped + JobOf(t)'.failed >= Total
    BY DEF CompletedCoversAll
  <2>2. CASE t = s  BY <2>1, <2>2, <1>10
  <2>3. CASE t # s
    BY <2>1, <2>3, <1>9 DEF ImportInv, CompletedCoversAll, HasJob
  <2> QED  BY <2>2, <2>3
<1> QED  BY <1>7, <1>11, <1>13, <1>14, <1>16, <1>18, <1>19, <1>20 DEF ImportInv

\* What a step does to the jobs that are there before and after it.
JobsGoOn ==
  /\ \A s \in Sources : Kept(s) /\ ~IsActive(JobOf(s)) =>
       cfg'[s].job.status = JobOf(s).status
  /\ \A s \in Sources : Kept(s) => cfg'[s].job.failed >= JobOf(s).failed

\* Jobs that are not written go on as they are.
LEMMA JobsUntouched ==
  ASSUME ImportTypeOK, UNCHANGED cfg
  PROVE  JobsGoOn
<1>1. \A s \in Sources : HasJob(s) => JobOf(s).failed \in Nat
  BY StoredJobs DEF JobType
<1> QED  BY <1>1 DEF JobsGoOn, Kept, JobOf

\* A source is added.
LEMMA ImportAddSource ==
  ASSUME ImportInv, NEW s \in Sources, AddSource(s)
  PROVE  ImportInv' /\ JobsGoOn
<1>1. ImportTypeOK  BY DEF ImportInv
<1>2. UNCHANGED <<actor, booted, restarts, storeFailures>>  BY DEF AddSource, Quiet
<1>3. cfg \in [Sources -> SourceType]  BY <1>1 DEF ImportTypeOK, SourceType
<1>4. PICK c \in SourceType : c = cfg[s]  BY <1>3
<1>5. PICK d : d = [c EXCEPT !.is = "present"]  OBVIOUS
<1>6. d \in SourceType /\ d.job = c.job  BY <1>5 DEF SourceType
<1>7. cfg' = [cfg EXCEPT ![s] = d]  BY <1>3, <1>4, <1>5 DEF AddSource
<1>8. cfg' \in [Sources -> SourceType] /\ \A t \in Sources : cfg'[t].job = cfg[t].job
  BY <1>3, <1>4, <1>6, <1>7
<1>9. \A t \in Sources : JobOf(t)' = JobOf(t)  BY <1>8 DEF JobOf
<1>10. ImportTypeOK'  BY <1>1, <1>2, <1>8 DEF ImportTypeOK, SourceType
<1>11. (OneOpenJob /\ CompletedCoversAll)'
  BY <1>9 DEF ImportInv, OneOpenJob, CompletedCoversAll, HasJob
<1>12. \A j \in Imports : JobOf(SourceOf[j])' = JobOf(SourceOf[j])
  BY <1>1, <1>9, WorkerParts
<1>13. WorkerOwnsOpenJob'
  BY <1>2, <1>12 DEF ImportInv, WorkerOwnsOpenJob, OwnJob, HasJob
<1>14. ReadsCurrent'  BY <1>2, <1>12 DEF ImportInv, ReadsCurrent
<1>15. NobodyBeforeBoot'  BY <1>2 DEF ImportInv, NobodyBeforeBoot
<1>16. NewIdsUnused'  BY <1>2, <1>9 DEF ImportInv, NewIdsUnused, HasJob
<1>17. (\A j \in Imports : Counted(actor[j]))'  BY <1>2 DEF ImportInv
<1>18. JobsGoOn
  <2>1. \A t \in Sources : HasJob(t) => JobOf(t).failed \in Nat
    BY <1>1, StoredJobs DEF JobType
  <2> QED  BY <2>1, <1>8 DEF JobsGoOn, Kept, JobOf
<1> QED
  BY <1>10, <1>11, <1>13, <1>14, <1>15, <1>16, <1>17, <1>18 DEF ImportInv

\* A source without an open job is deleted, and its ended job with it.
LEMMA ImportDeleteSource ==
  ASSUME ImportInv, NEW s \in Sources, DeleteSource(s)
  PROVE  ImportInv' /\ JobsGoOn
<1>1. ImportTypeOK  BY DEF ImportInv
<1>2. UNCHANGED <<actor, booted, restarts, storeFailures>>  BY DEF DeleteSource, Quiet
<1>3. cfg \in [Sources -> SourceType]  BY <1>1 DEF ImportTypeOK, SourceType
<1>4. PICK d : d = [is |-> "gone", job |-> NoJob]  OBVIOUS
<1>5. d \in SourceType /\ d.job = NoJob  BY <1>4 DEF SourceType, JobRecords
<1>6. cfg' = [cfg EXCEPT ![s] = d]  BY <1>4 DEF DeleteSource
<1>7. /\ cfg' \in [Sources -> SourceType] /\ cfg'[s].job = NoJob
      /\ \A t \in Sources \ {s} : cfg'[t] = cfg[t]
  BY <1>3, <1>5, <1>6
<1>8. \A t \in Sources \ {s} : JobOf(t)' = JobOf(t)  BY <1>7 DEF JobOf
<1>9. JobOf(s)' = NoJob /\ ~HasJob(s)'  BY <1>7 DEF JobOf, HasJob
<1>10. ImportTypeOK'  BY <1>1, <1>2, <1>7 DEF ImportTypeOK, SourceType
<1>11. OneOpenJob'  BY <1>8, <1>9 DEF ImportInv, OneOpenJob, IsActive
<1>12. CompletedCoversAll'
  BY <1>8, <1>9 DEF ImportInv, CompletedCoversAll, HasJob
<1>13. ~IsActive(JobOf(s))  BY DEF DeleteSource, IdleSource
<1>14. \A j \in Imports : actor[j].at \in LiveSteps =>
         JobOf(SourceOf[j])' = JobOf(SourceOf[j])
  BY <1>1, <1>8, <1>13, WorkerParts DEF ImportInv, WorkerOwnsOpenJob
<1>15. WorkerOwnsOpenJob'
  BY <1>2, <1>14 DEF ImportInv, WorkerOwnsOpenJob, OwnJob, HasJob
<1>16. ReadsCurrent'
  BY <1>2, <1>14 DEF ImportInv, ReadsCurrent, UpdateSteps, LiveSteps, Steps
<1>17. NobodyBeforeBoot'  BY <1>2 DEF ImportInv, NobodyBeforeBoot
<1>18. NewIdsUnused'
  BY <1>2, <1>8, <1>9 DEF ImportInv, NewIdsUnused, HasJob
<1>19. (\A j \in Imports : Counted(actor[j]))'  BY <1>2 DEF ImportInv
<1>20. JobsGoOn
  <2>1. \A t \in Sources : HasJob(t) => JobOf(t).failed \in Nat
    BY <1>1, StoredJobs DEF JobType
  <2> QED  BY <2>1, <1>7 DEF JobsGoOn, Kept, JobOf
<1> QED
  BY <1>10, <1>11, <1>12, <1>15, <1>16, <1>17, <1>18, <1>19, <1>20 DEF ImportInv

\* A request reserves its source.
LEMMA ImportReserve ==
  ASSUME ImportInv, NEW j \in Imports, ReserveImport(j)
  PROVE  ImportInv' /\ JobsGoOn
<1>1. ImportTypeOK  BY DEF ImportInv
<1>2. PICK m : m = [id |-> j, status |-> "pending", completed |-> 0,
                    failed |-> 0, added |-> 0, skipped |-> 0]
  OBVIOUS
<1>3. m \in JobType /\ m.id = j /\ m.status = "pending"
  BY <1>2 DEF JobType, JobStatuses
<1>4. cfg' = [cfg EXCEPT ![SourceOf[j]].job = m]  BY <1>2 DEF ReserveImport
<1>5. /\ booted = Providers /\ actor[j].at = "new" /\ Go(j, "reserved")
      /\ \A t \in Sources : ~IsActive(JobOf(t))
      /\ UNCHANGED <<booted, restarts, storeFailures>>
  BY DEF ReserveImport, NoneActive, Quiet
<1>6. PICK a \in WorkerType :
        /\ actor' = [actor EXCEPT ![j] = a] /\ a.at = "reserved" /\ a.read = NoJob
        /\ a.left = actor[j].left /\ a.good = actor[j].good
        /\ a.bad = actor[j].bad /\ a.sum = actor[j].sum
  <2>1. "reserved" \in Steps  BY DEF Steps
  <2> QED  BY <1>1, <1>5, <2>1, GoRecord
<1>7. Counted(actor[j])  BY DEF ImportInv
<1>8. Counted(a)  BY <1>5, <1>6, <1>7 DEF Counted, Collecting
<1>9. a.at \in LiveSteps  BY <1>6 DEF LiveSteps, Steps
<1>10. ImportInv'  BY <1>3, <1>4, <1>5, <1>6, <1>8, <1>9, JobSteps
<1>11. PICK s \in Sources : s = SourceOf[j]  BY <1>1, WorkerParts
<1>12. cfg \in [Sources -> SourceType]  BY <1>1 DEF ImportTypeOK, SourceType
<1>13. /\ \A t \in Sources \ {s} : cfg'[t] = cfg[t]
       /\ cfg'[s].job.id = j
  BY <1>3, <1>4, <1>11, <1>12 DEF SourceType
<1>14. ~Kept(s)
  BY <1>5, <1>13 DEF ImportInv, NewIdsUnused, Kept
<1>15. \A t \in Sources : HasJob(t) => JobOf(t).failed \in Nat
  BY <1>1, StoredJobs DEF JobType
<1>16. JobsGoOn
  BY <1>13, <1>14, <1>15 DEF JobsGoOn, Kept, JobOf
<1> QED  BY <1>10, <1>16

\* A worker that is alive goes on to a step with its counts.
LEMMA ImportGoes ==
  ASSUME ImportInv, NEW j \in Imports, actor[j].at \in LiveSteps,
         NEW to \in LiveSteps \cup {"ended", "lost"}, Go(j, to),
         \A a \in WorkerType : a.at = to /\ a.left = actor[j].left
              /\ a.good = actor[j].good /\ a.bad = actor[j].bad
              /\ a.sum = actor[j].sum => Counted(a),
         UNCHANGED <<cfg, booted, restarts>>, storeFailures' \in 0..MaxStoreFailures
  PROVE  ImportInv' /\ JobsGoOn
<1>1. ImportTypeOK  BY DEF ImportInv
<1>2. to \in Steps  BY DEF LiveSteps, Steps
<1>3. PICK a \in WorkerType :
        /\ actor' = [actor EXCEPT ![j] = a] /\ a.at = to /\ a.read = NoJob
        /\ a.left = actor[j].left /\ a.good = actor[j].good
        /\ a.bad = actor[j].bad /\ a.sum = actor[j].sum
  BY <1>1, <1>2, GoRecord
<1>4. Counted(a)  BY <1>3
<1>5. ImportInv'  BY <1>3, <1>4, WorkerSteps
<1> QED  BY <1>1, <1>5, JobsUntouched

\* The thread starts, or it does not.
LEMMA ImportStart ==
  ASSUME ImportInv, NEW j \in Imports, StartWorker(j)
  PROVE  ImportInv' /\ JobsGoOn
<1>1. /\ actor[j].at = "reserved" /\ Counted(actor[j])
      /\ UNCHANGED <<cfg, booted, restarts, storeFailures>>
      /\ storeFailures' \in 0..MaxStoreFailures
  BY DEF StartWorker, Quiet, ImportInv, ImportTypeOK
<1>2. actor[j].at \in LiveSteps  BY <1>1 DEF LiveSteps, Steps
<1>3. PICK to \in {"begin", "failing"} : Go(j, to)  BY DEF StartWorker
<1>4. to \in LiveSteps  BY DEF LiveSteps, Steps
<1>5. \A a \in WorkerType : a.at = to /\ a.left = actor[j].left
         /\ a.good = actor[j].good /\ a.bad = actor[j].bad
         /\ a.sum = actor[j].sum => Counted(a)
  BY <1>1 DEF Counted, Collecting
<1> QED  BY <1>1, <1>2, <1>3, <1>4, <1>5, ImportGoes

\* A worker reads its job.
LEMMA ImportRead ==
  ASSUME ImportInv, NEW j \in Imports, ReadJob(j)
  PROVE  ImportInv' /\ JobsGoOn
<1>1. ImportTypeOK /\ Counted(actor[j])  BY DEF ImportInv
<1>2. /\ actor[j].at \in UpdateSteps
      /\ UNCHANGED <<cfg, booted, restarts, storeFailures>>
      /\ storeFailures' \in 0..MaxStoreFailures
  BY <1>1 DEF ReadJob, Quiet, ImportTypeOK
<1>3. actor[j].at \in LiveSteps  BY <1>2 DEF UpdateSteps, LiveSteps, Steps
<1>4. OwnJob(j) /\ HasJob(SourceOf[j])
  BY <1>3 DEF ImportInv, WorkerOwnsOpenJob, OwnJob
<1>5. actor' = [actor EXCEPT ![j].read = JobOf(SourceOf[j])]
  BY <1>4 DEF ReadJob
<1>6. PICK b \in WorkerType : b = actor[j]  BY <1>1, WorkerParts
<1>7. JobOf(SourceOf[j]) \in JobRecords  BY <1>1, WorkerParts, StoredJobs
<1>8. PICK job \in JobRecords : job = JobOf(SourceOf[j])  BY <1>7
<1>9. PICK a : a = [b EXCEPT !.read = job]  OBVIOUS
<1>10. /\ a \in WorkerType /\ a.read = job /\ a.at = b.at /\ a.left = b.left
       /\ a.good = b.good /\ a.bad = b.bad /\ a.sum = b.sum
  BY <1>9 DEF WorkerType
<1>11. actor' = [actor EXCEPT ![j] = a]
  BY <1>1, <1>5, <1>6, <1>8, <1>9, WorkerParts
<1>12. Counted(a)  BY <1>1, <1>6, <1>10 DEF Counted
<1>13. a.at \in UpdateSteps /\ a.at \in LiveSteps  BY <1>2, <1>3, <1>6, <1>10
<1>14. a.read = JobOf(SourceOf[j])  BY <1>8, <1>10
<1>15. ImportInv'  BY <1>2, <1>3, <1>10, <1>11, <1>12, <1>13, <1>14, WorkerSteps
<1> QED  BY <1>1, <1>2, <1>15, JobsUntouched

\* An account is fetched or fails.
LEMMA ImportFetch ==
  ASSUME ImportInv, NEW j \in Imports, RecordFetch(j)
  PROVE  ImportInv' /\ JobsGoOn
<1>1. ImportTypeOK /\ Counted(actor[j])  BY DEF ImportInv
<1>2. /\ actor[j].at = "fetch"
      /\ UNCHANGED <<cfg, booted, restarts, storeFailures>>
      /\ storeFailures' \in 0..MaxStoreFailures
  BY <1>1 DEF RecordFetch, Quiet, ImportTypeOK
<1>3. PICK b \in WorkerType : b = actor[j]  BY <1>1, WorkerParts
<1>4. PICK ok \in BOOLEAN, persist \in BOOLEAN :
        LET a == [b EXCEPT !.left = @ - 1, !.done = @ + 1,
                   !.good = IF ok THEN @ + 1 ELSE @, !.bad = IF ok THEN @ ELSE @ + 1]
        IN actor' = [actor EXCEPT ![j] =
            [a EXCEPT !.at = IF persist THEN "checkpoint"
                             ELSE CASE a.left > 0 -> "fetch"
                                    [] a.left = 0 /\ a.good = 0 -> "empty"
                                    [] OTHER -> "saving"]]
  BY <1>3 DEF RecordFetch
<1>5. PICK a : a = [b EXCEPT !.left = b.left - 1, !.done = b.done + 1,
                   !.good = IF ok THEN b.good + 1 ELSE b.good,
                   !.bad = IF ok THEN b.bad ELSE b.bad + 1]
  OBVIOUS
<1>6. PICK to : to = IF persist THEN "checkpoint"
                         ELSE CASE a.left > 0 -> "fetch"
                                [] a.left = 0 /\ a.good = 0 -> "empty"
                                [] OTHER -> "saving"
  OBVIOUS
<1>7. PICK c : c = [a EXCEPT !.at = to]  OBVIOUS
<1>8. actor' = [actor EXCEPT ![j] = c]  BY <1>4, <1>5, <1>6, <1>7
<1>9. Total \in Nat /\ Total >= 1  BY ImportAssumption
<1>10. /\ b.left > 0 /\ b.left + b.good <= Total /\ b.left + b.good + b.bad >= Total
       /\ b.left \in 0..Total /\ b.good \in 0..Total /\ b.bad \in Nat /\ b.done \in Nat
  BY <1>1, <1>2, <1>3 DEF Counted, Collecting, WorkerType
<1>11. to \in {"checkpoint", "fetch", "empty", "saving"}  BY <1>6
<1>12. /\ a.left = b.left - 1 /\ a.done = b.done + 1 /\ a.read = b.read
       /\ a.good = (IF ok THEN b.good + 1 ELSE b.good)
       /\ a.bad = (IF ok THEN b.bad ELSE b.bad + 1) /\ a.sum = b.sum
       /\ DOMAIN a = DOMAIN b
  BY <1>5 DEF WorkerType
<1>13. /\ a.left \in 0..Total /\ a.done \in Nat /\ a.good \in 0..Total /\ a.bad \in Nat
       /\ a.left + a.good <= Total /\ a.left + a.good + a.bad >= Total
  <2>1. CASE ok  BY <2>1, <1>9, <1>10, <1>12
  <2>2. CASE ~ok  BY <2>2, <1>9, <1>10, <1>12
  <2> QED  BY <2>1, <2>2
<1>14. a \in WorkerType
  BY <1>5, <1>12, <1>13 DEF WorkerType
<1>15. /\ c \in WorkerType /\ c.at = to /\ c.left = a.left /\ c.good = a.good
       /\ c.bad = a.bad /\ c.read = b.read /\ c.sum = a.sum
  BY <1>7, <1>11, <1>12, <1>14 DEF WorkerType, Steps
<1>16. /\ to = "saving" => a.left = 0
       /\ to = "fetch" => a.left > 0
  BY <1>6, <1>13
<1>17. Counted(c)  BY <1>11, <1>13, <1>15, <1>16 DEF Counted
<1>18. c.read = NoJob
  BY <1>2, <1>3, <1>15 DEF ImportInv, ReadsCurrent, UpdateSteps
<1>19. actor[j].at \in LiveSteps /\ c.at \in LiveSteps
  BY <1>2, <1>11, <1>15 DEF LiveSteps, Steps
<1>20. ImportInv'  BY <1>2, <1>8, <1>15, <1>17, <1>18, <1>19, WorkerSteps
<1> QED  BY <1>1, <1>2, <1>20, JobsUntouched

\* The accounts are handed to the pool.
LEMMA ImportAdd ==
  ASSUME ImportInv, NEW j \in Imports, AddAccounts(j)
  PROVE  ImportInv' /\ JobsGoOn
<1>1. ImportTypeOK /\ Counted(actor[j])  BY DEF ImportInv
<1>2. /\ actor[j].at = "adding"
      /\ UNCHANGED <<cfg, booted, restarts, storeFailures>>
      /\ storeFailures' \in 0..MaxStoreFailures
  BY <1>1 DEF AddAccounts, Quiet, ImportTypeOK
<1>3. PICK b \in WorkerType : b = actor[j]  BY <1>1, WorkerParts
<1>4. /\ b.left = 0 /\ b.good <= Total /\ b.good + b.bad >= Total
      /\ b.good \in 0..Total /\ b.bad \in Nat /\ Total \in Nat
  BY <1>1, <1>2, <1>3, ImportAssumption DEF Counted, Collecting, WorkerType
<1>5. b.read = NoJob
  BY <1>2, <1>3 DEF ImportInv, ReadsCurrent, UpdateSteps
<1>6. ASSUME NEW c \in WorkerType, actor' = [actor EXCEPT ![j] = c], Counted(c),
             c.at \in {"added", "unsaved"}, c.read = NoJob
      PROVE  ImportInv' /\ JobsGoOn
  <2>1. actor[j].at \in LiveSteps /\ c.at \in LiveSteps
    BY <1>2, <1>6 DEF LiveSteps, Steps
  <2>2. ImportInv'  BY <1>2, <1>6, <2>1, WorkerSteps
  <2> QED  BY <1>1, <1>2, <2>2, JobsUntouched
<1>7. ASSUME NEW added \in 0..b.good, NEW invalid \in 0..(b.good - added),
             actor' = [actor EXCEPT ![j] = AccountsSaved(b, added, invalid)]
      PROVE  ImportInv' /\ JobsGoOn
  <2>1. PICK rest : rest = b.good - added - invalid  OBVIOUS
  <2>2. PICK sum : sum = [added |-> added, skipped |-> rest]  OBVIOUS
  <2>3. PICK c : c = [b EXCEPT !.at = "added", !.good = b.good - invalid,
                               !.bad = b.bad + invalid, !.sum = sum]
    OBVIOUS
  <2>4. actor' = [actor EXCEPT ![j] = c]
    BY <1>7, <2>1, <2>2, <2>3 DEF AccountsSaved
  <2>5. rest \in Nat /\ added \in Nat /\ b.good - invalid \in 0..Total /\ b.bad + invalid \in Nat
    BY <1>4, <2>1
  <2>6. sum \in [added : Nat, skipped : Nat] /\ sum.added = added /\ sum.skipped = rest
    BY <2>2, <2>5
  <2>7. /\ c \in WorkerType /\ c.at = "added" /\ c.read = NoJob
        /\ c.bad = b.bad + invalid /\ c.sum = sum
    BY <1>5, <2>3, <2>5, <2>6 DEF WorkerType, Steps
  <2>8. c.sum.added + c.sum.skipped + c.bad >= Total
    <3>1. added + rest + (b.bad + invalid) >= Total  BY <1>4, <2>1
    <3> QED  BY <3>1, <2>6, <2>7
  <2>9. Counted(c)  BY <2>7, <2>8 DEF Counted, Collecting
  <2> QED  BY <1>6, <2>4, <2>7, <2>9
<1>8. CASE actor' = [actor EXCEPT ![j].at = "unsaved", ![j].bad = @ + actor[j].good]
  <2>1. PICK c : c = [b EXCEPT !.at = "unsaved", !.bad = b.bad + b.good]  OBVIOUS
  <2>2. actor' = [actor EXCEPT ![j] = c]  BY <1>1, <1>3, <1>8, <2>1, WorkerParts
  <2>3. b.bad + b.good \in Nat  BY <1>4
  <2>4. c \in WorkerType /\ c.at = "unsaved" /\ c.read = NoJob
    BY <1>5, <2>1, <2>3 DEF WorkerType, Steps
  <2>5. Counted(c)  BY <2>4 DEF Counted, Collecting
  <2> QED  BY <1>6, <2>2, <2>4, <2>5
<1>9. \/ \E added \in 0..b.good : \E invalid \in 0..(b.good - added) :
           actor' = [actor EXCEPT ![j] = AccountsSaved(b, added, invalid)]
      \/ actor' = [actor EXCEPT ![j].at = "unsaved", ![j].bad = @ + actor[j].good]
  BY <1>3 DEF AddAccounts
<1> QED  BY <1>7, <1>8, <1>9

\* The accounts are refreshed, one of them may fail.
LEMMA ImportSync ==
  ASSUME ImportInv, NEW j \in Imports, SyncAccounts(j)
  PROVE  ImportInv' /\ JobsGoOn
<1>1. ImportTypeOK /\ Counted(actor[j])  BY DEF ImportInv
<1>2. /\ actor[j].at = "sync"
      /\ UNCHANGED <<cfg, booted, restarts, storeFailures>>
      /\ storeFailures' \in 0..MaxStoreFailures
  BY <1>1 DEF SyncAccounts, Quiet, ImportTypeOK
<1>3. PICK b \in WorkerType : b = actor[j]  BY <1>1, WorkerParts
<1>4. PICK e \in {0, 1} : actor' = [actor EXCEPT ![j].at = "finish", ![j].bad = @ + e]
  BY DEF SyncAccounts
<1>5. PICK c : c = [b EXCEPT !.at = "finish", !.bad = b.bad + e]  OBVIOUS
<1>6. actor' = [actor EXCEPT ![j] = c]  BY <1>1, <1>3, <1>4, <1>5, WorkerParts
<1>7. /\ b.sum.added + b.sum.skipped + b.bad >= Total /\ b.bad \in Nat
      /\ b.sum.added \in Nat /\ b.sum.skipped \in Nat /\ Total \in Nat
  BY <1>1, <1>2, <1>3, ImportAssumption DEF Counted, WorkerType
<1>8. b.read = NoJob
  BY <1>2, <1>3 DEF ImportInv, ReadsCurrent, UpdateSteps
<1>9. b.bad + e \in Nat /\ b.sum.added + b.sum.skipped + (b.bad + e) >= Total  BY <1>7
<1>10. c \in WorkerType /\ c.at = "finish" /\ c.read = NoJob /\ c.sum = b.sum
       /\ c.bad = b.bad + e
  BY <1>5, <1>8, <1>9 DEF WorkerType, Steps
<1>11. Counted(c)  BY <1>9, <1>10 DEF Counted, Collecting
<1>12. actor[j].at \in LiveSteps /\ c.at \in LiveSteps
  BY <1>2, <1>10 DEF LiveSteps, Steps
<1>13. ImportInv'  BY <1>2, <1>6, <1>10, <1>11, <1>12, WorkerSteps
<1> QED  BY <1>1, <1>2, <1>13, JobsUntouched

\* The step that follows the records fetched so far.
LEMMA NextFetch ==
  ASSUME ImportTypeOK, NEW j \in Imports, NEW to, to = FetchNext(j)
  PROVE  /\ to \in {"fetch", "empty", "saving"}
         /\ to = "fetch" => actor[j].left > 0
         /\ to = "saving" => actor[j].left = 0
<1>1. actor[j].left \in 0..Total /\ Total \in Nat
  BY ImportAssumption, WorkerParts DEF WorkerType
<1> QED  BY <1>1 DEF FetchNext

\* A configuration row cannot be read or written.
LEMMA ImportStoreFails ==
  ASSUME ImportInv, NEW j \in Imports, StoreFails(j)
  PROVE  ImportInv' /\ JobsGoOn
<1>1. ImportTypeOK /\ Counted(actor[j])  BY DEF ImportInv
<1>2. actor[j].at \in UpdateSteps /\ UNCHANGED <<cfg, booted, restarts>>
  BY DEF StoreFails
<1>3. storeFailures' \in 0..MaxStoreFailures
  BY <1>1, ImportAssumption DEF StoreFails, ImportTypeOK
<1>4. actor[j].at \in LiveSteps  BY <1>2 DEF UpdateSteps, LiveSteps, Steps
<1>5. ASSUME NEW to \in {"lost", "failing"}, Go(j, to)
      PROVE  ImportInv' /\ JobsGoOn
  <2>1. to \in LiveSteps \cup {"ended", "lost"}  BY <1>5 DEF LiveSteps, Steps
  <2>2. \A a \in WorkerType : a.at = to /\ a.left = actor[j].left
           /\ a.good = actor[j].good /\ a.bad = actor[j].bad
           /\ a.sum = actor[j].sum => Counted(a)
    BY <1>5 DEF Counted, Collecting
  <2> QED  BY <1>2, <1>3, <1>4, <1>5, <2>1, <2>2, ImportGoes
<1>6. ASSUME actor[j].at = "checkpoint", NEW to \in {"checkpoint", FetchNext(j)},
             actor' = [actor EXCEPT ![j].at = to, ![j].read = NoJob,
                                    ![j].done = @ + 1, ![j].bad = @ + 1]
      PROVE  ImportInv' /\ JobsGoOn
  <2>1. /\ to \in {"checkpoint", "fetch", "empty", "saving"}
        /\ to = "fetch" => actor[j].left > 0
        /\ to = "saving" => actor[j].left = 0
    BY <1>1, <1>6, NextFetch
  <2>2. PICK b \in WorkerType : b = actor[j]  BY <1>1, WorkerParts
  <2>3. PICK c : c = [b EXCEPT !.at = to, !.read = NoJob,
                               !.done = b.done + 1, !.bad = b.bad + 1]
    OBVIOUS
  <2>4. actor' = [actor EXCEPT ![j] = c]  BY <1>1, <1>6, <2>2, <2>3, WorkerParts
  <2>5. /\ b.bad + 1 \in Nat /\ b.done + 1 \in Nat /\ b.left + b.good <= Total
        /\ b.left + b.good + (b.bad + 1) >= Total
    <3>1. /\ b.bad \in Nat /\ b.done \in Nat /\ b.left \in 0..Total
          /\ b.good \in 0..Total /\ Total \in Nat
      BY ImportAssumption, <2>2 DEF WorkerType
    <3>2. b.left + b.good <= Total /\ b.left + b.good + b.bad >= Total
      BY <1>1, <1>6, <2>2 DEF Counted, Collecting
    <3> QED  BY <3>1, <3>2
  <2>6. to \in Steps /\ to \in LiveSteps  BY <2>1 DEF Steps, LiveSteps
  <2>7. NoJob \in JobRecords  BY DEF JobRecords
  <2>8. /\ c \in WorkerType /\ c.at = to /\ c.read = NoJob /\ c.left = b.left
        /\ c.good = b.good /\ c.bad = b.bad + 1
    BY <2>3, <2>5, <2>6, <2>7 DEF WorkerType
  <2>9. Counted(c)  BY <2>1, <2>2, <2>5, <2>8 DEF Counted
  <2>10. ImportInv'  BY <1>2, <1>3, <1>4, <2>4, <2>6, <2>8, <2>9, WorkerSteps
  <2> QED  BY <1>1, <1>2, <2>10, JobsUntouched
<1>7. \/ Go(j, "lost") \/ Go(j, "failing")
      \/ /\ actor[j].at = "checkpoint"
         /\ \E to \in {"checkpoint", FetchNext(j)} :
              actor' = [actor EXCEPT ![j].at = to, ![j].read = NoJob,
                                     ![j].done = @ + 1, ![j].bad = @ + 1]
  BY DEF StoreFails
<1> QED  BY <1>5, <1>6, <1>7

\* The failures a worker writes are no fewer than those it read.
LEMMA FailuresAddUp ==
  ASSUME NEW m \in JobType, NEW n \in Nat
  PROVE  /\ FailedTotal(m, n) \in Nat
         /\ FailedTotal(m, n) >= m.failed /\ FailedTotal(m, n) >= n
BY DEF FailedTotal, Upper, JobType

\* What a worker writes is its job, still open if it goes on; a completed one
\* accounts for every account.
LEMMA MergedJob ==
  ASSUME ImportInv, NEW j \in Imports, actor[j].at \in UpdateSteps,
         NEW job \in JobType, job.id = j, IsActive(job),
         NEW m, m = Merged(j, job)
  PROVE  /\ m \in JobType /\ m.id = j /\ m.failed >= job.failed
         /\ AfterWrite(j) # "ended" => m.status \in {"pending", "running"}
         /\ m.status = "completed" => m.added + m.skipped + m.failed >= Total
<1>1. PICK b \in WorkerType : b = actor[j]  BY WorkerParts DEF ImportInv
<1>2. Counted(b)  BY <1>1 DEF ImportInv
<1>3. /\ b.bad \in Nat /\ b.done \in Nat /\ b.sum.added \in Nat /\ b.sum.skipped \in Nat
      /\ Total \in Nat /\ job.failed \in Nat /\ job.id \in Imports
      /\ job.status \in {"pending", "running"}
      /\ {"pending", "running", "failed", "completed"} \subseteq JobStatuses
  BY ImportAssumption DEF WorkerType, JobType, IsActive, JobStatuses
<1>4. PICK f \in Nat : f = FailedTotal(job, b.bad)  BY <1>3, FailuresAddUp
<1>5. f >= job.failed /\ f >= b.bad  BY <1>3, <1>4, FailuresAddUp
<1>6. PICK q : q = [job EXCEPT !.completed = b.done, !.failed = f]  OBVIOUS
<1>7. q = Progress(j, job)  BY <1>1, <1>4, <1>6 DEF Progress
<1>8. /\ q \in JobType /\ q.id = j /\ q.failed = f /\ q.status = job.status
      /\ q.completed = b.done
  BY <1>3, <1>6 DEF JobType
<1>9. CASE b.at = "begin"
  <2>1. m = [job EXCEPT !.status = "running"]  BY <1>1, <1>9 DEF Merged
  <2>2. m \in JobType /\ m.id = j /\ m.failed = job.failed /\ m.status = "running"
    BY <2>1, <1>3 DEF JobType
  <2> QED  BY <2>2, <1>3
<1>10. CASE b.at \in {"checkpoint", "saving", "added"}
  <2>1. m = q  BY <1>1, <1>7, <1>10 DEF Merged
  <2> QED  BY <2>1, <1>3, <1>5, <1>8
<1>11. CASE b.at = "syncing"
  <2>1. m = job  BY <1>1, <1>11 DEF Merged
  <2> QED  BY <2>1, <1>3
<1>12. CASE b.at = "empty"
  <2>1. m = [q EXCEPT !.status = "failed"]  BY <1>1, <1>7, <1>12 DEF Merged
  <2>2. m \in JobType /\ m.id = j /\ m.failed = f /\ m.status = "failed"
    BY <2>1, <1>3, <1>8 DEF JobType
  <2>3. AfterWrite(j) = "ended"  BY <1>1, <1>12 DEF AfterWrite
  <2> QED  BY <2>2, <2>3, <1>5
<1>13. CASE b.at = "unsaved"
  <2>1. m = [q EXCEPT !.status = "failed", !.completed = Total]
    BY <1>1, <1>7, <1>13 DEF Merged
  <2>2. m \in JobType /\ m.id = j /\ m.failed = f /\ m.status = "failed"
    BY <2>1, <1>3, <1>8 DEF JobType
  <2>3. AfterWrite(j) = "ended"  BY <1>1, <1>13 DEF AfterWrite
  <2> QED  BY <2>2, <2>3, <1>5
<1>14. CASE b.at = "failing"
  <2>1. PICK g \in Nat : g = FailedTotal(job, job.failed + 1)
    BY <1>3, FailuresAddUp
  <2>2. g >= job.failed  BY <1>3, <2>1, FailuresAddUp
  <2>3. m = [job EXCEPT !.status = "failed", !.failed = g]
    BY <1>1, <1>14, <2>1 DEF Merged, OneMoreFailure
  <2>4. m \in JobType /\ m.id = j /\ m.failed = g /\ m.status = "failed"
    BY <2>3, <1>3 DEF JobType
  <2>5. AfterWrite(j) = "ended"  BY <1>1, <1>14 DEF AfterWrite
  <2> QED  BY <2>2, <2>4, <2>5
<1>15. CASE b.at = "finish"
  <2>1. m = [q EXCEPT !.status = "completed", !.completed = Total,
                      !.added = b.sum.added, !.skipped = b.sum.skipped]
    BY <1>1, <1>7, <1>15 DEF Merged
  <2>2. /\ m \in JobType /\ m.id = j /\ m.failed = f /\ m.added = b.sum.added
        /\ m.skipped = b.sum.skipped
    BY <2>1, <1>3, <1>8 DEF JobType
  <2>3. b.sum.added + b.sum.skipped + b.bad >= Total  BY <1>2, <1>15 DEF Counted
  <2>4. AfterWrite(j) = "ended"  BY <1>1, <1>15 DEF AfterWrite
  <2> QED  BY <2>2, <2>3, <2>4, <1>3, <1>5
<1> QED
  BY <1>1, <1>9, <1>10, <1>11, <1>12, <1>13, <1>14, <1>15 DEF UpdateSteps

\* A worker writes its job back.
LEMMA ImportWrite ==
  ASSUME ImportInv, NEW j \in Imports, WriteJob(j)
  PROVE  ImportInv' /\ JobsGoOn
<1>1. ImportTypeOK /\ Counted(actor[j])  BY DEF ImportInv
<1>2. /\ actor[j].read # NoJob /\ actor[j].at \in UpdateSteps
      /\ actor[j].read = JobOf(SourceOf[j])
      /\ UNCHANGED <<booted, restarts, storeFailures>>
  BY DEF WriteJob, Quiet, ImportInv, ReadsCurrent
<1>3. actor[j].at \in LiveSteps  BY <1>2 DEF UpdateSteps, LiveSteps, Steps
<1>4. PICK s \in Sources : s = SourceOf[j]  BY <1>1, WorkerParts
<1>5. PICK job \in JobType : job = JobOf(s)
  BY <1>1, <1>2, <1>4, StoredJobs DEF HasJob
<1>6. OwnJob(j) /\ job.id = j /\ IsActive(job)
  BY <1>3, <1>4, <1>5 DEF ImportInv, WorkerOwnsOpenJob, OwnJob
<1>7. PICK m : m = Merged(j, job)  OBVIOUS
<1>8. /\ m \in JobType /\ m.id = j /\ m.failed >= job.failed
      /\ AfterWrite(j) # "ended" => m.status \in {"pending", "running"}
      /\ m.status = "completed" => m.added + m.skipped + m.failed >= Total
  BY <1>2, <1>5, <1>6, <1>7, MergedJob
<1>9. PICK to : to = AfterWrite(j)  OBVIOUS
<1>10. /\ cfg' = [cfg EXCEPT ![SourceOf[j]].job = m] /\ Go(j, to)
  BY <1>2, <1>4, <1>5, <1>6, <1>7, <1>9 DEF WriteJob
<1>11. PICK next : next = FetchNext(j)  OBVIOUS
<1>12. /\ next \in {"fetch", "empty", "saving"}
       /\ next = "fetch" => actor[j].left > 0
       /\ next = "saving" => actor[j].left = 0
  BY <1>1, <1>11, NextFetch
<1>13. /\ actor[j].at \in {"begin", "checkpoint"} => to = next
       /\ actor[j].at = "saving" => to = "adding"
       /\ actor[j].at = "added" => to = "syncing"
       /\ actor[j].at = "syncing" => to = "sync"
       /\ actor[j].at \notin {"begin", "checkpoint", "saving", "added", "syncing"} =>
            to = "ended"
  BY <1>9, <1>11 DEF AfterWrite
<1>14. to \in {"fetch", "empty", "saving", "adding", "syncing", "sync", "ended"}
  BY <1>12, <1>13
<1>15. to \in Steps /\ to \in LiveSteps \cup {"ended"}
  BY <1>14 DEF Steps, LiveSteps
<1>16. PICK a \in WorkerType :
         /\ actor' = [actor EXCEPT ![j] = a] /\ a.at = to /\ a.read = NoJob
         /\ a.left = actor[j].left /\ a.good = actor[j].good
         /\ a.bad = actor[j].bad /\ a.sum = actor[j].sum
  BY <1>1, <1>10, <1>15, GoRecord
<1>17. Counted(a)
  BY <1>1, <1>12, <1>13, <1>14, <1>16 DEF Counted, Collecting
<1>18. a.at \in LiveSteps => m.status \in {"pending", "running"}
  BY <1>8, <1>9, <1>16 DEF LiveSteps
<1>19. actor[j].at # "new"  BY <1>3 DEF LiveSteps
<1>20. ImportInv'
  BY <1>2, <1>3, <1>8, <1>10, <1>15, <1>16, <1>17, <1>18, <1>19, JobSteps
<1>21. cfg \in [Sources -> SourceType]  BY <1>1 DEF ImportTypeOK, SourceType
<1>22. /\ \A t \in Sources \ {s} : cfg'[t] = cfg[t]
       /\ cfg'[s].job = m
  BY <1>4, <1>10, <1>21 DEF SourceType
<1>23. \A t \in Sources : HasJob(t) => JobOf(t).failed \in Nat
  BY <1>1, StoredJobs DEF JobType
<1>24. JobsGoOn
  BY <1>5, <1>6, <1>8, <1>22, <1>23 DEF JobsGoOn, Kept, JobOf
<1> QED  BY <1>20, <1>24

\* The process stops and its workers with it.
LEMMA ImportRestarts ==
  ASSUME ImportInv, Restart
  PROVE  ImportInv' /\ JobsGoOn
<1>1. ImportTypeOK  BY DEF ImportInv
<1>2. /\ UNCHANGED <<cfg, storeFailures>> /\ booted' = {}
      /\ restarts' \in 0..MaxRestarts
  <2>1. /\ UNCHANGED <<cfg, storeFailures>> /\ booted' = {}
        /\ restarts < MaxRestarts /\ restarts' = restarts + 1
    BY DEF Restart
  <2>2. restarts \in 0..MaxRestarts /\ MaxRestarts \in Nat
    BY <1>1, ImportAssumption DEF ImportTypeOK
  <2> QED  BY <2>1, <2>2
<1>3. ASSUME NEW j \in Imports
      PROVE  /\ actor'[j] \in WorkerType /\ actor'[j].read = NoJob
             /\ actor'[j].at \notin LiveSteps
             /\ actor'[j].at = "new" => actor[j].at = "new"
             /\ Counted(actor'[j])
  <2>1. PICK b \in WorkerType : b = actor[j]  BY <1>1, WorkerParts
  <2>2. PICK c : c = [b EXCEPT !.at = "dead", !.read = NoJob]  OBVIOUS
  <2>3. NoJob \in JobRecords  BY DEF JobRecords
  <2>4. c \in WorkerType /\ c.at = "dead" /\ c.read = NoJob
    BY <2>2, <2>3 DEF WorkerType, Steps
  <2>5. Counted(c)  BY <2>4 DEF Counted, Collecting
  <2>6. CASE b.at \in LiveSteps
    <3>1. actor'[j] = c  BY <2>1, <2>2, <2>6 DEF Restart
    <3> QED  BY <3>1, <2>4, <2>5 DEF LiveSteps
  <2>7. CASE b.at \notin LiveSteps
    <3>1. actor'[j] = b  BY <2>1, <2>7 DEF Restart
    <3>2. b.read = NoJob
      BY <2>1, <2>7 DEF ImportInv, ReadsCurrent, UpdateSteps, LiveSteps, Steps
    <3>3. Counted(b)  BY <2>1 DEF ImportInv
    <3> QED  BY <3>1, <3>2, <3>3, <2>1, <2>7
  <2> QED  BY <2>6, <2>7
<1>4. actor' = [j \in Imports |-> actor'[j]]  BY DEF Restart
<1>5. actor' \in [Imports -> WorkerType]  BY <1>3, <1>4
<1>6. ImportTypeOK'  BY <1>1, <1>2, <1>5 DEF ImportTypeOK, WorkerType
<1>7. (OneOpenJob /\ CompletedCoversAll)'
  BY <1>2 DEF ImportInv, OneOpenJob, CompletedCoversAll, JobOf, HasJob
<1>8. (WorkerOwnsOpenJob /\ ReadsCurrent /\ NobodyBeforeBoot)'
  BY <1>3 DEF WorkerOwnsOpenJob, ReadsCurrent, NobodyBeforeBoot
<1>9. NewIdsUnused'  BY <1>2, <1>3 DEF ImportInv, NewIdsUnused, HasJob, JobOf
<1>10. (\A j \in Imports : Counted(actor[j]))'  BY <1>3
<1> QED
  BY <1>1, <1>2, <1>6, <1>7, <1>8, <1>9, <1>10, JobsUntouched DEF ImportInv

\* A store is constructed and fails the jobs it finds open.
LEMMA ImportBoots ==
  ASSUME ImportInv, NEW p \in Providers, BootStore(p)
  PROVE  ImportInv' /\ JobsGoOn
<1>1. ImportTypeOK  BY DEF ImportInv
<1>2. /\ UNCHANGED <<actor, restarts, storeFailures>>
      /\ booted' \in SUBSET Providers /\ booted # Providers
  BY <1>1 DEF BootStore, ImportTypeOK
<1>3. \A j \in Imports : actor[j].at \notin LiveSteps
  BY <1>2 DEF ImportInv, NobodyBeforeBoot
<1>4. ASSUME NEW s \in Sources
      PROVE  /\ cfg'[s] \in SourceType
             /\ \/ cfg'[s].job = cfg[s].job
                \/ /\ IsActive(JobOf(s)) /\ cfg'[s].job \in JobType
                   /\ cfg'[s].job.id = JobOf(s).id
                   /\ cfg'[s].job.failed = JobOf(s).failed
                   /\ cfg'[s].job.status = "failed"
  <2>1. PICK c \in SourceType : c = cfg[s]
    BY <1>1 DEF ImportTypeOK, SourceType
  <2>2. CASE ProviderOf[s] = p /\ Unfinished(JobOf(s))
    <3>1. IsActive(JobOf(s))  BY <2>2 DEF Unfinished
    <3>2. PICK m \in JobType : m = JobOf(s)  BY <1>1, <3>1, StoredJobs
    <3>3. PICK n : n = [m EXCEPT !.status = "failed"]  OBVIOUS
    <3>4. PICK d : d = [c EXCEPT !.job = n]  OBVIOUS
    <3>5. c.job = m  BY <2>1, <3>2 DEF JobOf
    <3>6. cfg'[s] = d  BY <2>1, <2>2, <3>3, <3>4, <3>5 DEF BootStore, SourceType
    <3>7. n \in JobType /\ n.id = m.id /\ n.failed = m.failed /\ n.status = "failed"
      BY <3>3 DEF JobType, JobStatuses
    <3>8. n \in JobRecords  BY <3>7, JobsAreJobs
    <3>9. d \in SourceType /\ d.job = n  BY <3>4, <3>8 DEF SourceType
    <3> QED  BY <3>1, <3>2, <3>6, <3>7, <3>9
  <2>3. CASE ~(ProviderOf[s] = p /\ Unfinished(JobOf(s)))
    <3>1. cfg'[s] = c  BY <2>1, <2>3 DEF BootStore
    <3> QED  BY <2>1, <3>1
  <2> QED  BY <2>2, <2>3
<1>5. cfg' = [s \in Sources |-> cfg'[s]]  BY DEF BootStore
<1>6. cfg' \in [Sources -> SourceType]  BY <1>4, <1>5
<1>7. ImportTypeOK'  BY <1>1, <1>2, <1>6 DEF ImportTypeOK, SourceType
<1>8. OneOpenJob'
  <2>1. \A s \in Sources : IsActive(JobOf(s))' => IsActive(JobOf(s))
    BY <1>4 DEF IsActive, JobOf
  <2> QED  BY <2>1 DEF ImportInv, OneOpenJob
<1>9. CompletedCoversAll'
  <2>1. SUFFICES ASSUME NEW s \in Sources, HasJob(s)', JobOf(s)'.status = "completed"
                 PROVE  JobOf(s)'.added + JobOf(s)'.skipped + JobOf(s)'.failed >= Total
    BY DEF CompletedCoversAll
  <2>2. cfg'[s].job = cfg[s].job  BY <2>1, <1>4 DEF JobOf
  <2> QED  BY <2>1, <2>2 DEF ImportInv, CompletedCoversAll, HasJob, JobOf
<1>10. (WorkerOwnsOpenJob /\ NobodyBeforeBoot)'
  BY <1>2, <1>3 DEF WorkerOwnsOpenJob, NobodyBeforeBoot
<1>11. ReadsCurrent'
  BY <1>2, <1>3 DEF ImportInv, ReadsCurrent, UpdateSteps, LiveSteps, Steps
<1>12. NewIdsUnused'
  <2>1. \A s \in Sources : HasJob(s)' => HasJob(s) /\ JobOf(s)'.id = JobOf(s).id
    BY <1>4 DEF HasJob, JobOf, IsActive
  <2> QED  BY <2>1, <1>2 DEF ImportInv, NewIdsUnused
<1>13. (\A j \in Imports : Counted(actor[j]))'  BY <1>2 DEF ImportInv
<1>14. \A t \in Sources : HasJob(t) => JobOf(t).failed \in Nat
  BY <1>1, StoredJobs DEF JobType
<1>15. JobsGoOn  BY <1>4, <1>14 DEF JobsGoOn, Kept, JobOf
<1> QED
  BY <1>7, <1>8, <1>9, <1>10, <1>11, <1>12, <1>13, <1>15 DEF ImportInv

\* A step of an import, or one that touches none, keeps the invariant and what
\* is written of the jobs.
LEMMA ImportStep ==
  ASSUME ImportInv, [ImportNext]_importVars
  PROVE  ImportInv' /\ JobsGoOn
<1>1. CASE UNCHANGED importVars
  <2>1. UNCHANGED <<cfg, actor, booted, restarts, storeFailures>>
    BY <1>1 DEF importVars
  <2>2. ImportInv'
    BY <2>1 DEF ImportInv, ImportTypeOK, OneOpenJob, WorkerOwnsOpenJob, ReadsCurrent,
       NobodyBeforeBoot, NewIdsUnused, CompletedCoversAll, OwnJob, HasJob, JobOf
  <2> QED  BY <2>1, <2>2, JobsUntouched DEF ImportInv
<1>2. ASSUME NEW s \in Sources, AddSource(s) \/ DeleteSource(s)
      PROVE  ImportInv' /\ JobsGoOn
  BY <1>2, ImportAddSource, ImportDeleteSource
<1>3. ASSUME NEW j \in Imports, ReserveImport(j) \/ ImportWork(j) \/ StoreFails(j)
      PROVE  ImportInv' /\ JobsGoOn
  BY <1>3, ImportReserve, ImportStart, ImportRead, ImportWrite, ImportFetch, ImportAdd,
     ImportSync, ImportStoreFails DEF ImportWork
<1>4. ASSUME NEW p \in Providers, BootStore(p)
      PROVE  ImportInv' /\ JobsGoOn
  BY <1>4, ImportBoots
<1> QED  BY <1>1, <1>2, <1>3, <1>4, ImportRestarts DEF ImportNext

\* Before the first request there is no source and no worker.
LEMMA ImportStarts ==
  ASSUME ImportInit
  PROVE  ImportInv
<1>1. PICK n : n = [added |-> 0, skipped |-> 0]  OBVIOUS
<1>2. PICK a : a = NewActor  OBVIOUS
<1>3. Total \in Nat /\ NoJob \in JobRecords  BY ImportAssumption DEF JobRecords
<1>4. n \in [added: Nat, skipped: Nat]  BY <1>1
<1>5. /\ a \in WorkerType /\ a.at = "new" /\ a.read = NoJob /\ a.left = Total
      /\ a.good = 0 /\ a.bad = 0
  BY <1>1, <1>2, <1>3, <1>4 DEF NewActor, WorkerType, Steps
<1>6. PICK c : c = [is |-> "absent", job |-> NoJob]  OBVIOUS
<1>7. c \in SourceType /\ c.job = NoJob  BY <1>3, <1>6 DEF SourceType
<1>8. /\ actor = [j \in Imports |-> a] /\ cfg = [s \in Sources |-> c]
      /\ booted = Providers /\ restarts = 0 /\ storeFailures = 0
  BY <1>2, <1>6 DEF ImportInit
<1>9. /\ actor \in [Imports -> WorkerType] /\ cfg \in [Sources -> SourceType]
      /\ \A j \in Imports : actor[j] = a
      /\ \A s \in Sources : JobOf(s) = NoJob
  BY <1>5, <1>7, <1>8 DEF JobOf
<1>10. ImportTypeOK
  BY <1>8, <1>9, ImportAssumption DEF ImportTypeOK, WorkerType, SourceType
<1>11. Counted(a)  BY <1>3, <1>5 DEF Counted
<1>12. a.at \notin LiveSteps  BY <1>5 DEF LiveSteps
<1> QED
  BY <1>5, <1>8, <1>9, <1>10, <1>11, <1>12
  DEF ImportInv, OneOpenJob, WorkerOwnsOpenJob, ReadsCurrent, NobodyBeforeBoot,
      NewIdsUnused, CompletedCoversAll, HasJob, IsActive

\* The invariant of the imports holds.
LEMMA ImportInvariant == ImportSpec => []ImportInv
<1>1. ImportInit => ImportInv  BY ImportStarts
<1>2. ImportInv /\ [ImportNext]_importVars => ImportInv'  BY ImportStep
<1> QED  BY <1>1, <1>2, PTL DEF ImportSpec

\* If no two sources have an open job, at most one has.
LEMMA OneAtMost ==
  ASSUME OneOpenJob
  PROVE  OneActiveImport
<1>1. PICK open : open = {s \in Sources : IsActive(JobOf(s))}  OBVIOUS
<1>2. CASE open = {}
  <2>1. Cardinality(open) = 0  BY <1>2, FS_EmptySet
  <2> QED  BY <2>1, <1>1 DEF OneActiveImport
<1>3. CASE open # {}
  <2>1. PICK s \in open : TRUE  BY <1>3
  <2>2. open = {s}  BY <2>1, <1>1 DEF OneOpenJob
  <2>3. Cardinality(open) = 1  BY <2>2, FS_Singleton
  <2> QED  BY <2>3, <1>1 DEF OneActiveImport
<1> QED  BY <1>2, <1>3

\* One remote import is at work at a time, whatever provider it belongs to; its
\* job is open and its own while its worker lives; one that is completed accounts
\* for every account; and a job that ended stays as it ended, with failures that
\* only grow: through conflicts, failing stores, restarts and sources that are
\* deleted (reserve, update, fail and the constructors of the stores).
THEOREM ImportsSafe == ImportSpec => ImportsAreSafe
<1>1. ImportInv => OneActiveImport /\ WorkerOwnsOpenJob /\ CompletedCoversAll
  BY OneAtMost DEF ImportInv
<1>2. ImportInv /\ [ImportNext]_importVars =>
        [\A s \in Sources : Kept(s) /\ ~IsActive(JobOf(s)) =>
           cfg'[s].job.status = JobOf(s).status]_importVars
  BY ImportStep DEF JobsGoOn
<1>3. ImportInv /\ [ImportNext]_importVars =>
        [\A s \in Sources : Kept(s) => cfg'[s].job.failed >= JobOf(s).failed]_importVars
  BY ImportStep DEF JobsGoOn
<1> QED
  BY <1>1, <1>2, <1>3, ImportInvariant, PTL
  DEF ImportSpec, ImportsAreSafe, EndedImportsStay, FailuresOnlyGrow

-----------------------------------------------------------------------------
(* The resource gate *)

ProbeType == [load : 0..2, raised : SUBSET Walls]
OutcomeType == [ok : BOOLEAN, age : 0..KeptFor]

\* What the controller holds: the types; a dispatcher past its plan has room
\* for one generation more; and a load that was low for some time has been no
\* higher for as long.
GateInv ==
  /\ GateTypeOK /\ outcomes \in Seq(OutcomeType)
  /\ DOMAIN reading = Callers
  /\ step # "plan" => flights < Cap
  /\ lowFor <= busyFor

\* The bounds are numbers.
LEMMA GateBounds ==
  /\ Hold \in Nat \ {0} /\ Window \in Nat \ {0} /\ MinSamples \in Nat \ {0}
  /\ KeptFor \in Nat \ {0} /\ Cap \in Nat \ {0} /\ "generation" \in Callers
BY GateAssumption

\* A decision on a probe keeps what the latch knows, and opens it only after
\* the load was low for as long as the gate holds (_update_occupancy_gate).
LEMMA GateDecides ==
  ASSUME GateInv, NEW level \in 0..2, UpdateOccupancyGate(level)
  PROVE  /\ paused' \in BOOLEAN /\ spiked' \in BOOLEAN
         /\ highFor' \in -1..Hold /\ lowFor' \in -1..Hold /\ busyFor' \in 0..Hold
         /\ lowFor' <= busyFor'
         /\ paused /\ ~paused' => busyFor >= Hold
<1>1. /\ paused \in BOOLEAN /\ highFor \in -1..Hold /\ lowFor \in -1..Hold
      /\ busyFor \in 0..Hold /\ lowFor <= busyFor /\ Hold \in Nat \ {0}
  BY GateBounds DEF GateInv, GateTypeOK
<1>2. PICK high, low : high = Later(highFor, 0) /\ low = Later(lowFor, 0)  OBVIOUS
<1>3. /\ high \in 0..Hold /\ low \in 0..Hold
      /\ low <= busyFor /\ (low >= Hold => busyFor >= Hold)
  BY <1>1, <1>2 DEF Later
<1>4. PICK gate : gate = OccupancyGate(level)  OBVIOUS
<1>5. /\ paused' = gate.paused /\ highFor' = gate.high /\ lowFor' = gate.low
      /\ spiked' = (level = 2) /\ busyFor' = IF level > 0 THEN 0 ELSE busyFor
  BY <1>4 DEF UpdateOccupancyGate
<1>6. CASE level = 2
  <2>1. gate = [paused |-> paused \/ high >= Hold, high |-> high, low |-> -1]
    BY <1>2, <1>4, <1>6 DEF OccupancyGate
  <2>2. /\ highFor' = high /\ lowFor' = -1 /\ busyFor' = 0 /\ spiked' \in BOOLEAN
        /\ paused' = (paused \/ high >= Hold)
    BY <1>5, <1>6, <2>1
  <2>3. paused' \in BOOLEAN /\ (paused => paused')  BY <2>2
  <2> QED  BY <1>1, <1>3, <2>2, <2>3
<1>7. CASE level = 1
  <2>1. gate = [paused |-> paused, high |-> IF paused THEN -1 ELSE highFor, low |-> -1]
    BY <1>4, <1>7 DEF OccupancyGate
  <2>2. /\ highFor' \in {-1, highFor} /\ lowFor' = -1 /\ busyFor' = 0
        /\ spiked' \in BOOLEAN /\ paused' = paused
    BY <1>5, <1>7, <2>1
  <2> QED  BY <1>1, <2>2
<1>8. CASE level = 0 /\ low >= Hold
  <2>1. gate = [paused |-> FALSE, high |-> -1, low |-> -1]
    BY <1>2, <1>4, <1>8 DEF OccupancyGate
  <2>2. /\ highFor' = -1 /\ lowFor' = -1 /\ busyFor' = busyFor
        /\ spiked' \in BOOLEAN /\ paused' = FALSE
    BY <1>5, <1>8, <2>1
  <2>3. busyFor >= Hold  BY <1>3, <1>8
  <2>4. /\ highFor' \in -1..Hold /\ lowFor' \in -1..Hold /\ busyFor' \in 0..Hold
        /\ lowFor' <= busyFor'
    BY <1>1, <2>2
  <2>5. paused' \in BOOLEAN  BY <2>2
  <2> QED  BY <2>2, <2>3, <2>4, <2>5
<1>9. CASE level = 0 /\ ~(low >= Hold)
  <2>1. gate = [paused |-> paused, high |-> IF paused THEN -1 ELSE highFor, low |-> low]
    BY <1>2, <1>4, <1>9 DEF OccupancyGate
  <2>2. /\ highFor' \in {-1, highFor} /\ lowFor' = low /\ busyFor' = busyFor
        /\ spiked' \in BOOLEAN /\ paused' = paused
    BY <1>5, <1>9, <2>1
  <2> QED  BY <1>1, <1>3, <2>2
<1> QED  BY <1>6, <1>7, <1>8, <1>9

\* The level of a probe that was taken.
LEMMA GateLevel ==
  ASSUME GateInv, NEW c \in Callers, reading[c] # NoProbe
  PROVE  Stable(reading[c].load) \in 0..2
BY DEF GateInv, GateTypeOK, Stable

\* What is left of a probe when a caller has decided.
LEMMA GateForgets ==
  ASSUME GateInv, NEW c \in Callers, reading' = [reading EXCEPT ![c] = NoProbe],
         UNCHANGED cache
  PROVE  /\ \A probe \in {cache'} \cup {reading'[d] : d \in Callers} :
              probe = NoProbe \/ probe \in ProbeType
         /\ DOMAIN reading' = Callers
<1>1. \A d \in Callers : reading'[d] \in {NoProbe, reading[d]}  BY DEF GateInv
<1>2. \A d \in Callers : reading[d] = NoProbe \/ reading[d] \in ProbeType
  BY DEF GateInv, GateTypeOK, ProbeType
<1>3. cache = NoProbe \/ cache \in ProbeType  BY DEF GateInv, GateTypeOK, ProbeType
<1> QED  BY <1>1, <1>2, <1>3 DEF GateInv

\* The machine becomes idle.
LEMMA GateMachineIdles ==
  ASSUME GateInv, MachineIdles
  PROVE  GateInv' /\ (paused /\ ~paused' => busyFor >= Hold)
BY DEF GateInv, GateTypeOK, MachineIdles, gateVars

\* A caller probes the machine.
LEMMA GateProbe ==
  ASSUME GateInv, NEW c \in Callers, Probe(c)
  PROVE  GateInv' /\ (paused /\ ~paused' => busyFor >= Hold)
<1>1. PICK now \in Machine :
        cache' = Reading(now) /\ reading' = [reading EXCEPT ![c] = Reading(now)]
  BY DEF Probe
<1>2. now \in ProbeType  BY <1>1 DEF Machine, ProbeType
<1>3. PICK seen : seen = Reading(now)  OBVIOUS
<1>4. seen \in ProbeType
  <2>1. CASE cache = NoProbe  BY <1>2, <1>3, <2>1 DEF Reading
  <2>2. CASE cache # NoProbe
    <3>1. PICK was \in ProbeType : was = cache
      BY <2>2 DEF GateInv, GateTypeOK, ProbeType
    <3>2. PICK load : load = Later(now.load, was.load)  OBVIOUS
    <3>3. load \in 0..2  BY <1>2, <3>1, <3>2 DEF ProbeType, Later
    <3>4. seen = [was EXCEPT !.load = load]  BY <1>3, <2>2, <3>1, <3>2 DEF Reading
    <3> QED  BY <3>3, <3>4 DEF ProbeType
  <2> QED  BY <2>1, <2>2
<1>5. \A d \in Callers : reading'[d] \in {seen, reading[d]}
  BY <1>1, <1>3 DEF GateInv
<1>6. \A d \in Callers : reading[d] = NoProbe \/ reading[d] \in ProbeType
  BY DEF GateInv, GateTypeOK, ProbeType
<1>7. \A probe \in {cache'} \cup {reading'[d] : d \in Callers} :
        probe = NoProbe \/ probe \in ProbeType
  BY <1>1, <1>3, <1>4, <1>5, <1>6
<1>8. DOMAIN reading' = Callers  BY <1>1 DEF GateInv
<1>9. UNCHANGED <<idle, paused, highFor, lowFor, spiked, busyFor, outcomes, step,
                  flights, allowed>>
  BY DEF Probe, gateVars
<1>10. GateTypeOK'
  BY <1>7, <1>9 DEF GateInv, GateTypeOK, ProbeType
<1> QED  BY <1>8, <1>9, <1>10 DEF GateInv

\* An admission decides on the probe it has.
LEMMA GateDecide ==
  ASSUME GateInv, NEW c \in Callers, Decide(c)
  PROVE  GateInv' /\ (paused /\ ~paused' => busyFor >= Hold)
<1>1. /\ reading[c] # NoProbe /\ reading' = [reading EXCEPT ![c] = NoProbe]
      /\ UNCHANGED <<idle, cache, outcomes, step, flights, allowed>>
      /\ UpdateOccupancyGate(Stable(reading[c].load)) \/ UNCHANGED gateVars
  BY DEF Decide
<1>2. /\ \A probe \in {cache'} \cup {reading'[d] : d \in Callers} :
           probe = NoProbe \/ probe \in ProbeType
      /\ DOMAIN reading' = Callers
  BY <1>1, GateForgets
<1>3. PICK level \in 0..2 : level = Stable(reading[c].load)  BY <1>1, GateLevel
<1>4. /\ paused' \in BOOLEAN /\ spiked' \in BOOLEAN
      /\ highFor' \in -1..Hold /\ lowFor' \in -1..Hold /\ busyFor' \in 0..Hold
      /\ lowFor' <= busyFor'
      /\ paused /\ ~paused' => busyFor >= Hold
  <2>1. CASE UpdateOccupancyGate(level)  BY <2>1, GateDecides
  <2>2. CASE UNCHANGED gateVars
    <3>1. UNCHANGED <<paused, highFor, lowFor, spiked, busyFor>>  BY <2>2 DEF gateVars
    <3> QED  BY <3>1 DEF GateInv, GateTypeOK
  <2> QED  BY <1>1, <1>3, <2>1, <2>2
<1>5. GateTypeOK'
  BY <1>1, <1>2, <1>4 DEF GateInv, GateTypeOK, ProbeType
<1> QED  BY <1>1, <1>2, <1>4, <1>5 DEF GateInv

\* The dispatcher decides: it plans, claims or runs.
LEMMA GateDispatch ==
  ASSUME GateInv, Dispatch
  PROVE  GateInv' /\ (paused /\ ~paused' => busyFor >= Hold)
<1>1. PICK probe : probe = reading["generation"]  OBVIOUS
<1>2. PICK open \in BOOLEAN :
        open = (~OccupancyGate(Stable(probe.load)).paused /\ ~HardWall("generation", probe))
  OBVIOUS
<1>3. /\ probe # NoProbe
      /\ reading' = [reading EXCEPT !["generation"] = NoProbe]
      /\ UpdateOccupancyGate(Stable(probe.load))
      /\ allowed' = open
      /\ UNCHANGED <<idle, cache, outcomes>>
      /\ \/ ~open /\ step' = "plan" /\ UNCHANGED flights
         \/ /\ open /\ step = "plan"
            /\ step' = (IF flights < Cap THEN "claim" ELSE "plan")
            /\ UNCHANGED flights
         \/ open /\ step = "claim" /\ step' \in {"plan", "run"} /\ UNCHANGED flights
         \/ open /\ step = "run" /\ step' = "plan" /\ flights' = flights + 1
  BY <1>1, <1>2 DEF Dispatch
<1>4. "generation" \in Callers /\ Cap \in Nat \ {0}  BY GateBounds
<1>5. /\ \A q \in {cache'} \cup {reading'[d] : d \in Callers} :
           q = NoProbe \/ q \in ProbeType
      /\ DOMAIN reading' = Callers
  BY <1>3, <1>4, GateForgets
<1>6. PICK level \in 0..2 : level = Stable(probe.load)  BY <1>1, <1>3, <1>4, GateLevel
<1>7. UpdateOccupancyGate(level)  BY <1>3, <1>6
<1>8. /\ paused' \in BOOLEAN /\ spiked' \in BOOLEAN
      /\ highFor' \in -1..Hold /\ lowFor' \in -1..Hold /\ busyFor' \in 0..Hold
      /\ lowFor' <= busyFor'
      /\ paused /\ ~paused' => busyFor >= Hold
  BY <1>7, GateDecides
<1>9. /\ step \in {"plan", "claim", "run"} /\ flights \in 0..Cap
      /\ step # "plan" => flights < Cap
  BY DEF GateInv, GateTypeOK
<1>10. /\ step' \in {"plan", "claim", "run"} /\ flights' \in 0..Cap
       /\ step' # "plan" => flights' < Cap
  BY <1>3, <1>4, <1>9
<1>11. allowed' \in BOOLEAN /\ UNCHANGED <<idle, outcomes>>  BY <1>2, <1>3
<1>12. GateTypeOK'
  BY <1>5, <1>8, <1>10, <1>11 DEF GateInv, GateTypeOK, ProbeType
<1> QED  BY <1>5, <1>8, <1>10, <1>11, <1>12 DEF GateInv

\* The window of outcomes stays within its bound when one more is remembered.
LEMMA GateRemembers ==
  ASSUME GateInv, NEW ok \in BOOLEAN, Remember(ok)
  PROVE  outcomes' \in Seq(OutcomeType) /\ Len(outcomes') <= Window
<1>1. outcomes \in Seq(OutcomeType) /\ Len(outcomes) <= Window /\ Window \in Nat \ {0}
  BY GateBounds DEF GateInv, GateTypeOK
<1>2. PICK o : o = [ok |-> ok, age |-> 0]  OBVIOUS
<1>3. o \in OutcomeType  BY <1>2, GateBounds DEF OutcomeType
<1>4. PICK all : all = Append(outcomes, o)  OBVIOUS
<1>5. all \in Seq(OutcomeType) /\ Len(all) = Len(outcomes) + 1  BY <1>1, <1>3, <1>4
<1>6. outcomes' = IF Len(all) > Window THEN Tail(all) ELSE all
  BY <1>2, <1>4 DEF Remember
<1>7. CASE Len(all) > Window
  <2>1. Tail(all) \in Seq(OutcomeType) /\ Len(Tail(all)) = Len(all) - 1
    BY <1>1, <1>5
  <2> QED  BY <1>1, <1>5, <1>6, <1>7, <2>1
<1>8. CASE ~(Len(all) > Window)  BY <1>1, <1>5, <1>6, <1>8
<1> QED  BY <1>7, <1>8

\* What is remembered is outcomes.
LEMMA GateOutcomes ==
  ASSUME NEW s \in Seq(OutcomeType)
  PROVE  \A i \in DOMAIN s : s[i] \in [ok : BOOLEAN, age : 0..KeptFor]
<1>1. \A i \in DOMAIN s : s[i] \in OutcomeType  OBVIOUS
<1> QED  BY <1>1 DEF OutcomeType

\* A generation ends.
LEMMA GateFinish ==
  ASSUME GateInv, FinishGeneration
  PROVE  GateInv' /\ (paused /\ ~paused' => busyFor >= Hold)
<1>1. /\ flights > 0 /\ flights' = flights - 1
      /\ UNCHANGED <<idle, cache, reading, paused, highFor, lowFor, spiked, busyFor,
                     step, allowed>>
      /\ (\E ok \in BOOLEAN : Remember(ok)) \/ UNCHANGED outcomes
  BY DEF FinishGeneration, gateVars
<1>2. outcomes' \in Seq(OutcomeType) /\ Len(outcomes') <= Window
  BY <1>1, GateRemembers DEF GateInv, GateTypeOK
<1>3. \A i \in DOMAIN outcomes' : outcomes'[i] \in [ok : BOOLEAN, age : 0..KeptFor]
  <2>1. PICK s \in Seq(OutcomeType) : s = outcomes'  BY <1>2
  <2> QED  BY <2>1, GateOutcomes
<1>4. flights' \in 0..Cap /\ (step' # "plan" => flights' < Cap)
  BY <1>1, GateBounds DEF GateInv, GateTypeOK
<1>5. GateTypeOK'
  BY <1>1, <1>2, <1>3, <1>4 DEF GateInv, GateTypeOK
<1> QED  BY <1>1, <1>2, <1>4, <1>5 DEF GateInv

\* Pruning leaves outcomes, and no more than there were.
LEMMA GatePrunes ==
  ASSUME NEW all \in Seq(OutcomeType)
  PROVE  Pruned(all) \in Seq(OutcomeType) /\ Len(Pruned(all)) <= Len(all)
<1>1. PICK n \in Nat : n = Len(all) /\ DOMAIN all = 1..n  OBVIOUS
<1>2. PICK grown : grown = [i \in DOMAIN all |-> Grown(all[i])]  OBVIOUS
<1>3. \A i \in 1..n : grown[i] \in OutcomeType
  <2>1. SUFFICES ASSUME NEW i \in 1..n PROVE grown[i] \in OutcomeType  OBVIOUS
  <2>2. PICK o \in OutcomeType : o = all[i]  BY <1>1
  <2>3. PICK age : age = Aging(o.age, KeptFor)  OBVIOUS
  <2>4. age \in 0..KeptFor  BY <2>3, GateBounds DEF Aging, OutcomeType
  <2>5. grown[i] = [o EXCEPT !.age = age]  BY <1>1, <1>2, <2>2, <2>3 DEF Grown
  <2> QED  BY <2>4, <2>5 DEF OutcomeType
<1>4. grown \in Seq(OutcomeType) /\ Len(grown) = n
  BY <1>1, <1>2, <1>3
<1>5. PICK old : old = {i \in DOMAIN grown : grown[i].age >= KeptFor}  OBVIOUS
<1>6. old \subseteq 1..n  BY <1>4, <1>5
<1>7. IsFiniteSet(1..n) /\ Cardinality(1..n) = n
  <2>1. 1 \in Int /\ n \in Int  BY <1>1
  <2>2. /\ IsFiniteSet(1..n)
        /\ Cardinality(1..n) = IF 1 > n THEN 0 ELSE n - 1 + 1
    BY <2>1, FS_Interval
  <2> QED  BY <2>2
<1>8. Cardinality(old) \in Nat /\ Cardinality(old) <= n
  BY <1>6, <1>7, FS_Subset, FS_CardinalityType
<1>9. PICK k \in Nat : k = Cardinality(old) /\ k <= n  BY <1>8
<1>10. Pruned(all) = SubSeq(grown, k + 1, n)
  BY <1>2, <1>4, <1>5, <1>9 DEF Pruned
<1>11. /\ SubSeq(grown, k + 1, n) \in Seq(OutcomeType)
       /\ Len(SubSeq(grown, k + 1, n)) = n - k
  BY <1>4, <1>9
<1> QED  BY <1>1, <1>9, <1>10, <1>11

\* Time passes: what was found low stays low for no longer than the load did.
LEMMA GateTick ==
  ASSUME GateInv, Tick
  PROVE  GateInv' /\ (paused /\ ~paused' => busyFor >= Hold)
<1>1. /\ cache' = NoProbe /\ spiked' = FALSE /\ outcomes' = Pruned(outcomes)
      /\ highFor' = Aging(highFor, Hold) /\ lowFor' = Aging(lowFor, Hold)
      /\ busyFor' = Aging(busyFor, Hold)
      /\ UNCHANGED <<idle, reading, paused, step, flights, allowed>>
  BY DEF Tick
<1>2. outcomes' \in Seq(OutcomeType) /\ Len(outcomes') <= Window
  <2>1. PICK all \in Seq(OutcomeType) : all = outcomes  BY DEF GateInv
  <2>2. Pruned(all) \in Seq(OutcomeType) /\ Len(Pruned(all)) <= Len(all)
    BY GatePrunes
  <2>3. outcomes' = Pruned(all) /\ Len(all) <= Window
    BY <1>1, <2>1 DEF GateInv, GateTypeOK
  <2>4. PICK left : left = Pruned(all)  OBVIOUS
  <2>5. left \in Seq(OutcomeType) /\ Len(left) <= Window
    BY <2>2, <2>3, <2>4, GateBounds
  <2> QED  BY <2>3, <2>4, <2>5
<1>3. \A i \in DOMAIN outcomes' : outcomes'[i] \in [ok : BOOLEAN, age : 0..KeptFor]
  <2>1. PICK s \in Seq(OutcomeType) : s = outcomes'  BY <1>2
  <2> QED  BY <2>1, GateOutcomes
<1>4. /\ highFor' \in -1..Hold /\ lowFor' \in -1..Hold /\ busyFor' \in 0..Hold
      /\ lowFor' <= busyFor'
  BY <1>1, GateBounds DEF GateInv, GateTypeOK, Aging
<1>5. \A probe \in {cache'} \cup {reading'[d] : d \in Callers} :
        probe = NoProbe \/ probe \in ProbeType
  BY <1>1 DEF GateInv, GateTypeOK, ProbeType
<1>6. GateTypeOK'
  BY <1>1, <1>2, <1>3, <1>4, <1>5 DEF GateInv, GateTypeOK, ProbeType
<1> QED  BY <1>1, <1>2, <1>4, <1>6 DEF GateInv

\* The controller starts open, on no probe.
LEMMA GateStarts ==
  ASSUME GateInit
  PROVE  GateInv
<1>1. /\ idle = FALSE /\ cache = NoProbe /\ reading = [c \in Callers |-> NoProbe]
      /\ paused = FALSE /\ highFor = -1 /\ lowFor = -1 /\ spiked = FALSE
      /\ busyFor = Hold /\ outcomes = <<>> /\ step = "plan" /\ flights = 0
      /\ allowed = FALSE
  BY DEF GateInit
<1>2. <<>> \in Seq(OutcomeType) /\ Len(<<>>) = 0 /\ DOMAIN <<>> = {}  OBVIOUS
<1>3. \A c \in Callers : reading[c] = NoProbe  BY <1>1
<1>4. /\ idle \in BOOLEAN /\ paused \in BOOLEAN /\ spiked \in BOOLEAN /\ allowed \in BOOLEAN
      /\ highFor \in -1..Hold /\ lowFor \in -1..Hold /\ busyFor \in 0..Hold
      /\ step \in {"plan", "claim", "run"} /\ flights \in 0..Cap
  <2>1. highFor \in -1..Hold /\ lowFor \in -1..Hold /\ busyFor \in 0..Hold
    BY <1>1, GateBounds
  <2>2. flights \in 0..Cap  BY <1>1, GateBounds
  <2> QED  BY <1>1, <2>1, <2>2
<1>5. Len(outcomes) <= Window /\ DOMAIN outcomes = {}  BY <1>1, <1>2, GateBounds
<1>6. \A probe \in {cache} \cup {reading[c] : c \in Callers} : probe = NoProbe
  BY <1>1, <1>3
<1>7. GateTypeOK  BY <1>4, <1>5, <1>6 DEF GateTypeOK
<1> QED  BY <1>1, <1>2, <1>7, GateBounds DEF GateInv

\* A step of the controller, or one that leaves it alone.
LEMMA GateStep ==
  ASSUME GateInv, [GateNext]_gateAllVars
  PROVE  GateInv' /\ (paused /\ ~paused' => busyFor >= Hold)
<1>1. CASE UNCHANGED gateAllVars
  BY <1>1 DEF gateAllVars, gateVars, GateInv, GateTypeOK
<1>2. ASSUME NEW c \in Callers, Probe(c) \/ Decide(c)
      PROVE  GateInv' /\ (paused /\ ~paused' => busyFor >= Hold)
  BY <1>2, GateProbe, GateDecide
<1> QED
  BY <1>1, <1>2, GateMachineIdles, GateTick, GateDispatch, GateFinish DEF GateNext

\* The invariant of the controller holds.
LEMMA GateInvariant == GateSpec => []GateInv
<1>1. GateInit => GateInv  BY GateStarts
<1>2. GateInv /\ [GateNext]_gateAllVars => GateInv'  BY GateStep
<1> QED  BY <1>1, <1>2, PTL DEF GateSpec

\* The latch opens only on a machine that every decision found calm for as long
\* as it holds, whoever asked, on probes that others had overtaken
\* (_update_occupancy_gate).
THEOREM GateOpensAfterCalm == GateSpec => OpensAfterCalm
<1>1. GateInv /\ [GateNext]_gateAllVars =>
        [paused /\ ~paused' => busyFor >= Hold]_gateAllVars
  BY GateStep
<1> QED  BY <1>1, GateInvariant, PTL DEF GateSpec, OpensAfterCalm

-----------------------------------------------------------------------------
(* Backups *)

Keys == 1..MaxObjects

\* No archive is in the bucket twice.
NoTwins == \A i, k \in DOMAIN bucket : bucket[i] = bucket[k] => i = k

\* As long as no lease was lost, the lease is with the process that works, the
\* row says that a backup runs until its end is written, and the archive that
\* was uploaded is the newest of the bucket and not among those that go.
LeaseProtects ==
  ~lapsed =>
    /\ \A p \in Processes : Working(p) => lease = p
    /\ \A p \in Processes : at[p] \in {"build", "list", "rotate", "failed"} =>
         status = "running"
    /\ \A p \in Processes : at[p] = "list" =>
         mine[p] = 0 \/ (bucket # <<>> /\ mine[p] = bucket[Len(bucket)])
    /\ \A p \in Processes : at[p] = "rotate" =>
         mine[p] \in Archives(bucket) \cup {0} /\ mine[p] \notin doomed[p]

BackupsInv ==
  /\ BackupsTypeOK
  /\ bucket \in Seq(Keys) /\ NoTwins
  /\ doomed \in [Processes -> SUBSET Keys] /\ mine \in [Processes -> 0..MaxObjects]
  /\ lapsed \in BOOLEAN
  /\ LeaseProtects /\ ReportedBackupExists

\* The bounds.
LEMMA BackupBounds ==
  /\ Nobody \notin Processes /\ Keep \in Nat \ {0} /\ MaxObjects \in Nat \ {0}
BY BackupAssumption

\* An archive that goes leaves the others, the newest among them if it is not
\* the one that goes.
LEMMA WithoutArchive ==
  ASSUME bucket \in Seq(Keys), NoTwins, NEW key
  PROVE  \E b \in Seq(Keys) :
           /\ b = Without(key)
           /\ \A i, k \in DOMAIN b : b[i] = b[k] => i = k
           /\ Archives(b) = Archives(bucket) \ {key}
           /\ bucket # <<>> /\ bucket[Len(bucket)] # key =>
                b # <<>> /\ b[Len(b)] = bucket[Len(bucket)]
<1>1. PICK n \in Nat : n = Len(bucket) /\ DOMAIN bucket = 1..n  OBVIOUS
<1>2. CASE key \notin Archives(bucket)
  <2>1. Without(key) = bucket  BY <1>2 DEF Without
  <2>2. Archives(bucket) = Archives(bucket) \ {key}  BY <1>2
  <2> QED  BY <2>1, <2>2 DEF NoTwins
<1>3. CASE key \in Archives(bucket)
  <2>1. \E i \in DOMAIN bucket : bucket[i] = key  BY <1>3 DEF Archives
  <2>2. PICK i \in 1..n : bucket[i] = key /\ i = CHOOSE k \in DOMAIN bucket : bucket[k] = key
    BY <1>1, <2>1
  <2>3. PICK b : b = SubSeq(bucket, 1, i - 1) \o SubSeq(bucket, i + 1, n)  OBVIOUS
  <2>4. b = Without(key)  BY <1>1, <1>3, <2>2, <2>3 DEF Without
  <2>5. PICK front : front = SubSeq(bucket, 1, i - 1)  OBVIOUS
  <2>6. PICK back : back = SubSeq(bucket, i + 1, n)  OBVIOUS
  <2>7. /\ front \in Seq(Keys) /\ Len(front) = i - 1
        /\ \A k \in 1..(i - 1) : front[k] = bucket[k]
    BY <1>1, <2>2, <2>5
  <2>8. /\ back \in Seq(Keys) /\ Len(back) = n - i
        /\ \A k \in 1..(n - i) : back[k] = bucket[i + k]
    <3>1. back \in Seq(Keys) /\ Len(back) = n - i  BY <1>1, <2>2, <2>6
    <3>2. \A k \in 1..(n - i) : back[k] = bucket[i + k]  BY <1>1, <2>2, <2>6
    <3> QED  BY <3>1, <3>2
  <2>9. /\ b \in Seq(Keys) /\ Len(b) = n - 1 /\ DOMAIN b = 1..(n - 1)
        /\ \A k \in 1..(n - 1) : b[k] = IF k < i THEN bucket[k] ELSE bucket[k + 1]
    <3>1. b = front \o back  BY <2>3, <2>5, <2>6
    <3>0. /\ front \o back \in Seq(Keys) /\ Len(front \o back) = Len(front) + Len(back)
          /\ \A k \in 1..(Len(front) + Len(back)) : (front \o back)[k] =
               IF k <= Len(front) THEN front[k] ELSE back[k - Len(front)]
      BY <2>7, <2>8, ConcatProperties
    <3>6. Len(front) + Len(back) = n - 1  BY <2>7, <2>8
    <3>7. \A k \in 1..(n - 1) :
            b[k] = IF k <= i - 1 THEN front[k] ELSE back[k - (i - 1)]
      BY <3>0, <3>1, <3>6, <2>7
    <3>2. b \in Seq(Keys) /\ Len(b) = n - 1  BY <3>0, <3>1, <3>6
    <3>3. DOMAIN b = 1..(n - 1)  BY <3>2
    <3>4. \A k \in 1..(n - 1) : k < i => b[k] = bucket[k]
      <4>1. SUFFICES ASSUME NEW k \in 1..(n - 1), k < i
                     PROVE  b[k] = bucket[k]
        OBVIOUS
      <4>2. k <= i - 1 /\ k \in 1..(i - 1)  BY <4>1
      <4> QED  BY <4>2, <3>7, <2>7
    <3>5. \A k \in 1..(n - 1) : ~(k < i) => b[k] = bucket[k + 1]
      <4>1. SUFFICES ASSUME NEW k \in 1..(n - 1), ~(k < i)
                     PROVE  b[k] = bucket[k + 1]
        OBVIOUS
      <4>6. ~(k <= i - 1)  BY <4>1
      <4>2. b[k] = back[k - (i - 1)]  BY <3>7, <4>6
      <4>3. k - (i - 1) \in 1..(n - i)  BY <4>1
      <4>4. back[k - (i - 1)] = bucket[i + (k - (i - 1))]  BY <4>3, <2>8
      <4>5. i + (k - (i - 1)) = k + 1  OBVIOUS
      <4> QED  BY <4>2, <4>4, <4>5
    <3> QED  BY <3>2, <3>3, <3>4, <3>5
  <2>10. \A j, k \in DOMAIN b : b[j] = b[k] => j = k
    <3>1. SUFFICES ASSUME NEW j \in 1..(n - 1), NEW k \in 1..(n - 1), b[j] = b[k]
                   PROVE  j = k
      BY <2>9
    <3>2. PICK p \in 1..n : p = IF j < i THEN j ELSE j + 1
      <4>1. n \in Nat /\ i \in 1..n /\ j \in 1..(n - 1)  OBVIOUS
      <4>2. j \in 1..n /\ j + 1 \in 1..n  BY <4>1
      <4> QED  BY <4>2
    <3>3. PICK q \in 1..n : q = IF k < i THEN k ELSE k + 1
      <4>1. n \in Nat /\ i \in 1..n /\ k \in 1..(n - 1)  OBVIOUS
      <4>2. k \in 1..n /\ k + 1 \in 1..n  BY <4>1
      <4> QED  BY <4>2
    <3>4. bucket[p] = bucket[q]  BY <3>1, <3>2, <3>3, <2>9
    <3>5. p = q  BY <3>4, <1>1 DEF NoTwins
    <3> QED  BY <3>1, <3>2, <3>3, <3>5, <1>1, <2>2
  <2>11. Archives(b) \subseteq Archives(bucket) \ {key}
    <3>1. SUFFICES ASSUME NEW k \in 1..(n - 1)
                   PROVE  \E p \in 1..n : bucket[p] = b[k] /\ bucket[p] # key
      <4>1. Archives(b) = {b[k] : k \in 1..(n - 1)}  BY <2>9 DEF Archives
      <4>2. Archives(bucket) = {bucket[p] : p \in 1..n}  BY <1>1 DEF Archives
      <4> QED  BY <4>1, <4>2
    <3>2. PICK p \in 1..n : p = IF k < i THEN k ELSE k + 1
      <4>1. n \in Nat /\ i \in 1..n /\ k \in 1..(n - 1)  OBVIOUS
      <4>2. k \in 1..n /\ k + 1 \in 1..n  BY <4>1
      <4> QED  BY <4>2
    <3>3. p # i  BY <3>2
    <3>4. bucket[p] # key  BY <3>3, <1>1, <2>2 DEF NoTwins
    <3>5. bucket[p] = b[k]  BY <3>1, <3>2, <2>9
    <3> QED  BY <3>4, <3>5
  <2>12. Archives(bucket) \ {key} \subseteq Archives(b)
    <3>5. SUFFICES ASSUME NEW x \in Archives(bucket), x # key
                   PROVE  x \in Archives(b)
      OBVIOUS
    <3>6. PICK p \in 1..n : bucket[p] = x  BY <1>1 DEF Archives
    <3>1. bucket[p] # key  BY <3>5, <3>6
    <3>2. p # i  BY <3>1, <2>2
    <3>3. ASSUME p < i  PROVE  \E k \in 1..(n - 1) : b[k] = bucket[p]
      <4>1. p \in 1..(n - 1)
        <5>1. n \in Nat /\ i \in 1..n /\ p \in 1..n  OBVIOUS
        <5> QED  BY <5>1, <3>3
      <4>2. b[p] = bucket[p]  BY <4>1, <3>3, <2>9
      <4> QED  BY <4>1, <4>2
    <3>4. ASSUME p > i  PROVE  \E k \in 1..(n - 1) : b[k] = bucket[p]
      <4>1. p - 1 \in 1..(n - 1) /\ ~(p - 1 < i) /\ (p - 1) + 1 = p
        <5>1. n \in Nat /\ i \in 1..n /\ p \in 1..n  OBVIOUS
        <5> QED  BY <5>1, <3>4
      <4>2. b[p - 1] = bucket[p]  BY <4>1, <2>9
      <4> QED  BY <4>1, <4>2
    <3>7. \E k \in 1..(n - 1) : b[k] = bucket[p]
      <4>1. p < i \/ p > i
        <5>1. i \in 1..n /\ p \in 1..n  OBVIOUS
        <5> QED  BY <5>1, <3>2
      <4> QED  BY <4>1, <3>3, <3>4
    <3> QED  BY <3>6, <3>7, <2>9 DEF Archives
  <2>13. ASSUME bucket # <<>>, bucket[Len(bucket)] # key
         PROVE  b # <<>> /\ b[Len(b)] = bucket[Len(bucket)]
    <3>1. n \in 1..n /\ i # n  BY <2>13, <1>1, <2>2
    <3>2. n - 1 \in 1..(n - 1) /\ ~(n - 1 < i) /\ (n - 1) + 1 = n  BY <3>1, <1>1, <2>2
    <3>3. b[n - 1] = bucket[n]  BY <3>2, <2>9
    <3>4. b # <<>>  BY <3>2, <2>9
    <3> QED  BY <3>3, <3>4, <1>1, <2>9
  <2> QED  BY <2>4, <2>9, <2>10, <2>11, <2>12, <2>13
<1> QED  BY <1>2, <1>3

\* The types from the parts of the invariant, and the other way round.
LEMMA BackupParts ==
  ASSUME BackupsInv
  PROVE  /\ at \in [Processes -> {"down", "idle", "asked", "build", "list", "rotate",
                                  "failed", "release"}]
         /\ running \in [Processes -> BOOLEAN] /\ putOff \in [Processes -> BOOLEAN]
         /\ status \in {"idle", "running", "success", "error"}
         /\ reported \in 0..MaxObjects /\ mine \in [Processes -> 0..MaxObjects]
         /\ doomed \in [Processes -> SUBSET Keys]
         /\ bucket \in Seq(Keys) /\ Archives(bucket) \subseteq Keys
         /\ lease \in Processes \cup {Nobody}
<1>1. Archives(bucket) \subseteq Keys
  BY DEF BackupsInv, BackupsTypeOK, Keys
<1> QED  BY <1>1 DEF BackupsInv, BackupsTypeOK

\* The process that works, if no lease was lost, works alone.
LEMMA WorksAlone ==
  ASSUME BackupsInv, ~lapsed, NEW p \in Processes, Working(p)
  PROVE  /\ lease = p
         /\ \A q \in Processes \ {p} : ~Working(q)
BY DEF BackupsInv, LeaseProtects

\* The types after a step.
LEMMA BackupTypes ==
  ASSUME at' \in [Processes -> {"down", "idle", "asked", "build", "list", "rotate",
                                "failed", "release"}],
         running' \in [Processes -> BOOLEAN], putOff' \in [Processes -> BOOLEAN],
         status' \in {"idle", "running", "success", "error"},
         reported' \in 0..MaxObjects, mine' \in [Processes -> 0..MaxObjects],
         doomed' \in [Processes -> SUBSET Keys],
         bucket' \in Seq(Keys), lease' \in Processes \cup {Nobody}
  PROVE  BackupsTypeOK'
<1>1. PICK b \in Seq(Keys) : b = bucket'  OBVIOUS
<1>2. \A i \in DOMAIN b : b[i] \in Keys  OBVIOUS
<1>3. Archives(b) \subseteq Keys  BY <1>2 DEF Archives
<1>4. PICK m \in [Processes -> 0..MaxObjects] : m = mine'  OBVIOUS
<1>5. Archives(m) \subseteq 0..MaxObjects  BY DEF Archives
<1>6. (UNION {doomed'[p] : p \in Processes}) \subseteq Keys  OBVIOUS
<1> QED  BY <1>1, <1>3, <1>4, <1>5, <1>6 DEF BackupsTypeOK, Keys

\* A step that leaves the row and the bucket alone and starts no backup: what a
\* process does before its backup and after it.
LEMMA BackupAround ==
  ASSUME BackupsInv, NEW p \in Processes, NEW to \in {"idle", "asked", "down", "failed", "release"},
         at' = [at EXCEPT ![p] = to],
         to \in {"failed", "release"} => Working(p),
         to = "failed" => at[p] \in {"build", "rotate"},
         running' \in [Processes -> BOOLEAN], putOff' \in [Processes -> BOOLEAN],
         mine' \in [Processes -> 0..MaxObjects], doomed' \in [Processes -> SUBSET Keys],
         \A q \in Processes \ {p} : mine'[q] = mine[q] /\ doomed'[q] = doomed[q],
         lease' \in {lease, Nobody}, lease' # lease => lease = p /\ to \in {"idle", "down"},
         UNCHANGED <<status, reported, bucket, lapsed>>
  PROVE  BackupsInv'
<1>1. /\ at \in [Processes -> {"down", "idle", "asked", "build", "list", "rotate",
                               "failed", "release"}]
      /\ status \in {"idle", "running", "success", "error"}
      /\ reported \in 0..MaxObjects /\ bucket \in Seq(Keys)
      /\ lease \in Processes \cup {Nobody}
  BY BackupParts
<1>2. /\ at'[p] = to /\ \A q \in Processes \ {p} : at'[q] = at[q]
      /\ at' \in [Processes -> {"down", "idle", "asked", "build", "list", "rotate",
                                "failed", "release"}]
  BY <1>1
<1>3. lease' \in Processes \cup {Nobody}  BY <1>1
<1>4. BackupsTypeOK'  BY <1>1, <1>2, <1>3, BackupTypes
<1>5. NoTwins' /\ ReportedBackupExists'
  BY DEF BackupsInv, NoTwins, ReportedBackupExists
<1>6. LeaseProtects'
  <2>1. SUFFICES ASSUME ~lapsed
                 PROVE  /\ \A q \in Processes : Working(q)' => lease' = q
                        /\ \A q \in Processes : at'[q] \in {"build", "list", "rotate", "failed"} =>
                             status' = "running"
                        /\ \A q \in Processes : at'[q] = "list" =>
                             mine'[q] = 0 \/ (bucket' # <<>> /\ mine'[q] = bucket'[Len(bucket')])
                        /\ \A q \in Processes : at'[q] = "rotate" =>
                             mine'[q] \in Archives(bucket') \cup {0} /\ mine'[q] \notin doomed'[q]
    BY DEF LeaseProtects
  <2>2. \A q \in Processes : Working(q)' => Working(q)
    BY <1>2 DEF Working
  <2>3. \A q \in Processes : Working(q)' => lease = q
    BY <2>1, <2>2 DEF BackupsInv, LeaseProtects
  <2>4. lease' # lease => ~Working(p)'  BY <1>2 DEF Working
  <2>5. \A q \in Processes : Working(q)' => lease' = q
    BY <2>3, <2>4
  <2>6. \A q \in Processes : at'[q] \in {"build", "list", "rotate", "failed"} =>
          at[q] \in {"build", "list", "rotate", "failed"}
    BY <1>2
  <2>7. \A q \in Processes : at'[q] \in {"build", "list", "rotate", "failed"} =>
             status' = "running"
    BY <2>1, <2>6 DEF BackupsInv, LeaseProtects
  <2>8. \A q \in Processes : at'[q] \in {"list", "rotate"} => q # p /\ at'[q] = at[q]
    BY <1>2
  <2> QED  BY <2>1, <2>5, <2>7, <2>8 DEF BackupsInv, LeaseProtects
<1> QED  BY <1>1, <1>4, <1>5, <1>6 DEF BackupsInv

\* A set of keys that is not empty has a smallest one.
LEMMA SmallestKey ==
  ASSUME NEW S \in SUBSET Keys, S # {}
  PROVE  \E k \in S : \A other \in S : k <= other
<1>1. S \subseteq Nat  BY DEF Keys
<1>2. PICK k \in S : \A m \in S : ~ (<<m, k>> \in OpToRel(<, Nat))
  BY <1>1, NatLessThanWellFounded, WFMin, Zenon
<1>3. \A m \in S : ~(m < k)
  BY <1>1, <1>2 DEF OpToRel
<1>4. \A m \in S : k <= m  BY <1>1, <1>3
<1> QED  BY <1>4

\* What a process does about a backup of its own, while no lease is lost.
HoldsLease(p) ==
  /\ at[p] \in {"build", "list", "rotate", "failed"} => status = "running"
  /\ at[p] = "list" => mine[p] = 0 \/ (bucket # <<>> /\ mine[p] = bucket[Len(bucket)])
  /\ at[p] = "rotate" => mine[p] \in Archives(bucket) \cup {0} /\ mine[p] \notin doomed[p]

\* A step of the process that works, or begins to, when nobody else does.
LEMMA BackupWork ==
  ASSUME BackupsInv, NEW p \in Processes,
         \A q \in Processes \ {p} : at'[q] = at[q],
         ~lapsed => \A q \in Processes \ {p} : ~Working(q),
         ~lapsed /\ Working(p)' => lease' = p,
         ~lapsed => HoldsLease(p)',
         lapsed' = lapsed
  PROVE  LeaseProtects'
<1>1. \A q \in Processes \ {p} : Working(q)' <=> Working(q)  BY DEF Working
<1>2. SUFFICES ASSUME ~lapsed
               PROVE  /\ \A q \in Processes : Working(q)' => lease' = q
                      /\ \A q \in Processes : HoldsLease(q)'
  BY DEF LeaseProtects, HoldsLease
<1>3. \A q \in Processes : Working(q)' => q = p  BY <1>1, <1>2
<1>4. ASSUME NEW q \in Processes, q # p  PROVE  HoldsLease(q)'
  <2>1. ~Working(q)'  BY <1>3, <1>4
  <2> QED  BY <2>1 DEF HoldsLease, Working
<1> QED  BY <1>2, <1>3, <1>4

\* A backup begins.
LEMMA BackupBegins ==
  ASSUME BackupsInv, NEW p \in Processes, Begin(p)
  PROVE  BackupsInv'
<1>1. /\ lease = Nobody /\ at[p] = "asked" /\ at' = [at EXCEPT ![p] = "build"]
      /\ lease' = p /\ running' = [running EXCEPT ![p] = TRUE] /\ status' = "running"
      /\ UNCHANGED <<mine, doomed, reported, bucket, putOff, lapsed>>
  BY DEF Begin, Goes, faultVars
<1>2. /\ at'[p] = "build" /\ \A q \in Processes \ {p} : at'[q] = at[q]
      /\ at' \in [Processes -> {"down", "idle", "asked", "build", "list", "rotate",
                                "failed", "release"}]
      /\ running' \in [Processes -> BOOLEAN]
  BY <1>1, BackupParts
<1>3. BackupsTypeOK'  BY <1>1, <1>2, BackupParts, BackupTypes
<1>4. ~lapsed => \A q \in Processes : ~Working(q)
  BY <1>1, BackupBounds DEF BackupsInv, LeaseProtects
<1>5. HoldsLease(p)'  BY <1>1, <1>2 DEF HoldsLease
<1>6. LeaseProtects'  BY <1>1, <1>2, <1>4, <1>5, BackupWork
<1>7. ReportedBackupExists'  BY <1>1 DEF ReportedBackupExists
<1> QED  BY <1>1, <1>3, <1>6, <1>7 DEF BackupsInv, NoTwins

\* An archive arrives.
LEMMA BackupUploads ==
  ASSUME BackupsInv, NEW p \in Processes, Upload(p)
  PROVE  BackupsInv'
<1>1. /\ at[p] = "build" /\ Unused # {} /\ at' = [at EXCEPT ![p] = "list"]
      /\ UNCHANGED <<running, doomed, status, reported, lease, putOff, lapsed>>
  BY DEF Upload, rowVars, faultVars
<1>2. Unused \in SUBSET Keys  BY DEF Unused, Keys
<1>3. PICK key : key = CHOOSE k \in Unused : \A other \in Unused : k <= other
  OBVIOUS
<1>4. key \in Unused  BY <1>1, <1>2, <1>3, SmallestKey
<1>5. key \in Keys /\ key \notin Archives(bucket)  BY <1>2, <1>4 DEF Unused
<1>6. bucket' = Append(bucket, key) /\ mine' = [mine EXCEPT ![p] = key]
  BY <1>3 DEF Upload
<1>7. PICK n \in Nat : n = Len(bucket) /\ DOMAIN bucket = 1..n
  BY BackupParts
<1>8. bucket \in Seq(Keys)  BY BackupParts
<1>9. PICK b \in Seq(Keys) : b = bucket'  BY <1>5, <1>6, <1>8
<1>10. /\ Len(b) = n + 1 /\ DOMAIN b = 1..(n + 1) /\ b[n + 1] = key
       /\ \A i \in 1..n : b[i] = bucket[i]
  BY <1>5, <1>6, <1>7, <1>8, <1>9
<1>11. \A i \in 1..n : bucket[i] # key  BY <1>5, <1>7 DEF Archives
<1>12. NoTwins'
  <2>1. SUFFICES ASSUME NEW i \in 1..(n + 1), NEW k \in 1..(n + 1), b[i] = b[k]
                 PROVE  i = k
    BY <1>9, <1>10 DEF NoTwins
  <2>2. i \in 1..n \/ i = n + 1  OBVIOUS
  <2>3. k \in 1..n \/ k = n + 1  OBVIOUS
  <2>4. CASE i \in 1..n /\ k \in 1..n
    BY <2>1, <2>4, <1>7, <1>10 DEF BackupsInv, NoTwins
  <2> QED  BY <2>1, <2>2, <2>3, <2>4, <1>10, <1>11
<1>13. /\ at'[p] = "list" /\ mine'[p] = key
       /\ \A q \in Processes \ {p} : at'[q] = at[q]
       /\ at' \in [Processes -> {"down", "idle", "asked", "build", "list", "rotate",
                                 "failed", "release"}]
       /\ mine' \in [Processes -> 0..MaxObjects]
  <2>1. key \in 0..MaxObjects  BY <1>5 DEF Keys
  <2> QED  BY <1>1, <1>6, <2>1, BackupParts
<1>14. BackupsTypeOK'  BY <1>1, <1>9, <1>13, BackupParts, BackupTypes
<1>15. ~lapsed => /\ lease = p /\ status = "running"
                  /\ \A q \in Processes \ {p} : ~Working(q)
  BY <1>1, WorksAlone DEF Working, BackupsInv, LeaseProtects
<1>16. bucket' # <<>> /\ bucket'[Len(bucket')] = key  BY <1>9, <1>10
<1>17. ~lapsed => HoldsLease(p)'  BY <1>1, <1>13, <1>15, <1>16 DEF HoldsLease
<1>18. LeaseProtects'  BY <1>1, <1>13, <1>15, <1>17, BackupWork
<1>19. ReportedBackupExists'  BY <1>1, <1>15 DEF ReportedBackupExists
<1> QED
  BY <1>1, <1>9, <1>12, <1>13, <1>14, <1>18, <1>19, BackupParts DEF BackupsInv

\* The archives that a rotation takes: its own is the newest and stays.
LEMMA BackupRotates ==
  ASSUME BackupsInv, NEW p \in Processes, ApplyRotation(p)
  PROVE  BackupsInv'
<1>1. /\ at[p] = "list" /\ at' = [at EXCEPT ![p] = "rotate"]
      /\ doomed' = [doomed EXCEPT ![p] = Outdated]
      /\ UNCHANGED <<running, mine, status, reported, lease, bucket, putOff, lapsed>>
  BY DEF ApplyRotation, Goes, rowVars, faultVars
<1>2. PICK n \in Nat : n = Len(bucket) /\ DOMAIN bucket = 1..n
  BY BackupParts
<1>3. Outdated \subseteq Keys
  BY BackupParts DEF Outdated, Archives
<1>4. n \in 1..n => bucket[n] \notin Outdated
  <2>1. SUFFICES ASSUME n \in 1..n, NEW j \in 1..n, j <= n - Keep
                 PROVE  bucket[j] # bucket[n]
    BY <1>2 DEF Outdated
  <2>2. j # n  BY <2>1, BackupBounds
  <2> QED  BY <2>1, <2>2, <1>2 DEF BackupsInv, NoTwins
<1>5. /\ at'[p] = "rotate" /\ doomed'[p] = Outdated
      /\ \A q \in Processes \ {p} : at'[q] = at[q]
      /\ at' \in [Processes -> {"down", "idle", "asked", "build", "list", "rotate",
                                "failed", "release"}]
      /\ doomed' \in [Processes -> SUBSET Keys]
  BY <1>1, <1>3, BackupParts
<1>6. BackupsTypeOK'  BY <1>1, <1>5, BackupParts, BackupTypes
<1>7. ~lapsed => /\ lease = p /\ status = "running"
                 /\ \A q \in Processes \ {p} : ~Working(q)
                 /\ mine[p] = 0 \/ (bucket # <<>> /\ mine[p] = bucket[Len(bucket)])
  BY <1>1, WorksAlone DEF Working, BackupsInv, LeaseProtects
<1>8. bucket # <<>> => n \in 1..n /\ bucket[n] \in Archives(bucket)
  BY <1>2, BackupParts DEF Archives
<1>9. 0 \notin Outdated  BY <1>3 DEF Keys
<1>10. ~lapsed => HoldsLease(p)'
  BY <1>1, <1>2, <1>4, <1>5, <1>7, <1>8, <1>9 DEF HoldsLease
<1>11. LeaseProtects'  BY <1>1, <1>5, <1>7, <1>10, BackupWork
<1>12. ReportedBackupExists' /\ NoTwins'
  BY <1>1 DEF BackupsInv, ReportedBackupExists, NoTwins
<1> QED
  BY <1>1, <1>5, <1>6, <1>11, <1>12, BackupParts DEF BackupsInv

\* The rotation deletes one of the archives it listed.
LEMMA BackupDeletes ==
  ASSUME BackupsInv, NEW p \in Processes, DeleteObject(p)
  PROVE  BackupsInv'
<1>1. PICK key \in doomed[p] :
        /\ doomed' = [doomed EXCEPT ![p] = doomed[p] \ {key}]
        /\ bucket' = Without(key)
  BY BackupParts DEF DeleteObject
<1>2. /\ at[p] = "rotate"
      /\ UNCHANGED <<at, running, mine, status, reported, lease, putOff, lapsed>>
  BY DEF DeleteObject, rowVars, faultVars
<1>3. PICK b \in Seq(Keys) :
        /\ b = Without(key)
        /\ \A i, k \in DOMAIN b : b[i] = b[k] => i = k
        /\ Archives(b) = Archives(bucket) \ {key}
  <2>1. bucket \in Seq(Keys) /\ NoTwins  BY DEF BackupsInv
  <2> QED  BY <2>1, WithoutArchive
<1>4. bucket' = b  BY <1>1, <1>3
<1>5. NoTwins'  BY <1>3, <1>4 DEF NoTwins
<1>6. doomed'[p] = doomed[p] \ {key} /\ doomed' \in [Processes -> SUBSET Keys]
  BY <1>1, BackupParts
<1>7. BackupsTypeOK'  BY <1>2, <1>4, <1>6, BackupParts, BackupTypes
<1>8. ~lapsed => /\ lease = p /\ status = "running"
                 /\ \A q \in Processes \ {p} : ~Working(q)
                 /\ mine[p] \in Archives(bucket) \cup {0} /\ mine[p] \notin doomed[p]
  BY <1>2, WorksAlone DEF Working, BackupsInv, LeaseProtects
<1>9. ~lapsed => HoldsLease(p)'
  <2>1. key \in doomed[p]  BY <1>1
  <2>2. Archives(bucket') = Archives(bucket) \ {key}  BY <1>3, <1>4
  <2> QED  BY <1>2, <1>6, <1>8, <2>1, <2>2 DEF HoldsLease
<1>10. LeaseProtects'  BY <1>2, <1>8, <1>9, BackupWork
<1>11. ReportedBackupExists'  BY <1>2, <1>8 DEF ReportedBackupExists
<1> QED
  BY <1>2, <1>4, <1>5, <1>6, <1>7, <1>10, <1>11, BackupParts DEF BackupsInv

\* The end of a backup is written: a success reports the archive that is there.
LEMMA BackupRecords ==
  ASSUME BackupsInv, NEW p \in Processes, RecordSuccess(p) \/ RecordError(p)
  PROVE  BackupsInv'
<1>1. /\ at[p] \in {"rotate", "failed"} /\ at' = [at EXCEPT ![p] = "release"]
      /\ running' = [running EXCEPT ![p] = FALSE]
      /\ UNCHANGED <<mine, doomed, lease, bucket, putOff, lapsed>>
      /\ \/ at[p] = "rotate" /\ status' = "success" /\ reported' = mine[p]
         \/ status' = "error" /\ reported' = reported
  BY DEF RecordSuccess, RecordError, Goes, Finished, faultVars
<1>2. /\ at'[p] = "release" /\ \A q \in Processes \ {p} : at'[q] = at[q]
      /\ at' \in [Processes -> {"down", "idle", "asked", "build", "list", "rotate",
                                "failed", "release"}]
      /\ running' \in [Processes -> BOOLEAN]
  BY <1>1, BackupParts
<1>3. /\ reported' \in 0..MaxObjects
      /\ status' \in {"idle", "running", "success", "error"}
  BY <1>1, BackupParts
<1>4. BackupsTypeOK'  BY <1>1, <1>2, <1>3, BackupParts, BackupTypes
<1>5. ~lapsed => /\ lease = p
                 /\ \A q \in Processes \ {p} : ~Working(q)
                 /\ at[p] = "rotate" => mine[p] \in Archives(bucket) \cup {0}
  BY <1>1, WorksAlone DEF Working, BackupsInv, LeaseProtects
<1>6. HoldsLease(p)'  BY <1>2 DEF HoldsLease
<1>7. LeaseProtects'  BY <1>1, <1>2, <1>5, <1>6, BackupWork
<1>8. ReportedBackupExists'  BY <1>1, <1>5 DEF ReportedBackupExists
<1> QED
  BY <1>1, <1>4, <1>7, <1>8, BackupParts DEF BackupsInv, NoTwins

\* A process starts and recovers, or puts off, what its predecessor left.
LEMMA BackupRecovers ==
  ASSUME BackupsInv, NEW p \in Processes, RecoverInterruptedExecution(p)
  PROVE  BackupsInv'
<1>1. /\ at[p] = "down" /\ at' = [at EXCEPT ![p] = "idle"]
      /\ putOff' = [putOff EXCEPT ![p] = lease # Nobody]
      /\ UNCHANGED <<running, mine, doomed, reported, lease, bucket, lapsed>>
      /\ \/ lease = Nobody /\ status' = "error"
         \/ status' = status
  BY DEF RecoverInterruptedExecution, Goes, rowVars, faultVars
<1>2. /\ at'[p] = "idle" /\ \A q \in Processes \ {p} : at'[q] = at[q]
      /\ at' \in [Processes -> {"down", "idle", "asked", "build", "list", "rotate",
                                "failed", "release"}]
      /\ putOff' \in [Processes -> BOOLEAN]
  BY <1>1, BackupParts
<1>3. status' \in {"idle", "running", "success", "error"}
  BY <1>1, BackupParts
<1>4. BackupsTypeOK'  BY <1>1, <1>2, <1>3, BackupParts, BackupTypes
<1>5. \A q \in Processes : Working(q)' => Working(q) /\ at'[q] = at[q]
  BY <1>2 DEF Working
<1>6. ~lapsed /\ status' # status => \A q \in Processes : ~Working(q)
  BY <1>1, BackupBounds DEF BackupsInv, LeaseProtects
<1>7. LeaseProtects'
  <2>1. SUFFICES ASSUME ~lapsed, NEW q \in Processes, Working(q)'
                 PROVE  lease' = q /\ HoldsLease(q)'
    BY <1>1 DEF LeaseProtects, HoldsLease, Working
  <2>2. Working(q) /\ at'[q] = at[q]  BY <2>1, <1>5
  <2>3. status' = status  BY <2>1, <2>2, <1>6
  <2>4. lease = q /\ HoldsLease(q)
    BY <2>1, <2>2 DEF BackupsInv, LeaseProtects, HoldsLease
  <2> QED  BY <2>2, <2>3, <2>4, <1>1 DEF HoldsLease
<1>8. ReportedBackupExists'
  BY <1>1 DEF BackupsInv, ReportedBackupExists
<1> QED
  BY <1>1, <1>4, <1>7, <1>8, BackupParts DEF BackupsInv, NoTwins

\* The lease runs out, on a process that is not at work or on one that is, which
\* is remembered.
LEMMA BackupLeaseRunsOut ==
  ASSUME BackupsInv, LeaseRunsOut
  PROVE  BackupsInv'
<1>1. /\ lease # Nobody /\ lease' = Nobody
      /\ UNCHANGED <<at, running, mine, doomed, status, reported, bucket, putOff>>
      /\ \/ at[lease] \in {"down", "idle", "asked"} /\ lapsed' = lapsed
         \/ lapsed' = TRUE
  BY DEF LeaseRunsOut, runVars, rowVars
<1>2. BackupsTypeOK'  BY <1>1, BackupParts, BackupTypes
<1>3. LeaseProtects'
  <2>1. SUFFICES ASSUME ~lapsed'
                 PROVE  /\ \A q \in Processes : ~Working(q)
                        /\ \A q \in Processes : HoldsLease(q)'
    BY <1>1 DEF LeaseProtects, HoldsLease, Working
  <2>2. ~lapsed /\ at[lease] \in {"down", "idle", "asked"}  BY <1>1, <2>1
  <2>3. \A q \in Processes : ~Working(q)
    BY <2>2 DEF Working, BackupsInv, LeaseProtects
  <2> QED  BY <1>1, <2>3 DEF HoldsLease, Working
<1>4. ReportedBackupExists'
  BY <1>1 DEF BackupsInv, ReportedBackupExists
<1> QED
  BY <1>1, <1>2, <1>3, <1>4, BackupParts DEF BackupsInv, NoTwins

\* An administrator deletes an archive, and every key of it is forgotten.
LEMMA BackupDeletedByHand ==
  ASSUME BackupsInv, DeleteBackup
  PROVE  BackupsInv'
<1>1. PICK i \in DOMAIN bucket :
        LET Cleared(key) == IF key = bucket[i] THEN 0 ELSE key
        IN  /\ bucket' = Without(bucket[i])
            /\ reported' = Cleared(reported) /\ mine' = [p \in Processes |-> Cleared(mine[p])]
            /\ doomed' = [p \in Processes |-> doomed[p] \ {bucket[i]}]
  BY DEF DeleteBackup
<1>2. PICK key \in Keys : key = bucket[i]  BY BackupParts
<1>3. /\ bucket' = Without(key)
      /\ reported' = IF reported = key THEN 0 ELSE reported
      /\ \A p \in Processes : mine'[p] = IF mine[p] = key THEN 0 ELSE mine[p]
      /\ \A p \in Processes : doomed'[p] = doomed[p] \ {key}
      /\ mine' = [p \in Processes |-> mine'[p]]
      /\ doomed' = [p \in Processes |-> doomed'[p]]
  BY <1>1, <1>2
<1>4. UNCHANGED <<at, running, status, lease, putOff, lapsed>>
  BY DEF DeleteBackup, faultVars
<1>5. PICK b \in Seq(Keys) :
        /\ b = Without(key)
        /\ \A j, k \in DOMAIN b : b[j] = b[k] => j = k
        /\ Archives(b) = Archives(bucket) \ {key}
        /\ bucket # <<>> /\ bucket[Len(bucket)] # key =>
             b # <<>> /\ b[Len(b)] = bucket[Len(bucket)]
  <2>1. bucket \in Seq(Keys) /\ NoTwins  BY DEF BackupsInv
  <2> QED  BY <2>1, WithoutArchive
<1>6. bucket' = b  BY <1>3, <1>5
<1>7. NoTwins'  BY <1>5, <1>6 DEF NoTwins
<1>8. /\ mine' \in [Processes -> 0..MaxObjects] /\ reported' \in 0..MaxObjects
      /\ doomed' \in [Processes -> SUBSET Keys]
  <2>1. 0 \in 0..MaxObjects  BY BackupBounds
  <2>2. \A p \in Processes : mine'[p] \in 0..MaxObjects /\ doomed'[p] \in SUBSET Keys
    BY <1>3, <2>1, BackupParts
  <2>3. reported' \in 0..MaxObjects  BY <1>3, <2>1, BackupParts
  <2> QED  BY <1>3, <2>2, <2>3
<1>9. BackupsTypeOK'  BY <1>4, <1>6, <1>8, BackupParts, BackupTypes
<1>10. key # 0  BY DEF Keys
<1>11. LeaseProtects'
  <2>1. SUFFICES ASSUME ~lapsed, NEW q \in Processes
                 PROVE  /\ Working(q)' => lease' = q
                        /\ HoldsLease(q)'
    BY <1>4 DEF LeaseProtects, HoldsLease
  <2>2. (Working(q) => lease = q) /\ HoldsLease(q)
    BY <2>1 DEF BackupsInv, LeaseProtects, HoldsLease
  <2>3. at'[q] = at[q] /\ status' = status /\ lease' = lease  BY <1>4
  <2>4. mine'[q] = (IF mine[q] = key THEN 0 ELSE mine[q]) /\ doomed'[q] = doomed[q] \ {key}
    BY <1>3
  <2>5. at[q] = "list" =>
          mine'[q] = 0 \/ (bucket' # <<>> /\ mine'[q] = bucket'[Len(bucket')])
    BY <2>2, <2>4, <1>5, <1>6 DEF HoldsLease
  <2>6. Archives(bucket') = Archives(bucket) \ {key}  BY <1>5, <1>6
  <2>7. ASSUME at[q] = "rotate"
        PROVE  mine'[q] \in Archives(bucket') \cup {0} /\ mine'[q] \notin doomed'[q]
    <3>1. mine[q] \in Archives(bucket) \cup {0} /\ mine[q] \notin doomed[q]
      BY <2>2, <2>7 DEF HoldsLease
    <3>2. CASE mine[q] = key
      <4>1. mine'[q] = 0 /\ 0 \notin doomed[q]  BY <3>2, <2>4, BackupParts DEF Keys
      <4> QED  BY <4>1, <2>4
    <3>3. CASE mine[q] # key  BY <3>1, <3>3, <2>4, <2>6
    <3> QED  BY <3>2, <3>3
  <2> QED  BY <2>2, <2>3, <2>5, <2>7 DEF HoldsLease, Working
<1>12. ReportedBackupExists'
  <2>1. Archives(bucket') = Archives(bucket) \ {key}  BY <1>5, <1>6
  <2> QED  BY <1>3, <1>4, <2>1 DEF BackupsInv, ReportedBackupExists
<1> QED
  BY <1>4, <1>6, <1>7, <1>8, <1>9, <1>11, <1>12 DEF BackupsInv

\* A process asks for a backup, is refused, fails, ends, or dies: the row and
\* the bucket stay as they are.
LEMMA BackupPasses ==
  ASSUME BackupsInv, NEW p \in Processes,
         \/ RunScheduledBackupIfNeeded(p) \/ RunManualBackup(p) \/ Refused(p)
         \/ BeginUnsaved(p) \/ BuildFails(p) \/ EndUnsaved(p)
         \/ ReleaseLease(p) \/ ProcessDies(p)
  PROVE  BackupsInv'
<1>1. CASE RunScheduledBackupIfNeeded(p) \/ RunManualBackup(p)
  <2>1. /\ at' = [at EXCEPT ![p] = "asked"]
        /\ UNCHANGED <<running, mine, doomed, status, reported, lease, bucket, putOff, lapsed>>
    BY <1>1 DEF RunScheduledBackupIfNeeded, RunManualBackup, Goes, rowVars, faultVars
  <2> QED  BY <2>1, BackupParts, BackupAround
<1>2. CASE Refused(p)
  <2>1. /\ at' = [at EXCEPT ![p] = "idle"]
        /\ UNCHANGED <<running, mine, doomed, status, reported, lease, bucket, putOff, lapsed>>
    BY <1>2 DEF Refused, Goes, rowVars, faultVars
  <2> QED  BY <2>1, BackupParts, BackupAround
<1>3. CASE BeginUnsaved(p)
  <2>1. /\ at' = [at EXCEPT ![p] = "idle"] /\ running' = [running EXCEPT ![p] = TRUE]
        /\ UNCHANGED <<mine, doomed, status, reported, lease, bucket, putOff, lapsed>>
    BY <1>3 DEF BeginUnsaved, Goes, rowVars
  <2>2. running' \in [Processes -> BOOLEAN]  BY <2>1, BackupParts
  <2> QED  BY <2>1, <2>2, BackupParts, BackupAround
<1>4. CASE BuildFails(p)
  <2>1. /\ at[p] \in {"build", "rotate"} /\ at' = [at EXCEPT ![p] = "failed"]
        /\ UNCHANGED <<running, mine, doomed, status, reported, lease, bucket, putOff, lapsed>>
    BY <1>4 DEF BuildFails, rowVars
  <2>2. Working(p)  BY <2>1 DEF Working
  <2> QED  BY <2>1, <2>2, BackupParts, BackupAround
<1>5. CASE EndUnsaved(p)
  <2>1. /\ at[p] = "failed" /\ at' = [at EXCEPT ![p] = "release"]
        /\ running' = [running EXCEPT ![p] = FALSE]
        /\ UNCHANGED <<mine, doomed, status, reported, lease, bucket, putOff, lapsed>>
    BY <1>5 DEF EndUnsaved, rowVars
  <2>2. Working(p) /\ running' \in [Processes -> BOOLEAN]
    BY <2>1, BackupParts DEF Working
  <2> QED  BY <2>1, <2>2, BackupParts, BackupAround
<1>6. ASSUME Freed(p)
      PROVE  /\ mine' \in [Processes -> 0..MaxObjects] /\ doomed' \in [Processes -> SUBSET Keys]
             /\ \A q \in Processes \ {p} : mine'[q] = mine[q] /\ doomed'[q] = doomed[q]
  <2>1. 0 \in 0..MaxObjects  BY BackupBounds
  <2> QED  BY <1>6, <2>1, BackupParts DEF Freed
<1>7. CASE ReleaseLease(p)
  <2>1. /\ at' = [at EXCEPT ![p] = "idle"] /\ Freed(p)
        /\ lease' = IF lease = p THEN Nobody ELSE lease
        /\ UNCHANGED <<running, status, reported, bucket, putOff, lapsed>>
    BY <1>7 DEF ReleaseLease, Goes, rowVars, faultVars
  <2>2. lease' \in {lease, Nobody} /\ (lease' # lease => lease = p)  BY <2>1
  <2> QED  BY <2>1, <2>2, <1>6, BackupParts, BackupAround
<1>8. CASE ProcessDies(p)
  <2>1. /\ at' = [at EXCEPT ![p] = "down"] /\ Freed(p)
        /\ running' = [running EXCEPT ![p] = FALSE]
        /\ lease' = IF LeaseDies /\ lease = p THEN Nobody ELSE lease
        /\ UNCHANGED <<status, reported, bucket, putOff, lapsed>>
    BY <1>8 DEF ProcessDies, rowVars
  <2>2. /\ lease' \in {lease, Nobody} /\ (lease' # lease => lease = p)
        /\ running' \in [Processes -> BOOLEAN]
    BY <2>1, BackupParts
  <2> QED  BY <2>1, <2>2, <1>6, BackupParts, BackupAround
<1> QED  BY <1>1, <1>2, <1>3, <1>4, <1>5, <1>7, <1>8

\* Every process starts idle on an empty bucket.
LEMMA BackupsStart ==
  ASSUME BackupsInit
  PROVE  BackupsInv
<1>1. /\ at = [p \in Processes |-> "idle"] /\ running = [p \in Processes |-> FALSE]
      /\ status = "idle" /\ reported = 0 /\ mine = [p \in Processes |-> 0]
      /\ doomed = [p \in Processes |-> {}] /\ lease = Nobody /\ bucket = <<>>
      /\ putOff = [p \in Processes |-> FALSE] /\ lapsed = FALSE
  BY DEF BackupsInit
<1>2. bucket \in Seq(Keys) /\ DOMAIN bucket = {}  BY <1>1
<1>3. 0 \in 0..MaxObjects  BY BackupBounds
<1>4. /\ mine \in [Processes -> 0..MaxObjects] /\ doomed \in [Processes -> SUBSET Keys]
      /\ \A p \in Processes : mine[p] = 0 /\ doomed[p] = {} /\ at[p] = "idle"
  BY <1>1, <1>3
<1>5. Archives(bucket) = {}  BY <1>2 DEF Archives
<1>6. Archives(mine) \subseteq 0..MaxObjects  BY <1>4 DEF Archives
<1>7. UNION {doomed[p] : p \in Processes} = {}  BY <1>4
<1>8. BackupsTypeOK
  BY <1>1, <1>3, <1>5, <1>6, <1>7 DEF BackupsTypeOK
<1>9. LeaseProtects /\ NoTwins /\ ReportedBackupExists
  BY <1>1, <1>2, <1>4 DEF LeaseProtects, NoTwins, ReportedBackupExists, Working
<1> QED  BY <1>1, <1>2, <1>4, <1>8, <1>9 DEF BackupsInv

\* A step of the backups, or one that leaves them alone.
LEMMA BackupsStep ==
  ASSUME BackupsInv, [BackupsNext]_backupAllVars
  PROVE  BackupsInv'
<1>1. CASE IntervalPasses \/ UNCHANGED backupAllVars
  <2>1. UNCHANGED <<at, running, mine, doomed, status, reported, lease, bucket, putOff, lapsed>>
    BY <1>1 DEF IntervalPasses, runVars, rowVars, faultVars, backupAllVars
  <2> QED
    BY <2>1 DEF BackupsInv, BackupsTypeOK, NoTwins, LeaseProtects, ReportedBackupExists, Working
<1>2. ASSUME NEW p \in Processes,
             \/ BackupStep(p) \/ RunManualBackup(p) \/ BeginUnsaved(p)
             \/ BuildFails(p) \/ EndUnsaved(p) \/ ProcessDies(p)
      PROVE  BackupsInv'
  BY <1>2, BackupPasses, BackupBegins, BackupUploads, BackupRotates, BackupDeletes,
     BackupRecords, BackupRecovers DEF BackupStep
<1> QED  BY <1>1, <1>2, BackupLeaseRunsOut, BackupDeletedByHand DEF BackupsNext

\* The invariant of the backups holds.
LEMMA BackupsInvariant == BackupsSpec => []BackupsInv
<1>1. BackupsInit => BackupsInv  BY BackupsStart
<1>2. BackupsInv /\ [BackupsNext]_backupAllVars => BackupsInv'  BY BackupsStep
<1> QED  BY <1>1, <1>2, PTL DEF BackupsSpec

\* The archive that the row reports is in the bucket unless an administrator
\* deleted it, and one backup is made at a time, however many processes back up,
\* die and recover, as long as no lease was lost (run_backup, _apply_rotation).
THEOREM BackupReportedExists ==
  BackupsSpec => [](ReportedBackupExists /\ OneBackupAtATime)
<1>1. BackupsInv => ReportedBackupExists /\ OneBackupAtATime
  BY DEF BackupsInv, LeaseProtects, OneBackupAtATime
<1> QED  BY <1>1, BackupsInvariant, PTL

-----------------------------------------------------------------------------
(* The services together *)

\* A step of the services is a step of each component, or leaves it alone.
LEMMA PartsStep ==
  ASSUME [PartsNext]_serviceVars
  PROVE  /\ [SubmissionNext]_submissionVars /\ [QuotaNext]_quotaVars
         /\ [ImportNext]_importVars /\ [GateNext]_gateAllVars
         /\ [BackupsNext]_backupAllVars
<1>1. CASE UNCHANGED serviceVars
  BY <1>1 DEF serviceVars, partVars
<1>2. CASE Only("submission") /\ SubmissionNext  BY <1>2, Zenon DEF Only
<1>3. CASE Only("quota") /\ QuotaNext  BY <1>3 DEF Only
<1>4. CASE Only("imports") /\ ImportNext  BY <1>4 DEF Only
<1>5. CASE Only("gate") /\ GateNext  BY <1>5 DEF Only
<1>6. CASE Only("backups") /\ BackupsNext  BY <1>6 DEF Only
<1> QED  BY <1>1, <1>2, <1>3, <1>4, <1>5, <1>6 DEF PartsNext

\* A behavior of the services is a behavior of each component.
LEMMA PartsAreBehaviors ==
  PartsSpec => SubmissionSpec /\ QuotaSpec /\ ImportSpec /\ GateSpec /\ BackupsSpec
<1>1. PartsInit => /\ SubmissionInit /\ QuotaInit /\ ImportInit
                   /\ GateInit /\ BackupsInit
  BY DEF PartsInit
<1>2. [PartsNext]_serviceVars =>
        /\ [SubmissionNext]_submissionVars /\ [QuotaNext]_quotaVars
        /\ [ImportNext]_importVars /\ [GateNext]_gateAllVars
        /\ [BackupsNext]_backupAllVars
  BY PartsStep
<1> QED
  BY <1>1, <1>2, PTL
  DEF PartsSpec, SubmissionSpec, QuotaSpec, ImportSpec, GateSpec, BackupsSpec

\* Every component keeps its types, whichever of them is at work.
THEOREM ServicesTypeCorrect == PartsSpec => []ServicesTypeOK
<1>1. SubmissionInv /\ QuotaInv /\ ImportInv /\ GateInv /\ BackupsInv => ServicesTypeOK
  BY DEF SubmissionInv, QuotaInv, ImportInv, GateInv, BackupsInv, ServicesTypeOK
<1> QED
  BY <1>1, PartsAreBehaviors, SubmissionInvariant, QuotaInvariant, ImportInvariant,
     GateInvariant, BackupsInvariant, PTL

\* The gate opens only on a machine that was found calm, and the archive that is
\* reported stays in the bucket (_update_occupancy_gate, run_backup).
THEOREM GateAndBackupsSafe == GateSpec /\ BackupsSpec => GateAndBackupsAreSafe
BY GateOpensAfterCalm, BackupReportedExists, PTL DEF GateAndBackupsAreSafe

\* Checked side by side, the services are as safe as each is alone.
THEOREM ServicesSafe ==
  PartsSpec => /\ SubmissionsAreSafe /\ []QuotaIsSafe /\ ImportsAreSafe
               /\ GateAndBackupsAreSafe
BY PartsAreBehaviors, SubmissionsSafe, QuotaSafe, ImportsSafe, GateAndBackupsSafe, PTL
=============================================================================
