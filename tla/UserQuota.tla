------------------------------ MODULE UserQuota ------------------------------
(***************************************************************************)
(* The daily quota of one identity in one scope: the file quota_usage.json *)
(* of services/quota_service.py, and the image requests of the HTTP routes *)
(* that reserve units, submit a task, and then commit or cancel.           *)
(*                                                                         *)
(* A request makes at most one reservation, so the request stands for its  *)
(* reservation id too; a client's retry is another request with the same   *)
(* identifiers.  Reading and writing the file under its lock is one step.  *)
(* The day, though, is read before the lock is taken, so reserve() is two  *)
(* steps.  The task table is the set of requests that created a task.      *)
(* consume() has no caller and settings that switch the limit off make     *)
(* every operation do nothing: both are left out.                          *)
(***************************************************************************)
EXTENDS Naturals, FiniteSets

CONSTANTS
  Requests,    \* requests of the identity
  Ids,         \* idempotency keys and client task ids, one name space
  KeyOf,       \* request -> its idempotency key
  ClientOf,    \* request -> its client_task_id
  UnitsOf,     \* request -> units it asks for, 1 to IMAGE_QUOTA_MAX_UNITS
  Limit,       \* daily limit of the scope
  MaxDay       \* bound: days after the first one

Days == 0..MaxDay
NoReservation == "none"

ASSUME QuotaAssumption ==
  /\ NoReservation \notin Requests
  /\ KeyOf \in [Requests -> Ids]
  /\ ClientOf \in [Requests -> Ids]
  /\ UnitsOf \in [Requests -> Nat \ {0}]
  /\ IsFiniteSet(Requests)
  /\ Limit \in Nat
  /\ MaxDay \in Nat

VARIABLES
  today,       \* the calendar day
  quotaFile,   \* quota_usage.json: date, usage, idempotency keys, reservations
  expired,     \* requests whose reservation got older than the TTL
  stage,       \* where each request is
  handle,      \* the QuotaReservation object each request holds
  created,     \* requests that created a task
  bill,        \* history: charges of each identifier on each day
  crossed      \* history: some reserve() acted on a day that had passed

quotaVars == <<today, quotaFile, expired, stage, handle, created, bill, crossed>>

RequestStages == {"new", "dated", "reserved", "accepted", "rejected",
                  "done", "refused", "failed", "uncommitted", "dead"}
LiveStages == {"dated", "reserved", "accepted", "rejected"}

\* The dedupe keys of a request: its idempotency key and its alias.
KeysOf(r) == {KeyOf[r], ClientOf[r]}

\* The units a set of reservations holds, one pair per unit.
UnitsHeld(R) == UNION {{<<r, i>> : i \in 1..UnitsOf[r]} : r \in R}
Pending(R) == Cardinality(UnitsHeld(R))

EmptyFile(d) == [date |-> d, usage |-> 0, idem |-> {}, resv |-> {}]

\* _load: a file of another day is an empty one, and expired reservations
\* are not read.
Load(d) ==
  IF quotaFile.date = d THEN [quotaFile EXCEPT !.resv = @ \ expired] ELSE EmptyFile(d)

IsCharged(f, r) == KeysOf(r) \cap f.idem # {}

\* What a charge for reservation s writes, and what the history keeps of it.
Charged(f, s) == [f EXCEPT !.usage = @ + UnitsOf[s], !.idem = @ \cup KeysOf(s)]
Bill(d, S) ==
  /\ bill' = [bill EXCEPT ![d] = [i \in Ids |->
                @[i] + Cardinality({s \in S : i \in KeysOf(s)})]]
  /\ UNCHANGED crossed
NoBill == UNCHANGED <<bill, crossed>>

NoHandle == [rid |-> NoReservation, day |-> 0, cancelable |-> TRUE]

QuotaTypeOK ==
  /\ today \in Days
  /\ quotaFile \in [date: Days, usage: Nat, idem: SUBSET Ids, resv: SUBSET Requests]
  /\ expired \in SUBSET Requests
  /\ stage \in [Requests -> RequestStages]
  /\ handle \in [Requests -> [rid: Requests \cup {NoReservation}, day: Days,
                              cancelable: BOOLEAN]]
  /\ created \in SUBSET Requests
  /\ bill \in [Days -> [Ids -> Nat]]
  /\ crossed \in BOOLEAN

QuotaInit ==
  /\ today = 0
  /\ quotaFile = EmptyFile(0)
  /\ expired = {}
  /\ stage = [r \in Requests |-> "new"]
  /\ handle = [r \in Requests |-> NoHandle]
  /\ created = {}
  /\ bill = [d \in Days |-> [i \in Ids |-> 0]]
  /\ crossed = FALSE

Become(r, s) == stage' = [stage EXCEPT ![r] = s]

-----------------------------------------------------------------------------
(* reserve *)

\* The day is read before the lock.
ReadDay(r) ==
  /\ stage[r] = "new"
  /\ Become(r, "dated")
  /\ handle' = [handle EXCEPT ![r].day = today]
  /\ UNCHANGED <<today, quotaFile, expired, created>> /\ NoBill

\* A key of the request was charged today: the handle commits nothing.
ReserveCharged(r) ==
  /\ IsCharged(Load(handle[r].day), r)
  /\ Become(r, "reserved")
  /\ UNCHANGED <<quotaFile, handle>>

\* An active reservation with a key of the request is shared, and only its
\* first holder may cancel it.
ReserveShared(r) ==
  LET f == Load(handle[r].day) IN
  /\ ~IsCharged(f, r)
  /\ \E s \in f.resv :
       /\ KeysOf(s) \cap KeysOf(r) # {}
       /\ handle' = [handle EXCEPT ![r].rid = s, ![r].cancelable = FALSE]
  /\ Become(r, "reserved")
  /\ UNCHANGED quotaFile

Reservable(f, r) ==
  /\ ~IsCharged(f, r)
  /\ \A s \in f.resv : KeysOf(s) \cap KeysOf(r) = {}

Fits(f, n) == f.usage + Pending(f.resv) + n <= Limit

ReserveRefused(r) ==
  LET f == Load(handle[r].day) IN
  /\ Reservable(f, r)
  /\ ~Fits(f, UnitsOf[r])
  /\ Become(r, "refused")
  /\ UNCHANGED <<quotaFile, handle>>

ReserveFresh(r) ==
  LET f == Load(handle[r].day) IN
  /\ Reservable(f, r)
  /\ Fits(f, UnitsOf[r])
  /\ quotaFile' = [f EXCEPT !.resv = @ \cup {r}]
  /\ handle' = [handle EXCEPT ![r].rid = r]
  /\ Become(r, "reserved")

Reserve(r) ==
  /\ stage[r] = "dated"
  /\ \/ ReserveCharged(r)
     \/ ReserveShared(r)
     \/ ReserveRefused(r)
     \/ ReserveFresh(r)
  /\ crossed' = (crossed \/ handle[r].day # today)
  /\ UNCHANGED <<today, expired, created, bill>>

-----------------------------------------------------------------------------
(* The submission, seen from the quota: it fails, finds a task, or makes one *)

Matching(r) == {t \in created : KeysOf(t) \cap KeysOf(r) # {}}

SubmitAccepted(r) ==
  /\ stage[r] = "reserved"
  /\ Cardinality(Matching(r)) < 2
  /\ created' = IF Matching(r) = {} THEN created \cup {r} ELSE created
  /\ Become(r, "accepted")
  /\ UNCHANGED <<today, quotaFile, expired, handle>> /\ NoBill

SubmitRejected(r) ==
  /\ stage[r] = "reserved"
  /\ Become(r, "rejected")
  /\ UNCHANGED <<today, quotaFile, expired, handle, created>> /\ NoBill

-----------------------------------------------------------------------------
(* commit and cancel *)

\* No reservation, or the file is of another day: nothing is written.
CommitNothing(r) ==
  /\ \/ handle[r].rid = NoReservation
     \/ quotaFile.date # handle[r].day
  /\ Become(r, "done")
  /\ UNCHANGED quotaFile /\ NoBill

\* Mutant: a commit charges without looking.
ChargeAgain(f, s) == Charged(f, s)

\* A charge that first looks whether a key of the reservation was charged.
ChargeOnce(f, s) == IF IsCharged(f, s) THEN f ELSE Charged(f, s)

BillOnce(f, s) ==
  IF ChargeOnce(f, s) = f THEN NoBill ELSE Bill(f.date, {s})

\* The reservation is still there: it is taken out and charged.
CommitReserved(r) ==
  LET f == Load(quotaFile.date)
      s == handle[r].rid
  IN
  /\ s \in f.resv
  /\ quotaFile' = ChargeOnce([f EXCEPT !.resv = @ \ {s}], s)
  /\ BillOnce([f EXCEPT !.resv = @ \ {s}], s)
  /\ Become(r, "done")

\* The reservation expired, or its first holder cancelled or committed it:
\* the handle charges its own units if they still fit.
CommitLate(r) ==
  LET f == Load(quotaFile.date)
      s == handle[r].rid
  IN
  /\ s \notin f.resv
  /\ IF IsCharged(f, s) \/ Fits(f, UnitsOf[s])
       THEN /\ quotaFile' = ChargeOnce(f, s)
            /\ BillOnce(f, s)
            /\ Become(r, "done")
       ELSE /\ quotaFile' = f
            /\ NoBill
            /\ Become(r, "uncommitted")

Commit(r) ==
  /\ stage[r] = "accepted"
  /\ \/ CommitNothing(r)
     \/ /\ handle[r].rid # NoReservation
        /\ quotaFile.date = handle[r].day
        /\ CommitReserved(r) \/ CommitLate(r)
  /\ UNCHANGED <<today, expired, handle, created>>

MayCancel(r) == handle[r].rid # NoReservation /\ handle[r].cancelable

Cancel(r) ==
  LET f == Load(handle[r].day)
      s == handle[r].rid
  IN
  /\ stage[r] = "rejected"
  /\ IF MayCancel(r) /\ s \in f.resv
       THEN quotaFile' = [f EXCEPT !.resv = @ \ {s}]
       ELSE UNCHANGED quotaFile
  /\ Become(r, "failed")
  /\ UNCHANGED <<today, expired, handle, created>> /\ NoBill

-----------------------------------------------------------------------------
(* The start of the image queue reconciles reservations with the created *)

\* Reservations, expired ones too, of which a task carries a key.
Settled == {s \in quotaFile.resv : \E t \in created : KeyOf[t] \in KeysOf(s)}

Reconcile ==
  LET due == {s \in Settled : ~IsCharged(quotaFile, s)}
      left == quotaFile.resv \ (Settled \cup expired)
  IN
  /\ quotaFile.date = today
  /\ left # quotaFile.resv
  /\ quotaFile' = [quotaFile EXCEPT !.usage = @ + Pending(due),
                          !.idem = @ \cup UNION {KeysOf(s) : s \in due},
                          !.resv = left]
  /\ Bill(today, due)
  /\ UNCHANGED <<today, expired, stage, handle, created>>

-----------------------------------------------------------------------------
(* The environment: time and crashes *)

Expire(r) ==
  /\ r \in quotaFile.resv \ expired
  /\ expired' = expired \cup {r}
  /\ UNCHANGED <<today, quotaFile, stage, handle, created>> /\ NoBill

NextDay ==
  /\ today < MaxDay
  /\ today' = today + 1
  /\ UNCHANGED <<quotaFile, expired, stage, handle, created>> /\ NoBill

Crash(r) ==
  /\ stage[r] \in LiveStages
  /\ Become(r, "dead")
  /\ UNCHANGED <<today, quotaFile, expired, handle, created>> /\ NoBill

Request(r) ==
  \/ ReadDay(r)
  \/ Reserve(r)
  \/ SubmitAccepted(r)
  \/ SubmitRejected(r)
  \/ Commit(r)
  \/ Cancel(r)

QuotaNext ==
  \/ \E r \in Requests : Request(r) \/ Expire(r) \/ Crash(r)
  \/ Reconcile
  \/ NextDay

QuotaSpec == QuotaInit /\ [][QuotaNext]_quotaVars

\* A process that crashed is started again, and every start reconciles; a live
\* request does not stop by itself.
QuotaFairSpec ==
  /\ QuotaSpec
  /\ WF_quotaVars(Reconcile)
  /\ \A r \in Requests : WF_quotaVars(Reserve(r) \/ Commit(r) \/ Cancel(r))

-----------------------------------------------------------------------------
(* Properties.  A reserve() that acts on a day that has passed replaces the *)
(* file of the new day: what is claimed of a day's charges is claimed of    *)
(* behaviours without that (~crossed), the limit inside the file always.    *)

\* The units charged and the units reserved in the file never exceed the
\* limit, expired reservations included, which a start may still charge.
FileWithinLimit == quotaFile.usage + Pending(quotaFile.resv) <= Limit

\* Two reservations of one file never share an identifier, so a start that
\* charges them all charges no identifier twice.
ReservationsDisjoint ==
  \A r, s \in quotaFile.resv : r # s => KeysOf(r) \cap KeysOf(s) = {}

\* An identifier is charged at most once a day, whoever commits: the request
\* that reserved, one that shares the reservation, a late commit, a restart.
ChargedOncePerDay ==
  ~crossed => \A d \in Days : \A i \in Ids : bill[d][i] <= 1

\* No request carries identifiers of two others that share none.
Unbridged ==
  \A r, s, t \in Requests :
    KeysOf(r) \cap KeysOf(s) # {} /\ KeysOf(r) \cap KeysOf(t) # {} =>
      KeysOf(s) \cap KeysOf(t) # {}

\* A request answered with success on the day of the file is paid for, even
\* if it shared a reservation that its first holder cancelled.  (Without
\* Unbridged, the reservation it shares may count as charged for an identifier
\* that the request does not carry.)
SuccessIsCharged ==
  Unbridged /\ ~crossed => \A r \in Requests :
    stage[r] = "done" /\ handle[r].day = quotaFile.date => IsCharged(quotaFile, r)

\* A request that made its own reservation is not refused at its commit,
\* after its task was accepted, unless the reservation outlived the TTL.
OwnReservationHolds ==
  ~crossed => \A r \in Requests :
    stage[r] = "uncommitted" /\ handle[r].rid = r => r \in expired

\* Nothing is charged for which no task exists: what a rejected or crashed
\* request reserved is not charged by a restart or a sharer.
ChargesHaveTasks ==
  Unbridged => \A i \in quotaFile.idem : \E t \in created, s \in Requests :
    i \in KeysOf(s) /\ KeysOf(s) \cap KeysOf(t) # {}

\* A request whose task was accepted while it held a reservation is charged in
\* the end, even if its process dies before the commit, unless the reservation
\* lapsed (the TTL, a cancel of its first holder), the day turned or the commit
\* was answered with an error.  The start matches tasks by their idempotency
\* key alone: a task that only shares its client id with the reservation is
\* not found, so the claim is about tasks with one of the reservation's keys.
AcceptedIsSettled ==
  \A r \in Requests :
    (/\ stage[r] = "accepted"
     /\ handle[r].rid # NoReservation
     /\ \E t \in created : KeyOf[t] \in KeysOf(handle[r].rid)) ~>
      \/ IsCharged(quotaFile, r)
      \/ handle[r].rid \notin quotaFile.resv \ expired
      \/ handle[r].day # today
      \/ stage[r] = "uncommitted"

\* The limit holds, everything is charged once, for a task, and who succeeds
\* pays (reserve, commit, cancel and the reconciliation of a start).
QuotaIsSafe ==
  /\ FileWithinLimit /\ ReservationsDisjoint /\ ChargedOncePerDay
  /\ SuccessIsCharged /\ OwnReservationHolds /\ ChargesHaveTasks
=============================================================================
