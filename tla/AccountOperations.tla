------------------------- MODULE AccountOperations -------------------------
(***************************************************************************)
(* The batch operations of the account pool as the control panel asks for  *)
(* them and polls them (api/accounts.py, services/account_service.py,      *)
(* services/account_processing.py): deletion, status update, exchange of   *)
(* refresh tokens and synchronisation with the upstream.  A request        *)
(* resolves its targets, opens a progress entry and leaves the work to a   *)
(* background task; imports, the removal of abnormal accounts and the      *)
(* other operations change the pool while it waits and works.  An account  *)
(* is its management id: a token that was rotated since is resolved to the *)
(* account (AccountCredentials models the tokens).                         *)
(***************************************************************************)
EXTENDS Naturals, FiniteSets

CONSTANTS
  Operations,    \* the requests for a batch operation
  Accounts,      \* the management ids
  Selections,    \* the sets of ids the requests name
  Concurrency,   \* config.account_processing_concurrency
  MaxImports,    \* bound: accounts that are imported (again)
  MaxEntryLapses \* bound: progress entries that outlive their TTL

\* Requests name some of finitely many accounts.
ASSUME OperationsAssumption ==
  /\ IsFiniteSet(Accounts) /\ Selections \subseteq SUBSET Accounts
  /\ MaxImports \in Nat /\ MaxEntryLapses \in Nat

VARIABLES
  poolIds,          \* AccountService._accounts
  abnormal,      \* the accounts of the pool with the status "abnormal"
  scanned,       \* the abnormal accounts a cleanup has found and not removed
  op,            \* the background task of each request
  entry,         \* AccountService._refresh_progress
  left,          \* the accounts that left the pool while a request was under way
  imports, entryLapses

poolVars == <<poolIds, abnormal, left>>
operationVars == <<poolIds, abnormal, scanned, op, entry, left, imports, entryLapses>>

Mutations == {"delete", "update"}
Remote == {"exchange", "sync"}
NoEntry == [state |-> "none", total |-> 0, processed |-> 0]
NoOperation == [kind |-> "none", stage |-> "idle", wanted |-> {}, targets |-> {},
         todo |-> {}, busy |-> {}, updated |-> {}, removed |-> {},
         errors |-> {}, skipped |-> {}]

OperationsTypeOK ==
  /\ abnormal \subseteq poolIds /\ poolIds \subseteq Accounts /\ scanned \subseteq Accounts
  /\ op \in [Operations ->
       [kind : {"none"} \cup Mutations \cup Remote,
        stage : {"idle", "queued", "mutating", "publishing", "looking", "working", "failed", "done"},
        wanted : SUBSET Accounts, targets : SUBSET Accounts, todo : SUBSET Accounts,
        busy : SUBSET Accounts, updated : SUBSET Accounts, removed : SUBSET Accounts,
        errors : SUBSET Accounts, skipped : SUBSET Accounts]]
  /\ \A o \in Operations :
       /\ entry[o].state \in {"none", "open", "done", "error"}
       /\ entry[o].processed <= entry[o].total
       /\ left[o] \subseteq Accounts
  /\ imports \in 0..MaxImports /\ entryLapses \in 0..MaxEntryLapses

OperationsInit ==
  /\ poolIds = Accounts /\ abnormal = {} /\ scanned = {}
  /\ op = [o \in Operations |-> NoOperation]
  /\ entry = [o \in Operations |-> NoEntry]
  /\ left = [o \in Operations |-> {}]
  /\ imports = 0 /\ entryLapses = 0

----------------------------------------------------------------------------
\* The accounts S leave the pool.
Removes(S) ==
  /\ poolIds' = poolIds \ S
  /\ abnormal' = abnormal \ S
  /\ left' = [o \in Operations |->
                IF op[o].stage \in {"idle", "done"} THEN left[o] ELSE left[o] \cup (S \cap poolIds)]

\* update_refresh_progress: n more accounts are counted, unless the entry is gone.
Counted(e, n) == IF e.state = "open" THEN [e EXCEPT !.processed = @ + n] ELSE e

\* finish_refresh_progress
Finished(e, how) == IF e.state = "none" THEN e ELSE [e EXCEPT !.state = how]

\* AccountProcessingLimiter: mutations hold a slot while they run, remote
\* operations one for each request.
SlotsInUse == Cardinality({o \in Operations : op[o].stage = "mutating"})
            + Cardinality({x \in Operations \X Accounts : x[2] \in op[x[1]].busy})
SlotFree == SlotsInUse < Concurrency

(***************************************************************************)
(* Requests.                                                               *)
(***************************************************************************)
\* The handlers of deletion, update, exchange and synchronisation: the known
\* accounts are the targets, the others are counted as failed at once.
AskFor(o, k, ids) ==
  /\ op[o].stage = "idle"
  /\ ids \cap poolIds # {}
  /\ op' = [op EXCEPT ![o] = [NoOperation EXCEPT
              !.kind = k, !.stage = IF k \in Mutations THEN "queued" ELSE "looking",
              !.wanted = ids, !.targets = ids \cap poolIds, !.todo = ids \cap poolIds,
              !.errors = ids \ poolIds]]
  /\ entry' = [entry EXCEPT ![o] =
                 [state |-> "open", total |-> Cardinality(ids),
                  processed |-> Cardinality(ids \ poolIds)]]
  /\ UNCHANGED <<poolVars, scanned, imports, entryLapses>>

AskDeletion(o, ids) == AskFor(o, "delete", ids)
AskUpdate(o, ids) == AskFor(o, "update", ids)
AskExchange(o, ids) == AskFor(o, "exchange", ids)
AskSync(o, ids) == AskFor(o, "sync", ids)

(***************************************************************************)
(* Deletion and status update: one mutation under the lock of the service. *)
(***************************************************************************)
TakeOperationSlot(o) ==
  /\ op[o].stage = "queued" /\ SlotFree
  /\ op' = [op EXCEPT ![o].stage = "mutating"]
  /\ UNCHANGED <<poolVars, scanned, entry, imports, entryLapses>>

DeleteTargets(o) ==
  /\ op[o].stage = "mutating" /\ op[o].kind = "delete"
  /\ Removes(op[o].targets)
  /\ op' = [op EXCEPT ![o] = [op[o] EXCEPT !.stage = "publishing",
              !.removed = @ \cup (op[o].targets \cap poolIds),
              !.errors = @ \cup (op[o].targets \ poolIds)]]
  /\ UNCHANGED <<scanned, entry, imports, entryLapses>>

\* Mutant: the targets that left the pool since the request are passed over.
ForgetsMissing(o, status) ==
  LET found == op[o].targets \cap poolIds
      dropped == IF status = "removed" THEN found ELSE {}
  IN /\ op[o].stage = "mutating" /\ op[o].kind = "update"
     /\ poolIds' = poolIds \ dropped
     /\ abnormal' = IF status = "abnormal" THEN abnormal \cup found ELSE abnormal \ found
     /\ left' = [p \in Operations |->
                   IF op[p].stage \in {"idle", "done"} THEN left[p] ELSE left[p] \cup dropped]
     /\ op' = [op EXCEPT ![o] = [op[o] EXCEPT !.stage = "publishing",
                 !.updated = found \ dropped, !.removed = dropped,
                 !.errors = @ \cup dropped]]
     /\ UNCHANGED <<scanned, entry, imports, entryLapses>>

\* The new status may be one the settings remove at once; what is not in the
\* pool is reported as removed.
Update(o, status) ==
  LET found == op[o].targets \cap poolIds
      dropped == IF status = "removed" THEN found ELSE {}
      reported == dropped \cup (op[o].targets \ poolIds)
  IN /\ op[o].stage = "mutating" /\ op[o].kind = "update"
     /\ poolIds' = poolIds \ dropped
     /\ abnormal' = IF status = "abnormal" THEN abnormal \cup found ELSE abnormal \ found
     /\ left' = [p \in Operations |->
                   IF op[p].stage \in {"idle", "done"} THEN left[p] ELSE left[p] \cup dropped]
     /\ op' = [op EXCEPT ![o] = [op[o] EXCEPT !.stage = "publishing",
                 !.updated = found \ dropped, !.removed = reported,
                 !.errors = @ \cup reported]]
     /\ UNCHANGED <<scanned, entry, imports, entryLapses>>

\* The mutation fails as a whole and the pool is what it was.
MutationFails(o) ==
  /\ op[o].stage = "mutating"
  /\ op' = [op EXCEPT ![o].stage = "failed"]
  /\ entry' = [entry EXCEPT ![o] = Finished(@, "error")]
  /\ UNCHANGED <<poolVars, scanned, imports, entryLapses>>

\* One target after another is counted, then the result is recorded.
Publish(o, a) ==
  /\ op[o].stage = "publishing" /\ a \in op[o].todo
  /\ op' = [op EXCEPT ![o].todo = @ \ {a}]
  /\ entry' = [entry EXCEPT ![o] = Counted(@, 1)]
  /\ UNCHANGED <<poolVars, scanned, imports, entryLapses>>

FinishMutation(o) ==
  /\ op[o].stage = "publishing" /\ op[o].todo = {}
  /\ op' = [op EXCEPT ![o].stage = "done"]
  /\ entry' = [entry EXCEPT ![o] = Finished(@, "done")]
  /\ UNCHANGED <<poolVars, scanned, imports, entryLapses>>

(***************************************************************************)
(* Exchange and synchronisation: one request for each account, as many at  *)
(* a time as there are slots.                                              *)
(***************************************************************************)
\* An entry that was dropped before the work began is opened again.
Reopened(o) ==
  IF entry[o].state = "none"
  THEN [state |-> "open", total |-> Cardinality(op[o].targets), processed |-> 0]
  ELSE entry[o]

\* The exchange looks its accounts up before it asks for any.
LookUp(o) ==
  /\ op[o].stage = "looking" /\ op[o].kind = "exchange"
  /\ op' = [op EXCEPT ![o] = [op[o] EXCEPT !.stage = "working",
              !.todo = @ \cap poolIds, !.errors = @ \cup (op[o].targets \ poolIds)]]
  /\ entry' = [entry EXCEPT ![o] = Counted(Reopened(o), Cardinality(op[o].targets \ poolIds))]
  /\ UNCHANGED <<poolVars, scanned, imports, entryLapses>>

StartSync(o) ==
  /\ op[o].stage = "looking" /\ op[o].kind = "sync"
  /\ op' = [op EXCEPT ![o].stage = "working"]
  /\ entry' = [entry EXCEPT ![o] = Reopened(o)]
  /\ UNCHANGED <<poolVars, scanned, imports, entryLapses>>

Request(o, a) ==
  /\ op[o].stage = "working" /\ a \in op[o].todo \cap poolIds
  /\ SlotFree
  /\ op' = [op EXCEPT ![o] = [op[o] EXCEPT !.todo = @ \ {a}, !.busy = @ \cup {a}]]
  /\ UNCHANGED <<poolVars, scanned, entry, imports, entryLapses>>

\* No request is made for an account that left, or whose refresh token is
\* missing or marked invalid.
PassOver(o, a) ==
  /\ op[o].stage = "working" /\ a \in op[o].todo
  /\ a \in poolIds => op[o].kind = "exchange"
  /\ op' = [op EXCEPT ![o] = [op[o] EXCEPT !.todo = @ \ {a}, !.errors = @ \cup {a}]]
  /\ entry' = [entry EXCEPT ![o] = Counted(@, 1)]
  /\ UNCHANGED <<poolVars, scanned, imports, entryLapses>>

\* The answer to a request: it is of no use for an account that left meanwhile.
TargetExchanged(o, a, outcome) ==
  /\ op[o].kind = "exchange" /\ a \in op[o].busy
  /\ a \notin poolIds => outcome = "errors"
  /\ op' = [op EXCEPT ![o] = [[op[o] EXCEPT !.busy = @ \ {a}] EXCEPT ![outcome] = @ \cup {a}]]
  /\ entry' = [entry EXCEPT ![o] = Counted(@, 1)]
  /\ UNCHANGED <<poolVars, scanned, imports, entryLapses>>

\* A synchronised account may turn abnormal, and be removed for it.
Synced(o, a, outcome, fate) ==
  /\ op[o].kind = "sync" /\ a \in op[o].busy
  /\ a \notin poolIds => outcome = "errors" /\ fate = "kept"
  /\ IF fate = "removed" THEN Removes({a})
     ELSE /\ abnormal' = IF fate = "abnormal" THEN abnormal \cup {a} ELSE abnormal
          /\ UNCHANGED <<poolIds, left>>
  /\ op' = [op EXCEPT ![o] = [op[o] EXCEPT !.busy = @ \ {a},
              !.errors = IF outcome = "errors" THEN @ \cup {a} ELSE @,
              !.updated = IF outcome = "updated" THEN @ \cup {a} ELSE @]]
  /\ entry' = [entry EXCEPT ![o] = Counted(@, 1)]
  /\ UNCHANGED <<scanned, imports, entryLapses>>

\* The result is sorted by what the pool holds at the end.
FinishRemote(o) ==
  /\ op[o].stage = "working" /\ op[o].todo = {} /\ op[o].busy = {}
  /\ op' = [op EXCEPT ![o] = [op[o] EXCEPT !.stage = "done",
              !.updated = IF op[o].kind = "sync" THEN op[o].targets \cap poolIds ELSE @ \cap poolIds,
              !.removed = op[o].targets \ poolIds]]
  /\ entry' = [entry EXCEPT ![o] = Finished(@, "done")]
  /\ UNCHANGED <<poolVars, scanned, imports, entryLapses>>

(***************************************************************************)
(* What else happens to the pool and to the entries.                       *)
(***************************************************************************)
\* _add_account_payloads_impl: an account that is known already stays as it is.
Added(a) == poolIds' = poolIds \cup {a}

\* The import, without the synchronisation that may follow it, of an account
\* that has left.
Import(a) ==
  /\ imports < MaxImports /\ a \notin poolIds
  /\ Added(a) /\ imports' = imports + 1
  /\ UNCHANGED <<abnormal, left, scanned, op, entry, entryLapses>>

\* cleanup_auto_remove_accounts looks for abnormal accounts, gives the lock
\* back and removes what it found.
Scan ==
  /\ scanned = {} /\ abnormal # {}
  /\ scanned' = abnormal
  /\ UNCHANGED <<poolVars, op, entry, imports, entryLapses>>

Sweep ==
  /\ scanned # {} /\ SlotFree
  /\ Removes(scanned)
  /\ scanned' = {}
  /\ UNCHANGED <<op, entry, imports, entryLapses>>

\* An entry that saw no update for its TTL is dropped; the poller finds none.
Lapse(o) ==
  /\ entry[o].state = "open" /\ entryLapses < MaxEntryLapses
  /\ entry' = [entry EXCEPT ![o] = NoEntry]
  /\ entryLapses' = entryLapses + 1
  /\ UNCHANGED <<poolVars, scanned, op, imports>>

----------------------------------------------------------------------------
Work(o) ==
  \/ TakeOperationSlot(o) \/ DeleteTargets(o) \/ MutationFails(o) \/ FinishMutation(o)
  \/ LookUp(o) \/ StartSync(o) \/ FinishRemote(o)
  \/ \E status \in {"normal", "abnormal", "removed"} : Update(o, status)
  \/ \E a \in Accounts :
       \/ Publish(o, a) \/ Request(o, a) \/ PassOver(o, a)
       \/ \E outcome \in {"updated", "skipped", "errors"} : TargetExchanged(o, a, outcome)
       \/ \E outcome \in {"updated", "errors"}, fate \in {"kept", "abnormal", "removed"} :
            Synced(o, a, outcome, fate)

OperationsNext ==
  \/ \E o \in Operations :
       \/ \E ids \in Selections :
            AskDeletion(o, ids) \/ AskUpdate(o, ids) \/ AskExchange(o, ids) \/ AskSync(o, ids)
       \/ Work(o) \/ Lapse(o)
  \/ \E a \in Accounts : Import(a)
  \/ Scan \/ Sweep

OperationsSpec == OperationsInit /\ [][OperationsNext]_operationVars

----------------------------------------------------------------------------
(***************************************************************************)
(* Properties.                                                             *)
(***************************************************************************)
\* What a poller is told of a finished operation: an account that is gone is not
\* reported as updated too.
Reported(o) == [updated |-> op[o].updated \ op[o].removed, removed |-> op[o].removed,
              failed |-> op[o].errors, skipped |-> op[o].skipped]

\* An operation that reports success has told the fate of every account it was
\* asked for, and its counter, if it is still kept, says so.
EveryTargetReported ==
  \A o \in Operations :
    op[o].stage = "done" =>
      /\ op[o].wanted = UNION {Reported(o)[part] : part \in DOMAIN Reported(o)}
      /\ entry[o].state = "done" => entry[o].processed = entry[o].total

\* An account is reported as removed only if it left the pool since the request.
RemovedHadLeft ==
  \A o \in Operations : op[o].stage = "done" => op[o].removed \subseteq left[o]

\* What the control panel polls for (_do_delete_accounts and its like): the
\* report of an operation is complete and true.
OperationsReport == EveryTargetReported /\ RemovedHadLeft
============================================================================
