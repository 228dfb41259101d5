------------------------- MODULE AccountCredentials -------------------------
(***************************************************************************)
(* One upstream account shared by several processes: each keeps a view of  *)
(* the stored row, changes the view under its lock and writes it back with *)
(* a compare-and-swap on the revision, merging what others have written.   *)
(* Threads exchange the refresh token for new tokens (single flight per    *)
(* credential in a process), images hold slots that are counted per access *)
(* token and follow it when it is rotated.                                 *)
(* A credential is its number: the access token, the refresh token and     *)
(* last_token_refresh_at change together, and upstream takes a refresh     *)
(* token once.                                                             *)
(***************************************************************************)
EXTENDS Integers, FiniteSets

CONSTANTS PoolProcesses,
          RefreshThreads,  \* threads that call _maintain_access_token
          ProcessOf,       \* the process of each of them
          MaxToken,        \* bound: exchanges that succeed
          MaxResults,      \* bound: image results recorded
          SaveAttempts     \* _STORAGE_MUTATION_MAX_ATTEMPTS

ASSUME CredentialAssumption ==
  /\ ProcessOf \in [RefreshThreads -> PoolProcesses] /\ "none" \notin RefreshThreads
  /\ MaxToken \in Nat /\ MaxResults \in Nat /\ SaveAttempts \in Nat \ {0}

VARIABLES accountRow,   \* the stored row
          view,         \* _accounts of each process
          base,         \* _persisted_accounts
          upToDate,     \* processes whose _accounts_revision is the stored one
          saving,       \* the save a process is in, under its lock
          caller,       \* what each thread does
          flights,      \* _oauth_refresh_flights: state by credential
          liveToken,    \* upstream: the refresh token it takes
          refused,      \* upstream: refresh tokens it has refused
          inflight,     \* _image_inflight
          aliases,      \* _token_aliases; t -> t for none
          holder,       \* token an image of the process took its slot with
          credited,     \* history: results whose save succeeded
          mishap        \* history: a save ran out of attempts

credVars == <<accountRow, view, base, upToDate, saving, caller, flights,
              liveToken, refused, inflight, aliases, holder, credited, mishap>>

Tokens == 0..MaxToken
NoAccount == [token |-> -1, dead |-> FALSE, success |-> 0]
Account == [token : Tokens, dead : BOOLEAN, success : Nat]
Exists(a) == a.token # -1
NotSaving == [kind |-> "none", by |-> "none", expect |-> -1, tries |-> 0,
              sources |-> {}]
IdleCaller == [pc |-> "idle", key |-> 0, new |-> 0, owner |-> FALSE]

CredInit ==
  /\ accountRow = [token |-> 0, dead |-> FALSE, success |-> 0]
  /\ view = [p \in PoolProcesses |-> accountRow]
  /\ base = view
  /\ upToDate = PoolProcesses
  /\ saving = [p \in PoolProcesses |-> NotSaving]
  /\ caller = [t \in RefreshThreads |-> IdleCaller]
  /\ flights = [p \in PoolProcesses |-> [k \in Tokens |-> "none"]]
  /\ liveToken = 0
  /\ refused = {}
  /\ inflight = [p \in PoolProcesses |-> [k \in Tokens |-> 0]]
  /\ aliases = [p \in PoolProcesses |-> [k \in Tokens |-> k]]
  /\ holder = [p \in PoolProcesses |-> -1]
  /\ credited = 0
  /\ mishap = FALSE

Unlocked(p) == saving[p] = NotSaving

(***************************************************************************)
(* Tokens, their aliases and what is counted under them.                   *)
(***************************************************************************)
\* One round of the loop of _resolve_access_token_locked: the token of the
\* account, or one without an alias, stays.
Alias(p, token) == IF token = view[p].token THEN token ELSE aliases[p][token]

\* The tokens that the loop comes by: the least set with this one and the next
\* of each.
Passed(p, token) ==
  {t \in Tokens : \A seen \in SUBSET Tokens :
     token \in seen /\ (\A s \in seen : Alias(p, s) \in seen) => t \in seen}

\* _resolve_access_token_locked.  (Aliases form no cycle.)
Resolve(p, token) == CHOOSE t \in Passed(p, token) : Alias(p, t) = t

\* every token that stands for this one
Sources(p, token) == {s \in Tokens : Resolve(p, s) = token}

\* _move_account_runtime_token_locked
MovedAliases(p, new, sources) ==
  [s \in Tokens |-> IF s \in sources \ {new} THEN new ELSE aliases[p][s]]
\* The slots counted under these tokens.
Slots(p, tokens) == UNION {{k} \X (1..inflight[p][k]) : k \in tokens}
MovedInflight(p, new, sources) ==
  [s \in Tokens |->
     IF s = new THEN inflight[p][new] + Cardinality(Slots(p, sources \ {new}))
     ELSE IF s \in sources THEN 0 ELSE inflight[p][s]]

\* _passive_token_rotations_locked: the account is there under another token
RotatesTo(p, new) ==
  Exists(view[p]) /\ Exists(new) /\ new.token # view[p].token

\* _apply_account_view_locked
ApplyView(p, new) ==
  /\ view' = [view EXCEPT ![p] = new]
  /\ IF RotatesTo(p, new)
       THEN LET from == Sources(p, view[p].token) IN
            /\ aliases' = [aliases EXCEPT ![p] = MovedAliases(p, new.token, from)]
            /\ inflight' = [inflight EXCEPT ![p] = MovedInflight(p, new.token, from)]
       ELSE UNCHANGED <<aliases, inflight>>

(***************************************************************************)
(* Merging with what another process has written.                          *)
(***************************************************************************)
\* _merge_additive_account_value
AddedCounter(old, mine, theirs) == theirs + (mine - old)

\* _merge_account_fields, for a row both have
MergedFields(old, mine, theirs) ==
  [token |-> IF mine.token # old.token THEN mine.token ELSE theirs.token,
   dead |-> IF mine.dead # old.dead THEN mine.dead ELSE theirs.dead,
   success |-> IF mine.success # old.success
                 THEN AddedCounter(old.success, mine.success, theirs.success)
                 ELSE theirs.success]

\* Mutant: only the token of a deleted account is cleared.
HalfDeleted(mine) == [mine EXCEPT !.token = -1, !.success = -1]
\* "A remote deletion beats a stale background update."
Deleted(mine) == NoAccount

\* _merge_accounts_after_conflict, for one account
Merged(old, mine, theirs) ==
  CASE ~Exists(mine) -> NoAccount
    [] Exists(mine) /\ ~Exists(theirs) -> Deleted(mine)
    [] Exists(mine) /\ Exists(theirs)
         /\ mine.token # old.token /\ theirs.token # old.token -> theirs
    [] OTHER -> MergedFields(old, mine, theirs)

(***************************************************************************)
(* _save_accounts                                                          *)
(***************************************************************************)
\* What the operation does once its rows are written.
\* _apply_refreshed_tokens: the slots and aliases of the old token follow
FollowToken(p, op) ==
  IF op.kind = "refresh" /\ Exists(view[p])
    THEN /\ aliases' = [aliases EXCEPT ![p] =
                          MovedAliases(p, view[p].token, op.sources)]
         /\ inflight' = [inflight EXCEPT ![p] =
                           MovedInflight(p, view[p].token, op.sources)]
    ELSE /\ aliases' = [aliases EXCEPT ![p] = [s \in Tokens |->
                          IF Resolve(p, s) = view[p].token THEN @[s] ELSE s]]
         /\ UNCHANGED inflight

\* The thread that saved goes on: the owner of a flight still has to close it
After(op, result) ==
  /\ caller' = IF op.by = "none" THEN caller
               ELSE [caller EXCEPT ![op.by] =
                      IF @.owner THEN [@ EXCEPT !.pc = "closing"] ELSE IdleCaller]
  /\ flights' = IF op.kind # "refresh" THEN flights
                ELSE [flights EXCEPT ![ProcessOf[op.by]][op.expect] = "done"]
  /\ mishap' = (mishap \/ result = "failed")
  /\ credited' = IF op.kind = "result" /\ result = "saved" THEN credited + 1 ELSE credited

\* Nothing left to write, or mutate_accounts with the expected revision, which
\* is still the stored one
SaveCommits(p) ==
  /\ saving[p].kind # "none"
  /\ IF view[p] = base[p] THEN UNCHANGED <<accountRow, upToDate>>
     ELSE p \in upToDate /\ accountRow' = view[p] /\ upToDate' = {p}
  /\ base' = [base EXCEPT ![p] = view[p]]
  /\ FollowToken(p, saving[p])
  /\ After(saving[p], IF Exists(view[p]) THEN "saved" ELSE "gone")
  /\ saving' = [saving EXCEPT ![p] = NotSaving]
  /\ UNCHANGED <<view, liveToken, refused, holder>>

\* Mutant: the operation is merged whatever credential is stored by now.
NeverSuperseded(p) == FALSE
\* expected_credential_generation: the stored credential is another one
Superseded(p) ==
  saving[p].expect # -1 /\ accountRow.token # saving[p].expect

\* StorageRevisionConflictError: merge, and try again
SaveMerges(p) ==
  /\ saving[p].kind # "none" /\ view[p] # base[p] /\ p \notin upToDate
  /\ saving[p].tries + 1 < SaveAttempts /\ ~Superseded(p)
  /\ ApplyView(p, Merged(base[p], view[p], accountRow))
  /\ base' = [base EXCEPT ![p] = accountRow]
  /\ upToDate' = upToDate \cup {p}
  /\ saving' = [saving EXCEPT ![p].tries = @ + 1]
  /\ UNCHANGED <<accountRow, caller, flights, liveToken, refused, holder,
                 credited, mishap>>

\* The stored view is taken: another credential is stored by now (False), or
\* the attempts are used up or storage fails (_restore_accounts_after_save_error)
SaveGivesUp(p) ==
  LET op == saving[p]
      superseded == p \notin upToDate
                    /\ op.tries + 1 < SaveAttempts /\ Superseded(p)
      exhausted == p \notin upToDate
                   /\ op.tries + 1 >= SaveAttempts
      row == accountRow
      from == op.sources \cup (IF Exists(view[p]) THEN Sources(p, view[p].token) ELSE {})
  IN /\ op.kind # "none"
     /\ view[p] # base[p] /\ (superseded \/ exhausted)
     /\ view' = [view EXCEPT ![p] = row]
     /\ IF Exists(row)
          THEN /\ aliases' = [aliases EXCEPT ![p] = MovedAliases(p, row.token, from)]
               /\ inflight' = [inflight EXCEPT ![p] = MovedInflight(p, row.token, from)]
          ELSE IF op.kind = "refresh"
          THEN \* _remove_account_runtime_state_locked
               /\ aliases' = [aliases EXCEPT ![p] = [s \in Tokens |-> s]]
               /\ inflight' = [inflight EXCEPT ![p] = [s \in Tokens |-> 0]]
          ELSE UNCHANGED <<aliases, inflight>>
     /\ base' = [base EXCEPT ![p] = row]
     /\ upToDate' = upToDate \cup {p}
     /\ After(op, IF superseded THEN "superseded" ELSE "failed")
     /\ saving' = [saving EXCEPT ![p] = NotSaving]
     /\ UNCHANGED <<accountRow, liveToken, refused, holder>>

\* _refresh_accounts_snapshot_if_stale
RefreshView(p) ==
  /\ Unlocked(p) /\ p \notin upToDate
  /\ ApplyView(p, accountRow)
  /\ base' = [base EXCEPT ![p] = accountRow]
  /\ upToDate' = upToDate \cup {p}
  /\ UNCHANGED <<accountRow, saving, caller, flights, liveToken, refused,
                 holder, credited, mishap>>

(***************************************************************************)
(* Images and the administrator.                                           *)
(***************************************************************************)
\* get_available_access_token reserves a slot under the token of the moment
TakeSlot(p) ==
  /\ Unlocked(p) /\ holder[p] = -1 /\ Exists(view[p])
  /\ holder' = [holder EXCEPT ![p] = view[p].token]
  /\ inflight' = [inflight EXCEPT ![p][view[p].token] = @ + 1]
  /\ UNCHANGED <<accountRow, view, base, upToDate, saving, caller, flights,
                 liveToken, refused, aliases, credited, mishap>>

\* _record_image_result: the slot goes back, then the counters are saved
RecordResult(p) ==
  LET token == Resolve(p, holder[p]) IN
  /\ Unlocked(p) /\ holder[p] # -1
  /\ holder' = [holder EXCEPT ![p] = -1]
  /\ inflight' = [inflight EXCEPT ![p][token] = IF @ = 0 THEN 0 ELSE @ - 1]
  /\ IF Exists(view[p]) /\ view[p].token = token /\ view[p].success < MaxResults
       THEN /\ view' = [view EXCEPT ![p].success = @ + 1]
            /\ saving' = [saving EXCEPT ![p] = [NotSaving EXCEPT !.kind = "result"]]
       ELSE UNCHANGED <<view, saving>>
  /\ UNCHANGED <<accountRow, base, upToDate, caller, flights, liveToken,
                 refused, aliases, credited, mishap>>

\* delete_accounts
DeleteAccount(p) ==
  /\ Unlocked(p) /\ Exists(view[p])
  /\ view' = [view EXCEPT ![p] = NoAccount]
  /\ saving' = [saving EXCEPT ![p] = [NotSaving EXCEPT !.kind = "delete"]]
  /\ UNCHANGED <<accountRow, base, upToDate, caller, flights, liveToken,
                 refused, inflight, aliases, holder, credited, mishap>>

(***************************************************************************)
(* _maintain_access_token                                                  *)
(***************************************************************************)
\* _get_account_for_token; a credential marked invalid is exchanged only by
\* force, which any caller may ask for
StartMaintain(t) ==
  LET p == ProcessOf[t] IN
  /\ caller[t].pc = "idle" /\ Unlocked(p) /\ Exists(view[p])
  /\ caller' = [caller EXCEPT ![t] =
                  [IdleCaller EXCEPT !.pc = "keyed", !.key = view[p].token]]
  /\ UNCHANGED <<accountRow, view, base, upToDate, saving, flights,
                 liveToken, refused, inflight, aliases, holder, credited,
                 mishap>>

\* "owner = future is None"
NoFlightYet(p, key) == flights[p][key] = "none"

\* under _oauth_refresh_flights_lock
JoinFlight(t) ==
  LET p == ProcessOf[t]  key == caller[t].key IN
  /\ caller[t].pc = "keyed"
  /\ IF NoFlightYet(p, key)
       THEN /\ flights' = [flights EXCEPT ![p][key] = "open"]
            /\ caller' = [caller EXCEPT ![t].pc = "exchange", ![t].owner = TRUE]
       ELSE /\ caller' = [caller EXCEPT ![t].pc = "waiting"]
            /\ UNCHANGED flights
  /\ UNCHANGED <<accountRow, view, base, upToDate, saving, liveToken,
                 refused, inflight, aliases, holder, credited, mishap>>

\* _request_access_token_refresh: new tokens, or a terminal refusal
Exchange(t) ==
  LET key == caller[t].key IN
  /\ caller[t].pc = "exchange"
  /\ \/ /\ key = liveToken /\ liveToken < MaxToken
        /\ liveToken' = liveToken + 1
        /\ caller' = [caller EXCEPT ![t].pc = "answered", ![t].new = liveToken']
        /\ UNCHANGED refused
     \/ /\ key # liveToken
        /\ refused' = refused \cup {key}
        /\ caller' = [caller EXCEPT ![t].pc = "refused"]
        /\ UNCHANGED liveToken
  /\ UNCHANGED <<accountRow, view, base, upToDate, saving, flights,
                 inflight, aliases, holder, credited, mishap>>

\* future.set_result, future.set_exception
Settle(p, key) == [flights EXCEPT ![p][key] = "done"]

\* Any other error (the note of it on the row is left out); the flight is
\* settled and its owner closes it.
ExchangeFails(t) ==
  /\ caller[t].pc = "exchange"
  /\ flights' = Settle(ProcessOf[t], caller[t].key)
  /\ caller' = [caller EXCEPT ![t].pc = "closing"]
  /\ UNCHANGED <<accountRow, view, base, upToDate, saving, liveToken,
                 refused, inflight, aliases, holder, credited, mishap>>

Changed(p, key) == ~Exists(view[p]) \/ view[p].token # key

\* _refresh_access_token_owner: a refusal counts only for the credential the
\* process still has
CheckRefused(t) ==
  LET p == ProcessOf[t]  key == caller[t].key IN
  /\ caller[t].pc = "refused" /\ Unlocked(p)
  /\ flights' = [flights EXCEPT ![p][key] =
                   IF Changed(p, key) THEN "done" ELSE "refused"]
  /\ caller' = [caller EXCEPT ![t].pc =
                  IF Changed(p, key) THEN "closing" ELSE "terminal"]
  /\ UNCHANGED <<accountRow, view, base, upToDate, saving, liveToken,
                 refused, inflight, aliases, holder, credited, mishap>>

\* alias_sources, taken before the view changes
AliasSources(p, token) == Sources(p, token)

\* _apply_refreshed_tokens up to its save
ApplyRefreshed(t) ==
  LET p == ProcessOf[t]  key == caller[t].key IN
  /\ caller[t].pc = "answered" /\ Unlocked(p)
  /\ IF Changed(p, key)
       THEN /\ flights' = [flights EXCEPT ![p][key] = "done"]
            /\ caller' = [caller EXCEPT ![t].pc = "closing"]
            /\ UNCHANGED <<view, saving>>
       ELSE /\ view' = [view EXCEPT ![p].token = caller[t].new, ![p].dead = FALSE]
            /\ saving' = [saving EXCEPT ![p] =
                 [kind |-> "refresh", by |-> t, expect |-> key, tries |-> 0,
                  sources |-> AliasSources(p, key)]]
            /\ caller' = [caller EXCEPT ![t].pc = "saving"]
            /\ UNCHANGED flights
  /\ UNCHANGED <<accountRow, base, upToDate, liveToken, refused, inflight,
                 aliases, holder, credited, mishap>>

\* future.result() of a caller that did not make the exchange
Wake(t) ==
  /\ caller[t].pc = "waiting"
  /\ flights[ProcessOf[t]][caller[t].key] # "open"
  /\ caller' = [caller EXCEPT ![t] =
       IF flights[ProcessOf[t]][caller[t].key] = "refused"
         THEN [@ EXCEPT !.pc = "terminal"] ELSE IdleCaller]
  /\ UNCHANGED <<accountRow, view, base, upToDate, saving, flights,
                 liveToken, refused, inflight, aliases, holder, credited,
                 mishap>>

\* _record_token_refresh_error with terminal=True, by the owner and every waiter
RecordTerminal(t) ==
  LET p == ProcessOf[t]  key == caller[t].key IN
  /\ caller[t].pc = "terminal" /\ Unlocked(p)
  /\ IF Changed(p, key)
       THEN /\ caller' = [caller EXCEPT ![t] =
                 IF @.owner THEN [@ EXCEPT !.pc = "closing"] ELSE IdleCaller]
            /\ UNCHANGED <<view, saving>>
       ELSE /\ view' = [view EXCEPT ![p].dead = TRUE]
            /\ saving' = [saving EXCEPT ![p] =
                 [NotSaving EXCEPT !.kind = "terminal", !.by = t, !.expect = key]]
            /\ caller' = [caller EXCEPT ![t].pc = "saving"]
  /\ UNCHANGED <<accountRow, base, upToDate, flights, liveToken, refused,
                 inflight, aliases, holder, credited, mishap>>

\* "finally: if owner": the flight is taken off the table.  Its waiters have
\* the future itself; the model lets them wake first.
CloseFlight(t) ==
  LET p == ProcessOf[t]  key == caller[t].key IN
  /\ caller[t].pc = "closing"
  /\ \A u \in RefreshThreads :
       ProcessOf[u] = p /\ caller[u].pc = "waiting" => caller[u].key # key
  /\ flights' = [flights EXCEPT ![p][key] = "none"]
  /\ caller' = [caller EXCEPT ![t] = IdleCaller]
  /\ UNCHANGED <<accountRow, view, base, upToDate, saving, liveToken,
                 refused, inflight, aliases, holder, credited, mishap>>

SaveStep(p) == SaveCommits(p) \/ SaveMerges(p) \/ SaveGivesUp(p)
Advance(t) == \/ JoinFlight(t) \/ Exchange(t) \/ ExchangeFails(t)
              \/ CheckRefused(t) \/ ApplyRefreshed(t) \/ Wake(t)
              \/ RecordTerminal(t) \/ CloseFlight(t)

CredNext ==
  \/ \E p \in PoolProcesses : \/ SaveStep(p) \/ RefreshView(p) \/ TakeSlot(p)
                              \/ RecordResult(p) \/ DeleteAccount(p)
  \/ \E t \in RefreshThreads : StartMaintain(t) \/ Advance(t)

CredSpec == CredInit /\ [][CredNext]_credVars

(***************************************************************************)
(* Properties.                                                             *)
(***************************************************************************)
\* The stored row, the views and the work of every thread keep their types.
CredTypeOK ==
  /\ accountRow \in Account \cup {NoAccount}
  /\ view \in [PoolProcesses -> Account \cup {NoAccount}]
  /\ base \in [PoolProcesses -> Account \cup {NoAccount}]
  /\ \A p \in PoolProcesses : saving[p].tries < SaveAttempts
  /\ flights \in [PoolProcesses -> [Tokens -> {"none", "open", "refused", "done"}]]
  /\ aliases \in [PoolProcesses -> [Tokens -> Tokens]]
  /\ inflight \in [PoolProcesses -> [Tokens -> Nat]]
  /\ liveToken \in Tokens /\ refused \subseteq Tokens

\* No result is lost or counted twice when processes record at once: the row
\* counts exactly the results whose save succeeded (_save_accounts merges).
ResultsAreKept == Exists(accountRow) => accountRow.success = credited

\* A refusal is written to no credential but the one that was refused: by the
\* time a thread saves it, another process may have stored new tokens
\* (expected_credential_generation in _save_accounts).
RefusalMarksItsCredential ==
  [][\A p \in PoolProcesses :
       saving[p].kind = "terminal" /\ saving'[p].kind = "none"
         /\ Exists(accountRow') /\ accountRow' # accountRow
       => accountRow'.token \in refused]_credVars

\* Upstream takes a refresh token once, so the answer of an exchange must
\* reach the store: with nobody between answer and save, and no save that ran
\* out of attempts, the stored token is the one upstream takes.
Exchanging == \E t \in RefreshThreads : caller[t].pc \in {"answered", "saving"}
ExchangedTokenSurvives ==
  Exists(accountRow) /\ ~mishap /\ ~Exchanging =>
    accountRow.token = liveToken

\* In each process one exchange per credential is under way
\* (_oauth_refresh_flights): a second one would burn the refresh token.
OneExchange ==
  \A t, u \in RefreshThreads :
    /\ t # u /\ ProcessOf[t] = ProcessOf[u] /\ caller[t].key = caller[u].key
    /\ caller[t].pc = "exchange"
    => caller[u].pc \notin {"exchange", "answered"}

\* A slot follows its account through every rotation, this process's own or
\* another's: the image that holds it finds it under the token it has.  (A
\* deletion that runs out of attempts leaves the slots under the old token if
\* another process has rotated it, so the property ends at such a failure.)
SlotFollowsToken ==
  \A p \in PoolProcesses :
    ~mishap /\ Unlocked(p) /\ Exists(view[p]) =>
      inflight[p][view[p].token] = IF holder[p] # -1 THEN 1 ELSE 0

\* An account that was deleted stays deleted: no late save of a process that
\* has not seen the deletion brings it back.
DeletedStaysDeleted == [][~Exists(accountRow) => ~Exists(accountRow')]_credVars

\* A caller that waits for the exchange of another always has an owner that
\* will settle it: an open flight has its thread still at work.
WaitersHaveOwner ==
  \A t \in RefreshThreads :
    caller[t].pc = "waiting" /\ flights[ProcessOf[t]][caller[t].key] = "open" =>
      \E u \in RefreshThreads :
        /\ ProcessOf[u] = ProcessOf[t] /\ caller[u].key = caller[t].key
        /\ caller[u].owner
        /\ caller[u].pc \in {"exchange", "answered", "refused", "saving"}

\* Credentials, results and slots survive the races of threads and processes.
CredentialsAreKept ==
  /\ [](/\ ResultsAreKept /\ ExchangedTokenSurvives /\ OneExchange
        /\ SlotFollowsToken /\ WaitersHaveOwner)
  /\ RefusalMarksItsCredential /\ DeletedStaysDeleted
=============================================================================
