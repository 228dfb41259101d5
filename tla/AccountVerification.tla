------------------------- MODULE AccountVerification -------------------------
(***************************************************************************)
(* How services/account_service.py verifies an account the upstream has    *)
(* rejected: a report marks the account pending and blocks it, a           *)
(* background thread asks the upstream again, exchanges the refresh token  *)
(* if need be, and writes a verdict by compare-and-swap on the credentials *)
(* and on the marker of the last check.  The same check runs for a manual  *)
(* refresh, concurrently.                                                  *)
(*                                                                         *)
(* One account: the queue of verifications is keyed by account, and the    *)
(* limit on threads only delays a start.  Each step under the pool lock,   *)
(* with its save, is one action; AccountCredentials models what a save and *)
(* an exchange do across processes.  A marker is a number that grows with  *)
(* every write of one of its fields.                                       *)
(***************************************************************************)
EXTENDS Naturals, FiniteSets

CONSTANTS
  Reporters,    \* requests that use the account
  FencedReporters, \* those that report with the credentials they used
  ScopeOf,      \* reporter -> "image" or "account"
  RemovesOf,    \* reporter -> asks for removal if the account is invalid
  MaxGen,       \* bound: credential generations after the first one
  MaxManual,    \* bound: manual refreshes
  MaxRestartsV  \* bound: restarts

Checkers == {"background", "manual"}
Generations == 0..MaxGen

ASSUME VerificationAssumption ==
  /\ FencedReporters \subseteq Reporters
  /\ ScopeOf \in [Reporters -> {"image", "account"}]
  /\ RemovesOf \in [Reporters -> BOOLEAN]
  /\ MaxGen \in Nat /\ MaxManual \in Nat /\ MaxRestartsV \in Nat

VARIABLES
  pool,         \* the account's row
  accepts,      \* generations whose access token the upstream accepts
  rejected,     \* history: generations the upstream has rejected
  reporter,     \* reporter -> step and the generation it uses
  checker,      \* checker -> step, snapshot, what it is about to write
  queued, rerun, \* _image_failure_refresh_pending and _rerun
  manuals,      \* manual refreshes so far
  reported,     \* history: marker of the last report
  reboots

verifyVars ==
  <<pool, accepts, rejected, reporter, checker, queued, rerun, manuals, reported, reboots>>

Results == {"none", "ok", "error", "invalid", "pending"}
Pending == pool.present /\ pool.result = "pending"

NoCheck == [at |-> "idle", path |-> "account", gen |-> 0, mark |-> 0, final |-> FALSE,
         verdict |-> "none"]

CheckSteps == {"idle", "look", "preflight", "snapshot", "ask", "again", "exchange", "write"}

VerifyTypeOK ==
  /\ pool \in [present: BOOLEAN, status: {"normal", "abnormal", "disabled"},
               result: Results, scope: {"none", "image", "account"}, remove: BOOLEAN,
               gen: Generations, mark: Nat]
  /\ accepts \in SUBSET Generations
  /\ rejected \in SUBSET Generations
  /\ reporter \in [Reporters -> [at: {"idle", "using", "marked", "done"}, gen: Generations]]
  /\ checker \in [Checkers -> [at: CheckSteps, path: {"image", "account"}, gen: Generations,
                     mark: Nat, final: BOOLEAN, verdict: Results]]
  /\ queued \in BOOLEAN /\ rerun \in BOOLEAN
  /\ manuals \in 0..MaxManual
  /\ reported \in Nat
  /\ reboots \in 0..MaxRestartsV

VerifyInit ==
  /\ pool = [present |-> TRUE, status |-> "normal", result |-> "none", scope |-> "none",
             remove |-> FALSE, gen |-> 0, mark |-> 0]
  /\ accepts = {0}
  /\ rejected = {}
  /\ reporter = [r \in Reporters |-> [at |-> "idle", gen |-> 0]]
  /\ checker = [c \in Checkers |-> NoCheck]
  /\ queued = FALSE
  /\ rerun = FALSE
  /\ manuals = 0
  /\ reported = 0
  /\ reboots = 0

\* A reporter that has ended.
Over == [at |-> "done", gen |-> 0]

Active == checker["background"].at # "idle"

-----------------------------------------------------------------------------
(* Reports *)

\* _is_account_selectable: a pending account is blocked, except that text
\* requests may use one that only an image request has reported.
Selectable(scope) ==
  /\ pool.present
  /\ pool.status = "normal"
  /\ pool.result # "invalid"
  /\ pool.result = "pending" => scope = "account" /\ pool.scope = "image"

StartUse(r) ==
  /\ reporter[r].at = "idle"
  /\ Selectable(ScopeOf[r])
  /\ reporter' = [reporter EXCEPT ![r] = [at |-> "using", gen |-> pool.gen]]
  /\ UNCHANGED <<pool, accepts, rejected, checker, queued, rerun, manuals, reported, reboots>>

EndUse(r) ==
  /\ reporter[r].at = "using"
  /\ reporter[r].gen \in accepts
  /\ reporter' = [reporter EXCEPT ![r] = Over]
  /\ UNCHANGED <<pool, accepts, rejected, checker, queued, rerun, manuals, reported, reboots>>

\* _mark_remote_check_pending: the wider scope and the removal stick.
MarkedPending(r) ==
  [pool EXCEPT !.result = "pending", !.mark = @ + 1,
    !.scope = IF Pending /\ pool.scope = "account" THEN "account" ELSE ScopeOf[r],
    !.remove = (pool.remove \/ RemovesOf[r])]

\* schedule_auth_verification and, without the fence, _record_image_result: the
\* upstream rejected the request's credentials and the account is blocked.
ReportResult(r) ==
  /\ reporter[r].at = "using"
  /\ reporter[r].gen \notin accepts
  /\ rejected' = rejected \cup {reporter[r].gen}
  /\ IF pool.present /\ (r \in FencedReporters => pool.gen = reporter[r].gen)
       THEN /\ pool' = MarkedPending(r)
            /\ reported' = pool.mark + 1
            /\ reporter' = [reporter EXCEPT ![r].at = "marked"]
       ELSE /\ UNCHANGED <<pool, reported>>
            /\ reporter' = [reporter EXCEPT ![r] = Over]
  /\ UNCHANGED <<accepts, checker, queued, rerun, manuals, reboots>>

\* _schedule_account_refresh_after_image_failure, forced: a running check is
\* repeated, a queued one is kept.
Enqueue ==
  /\ rerun' = (rerun \/ Active)
  /\ queued' = (queued \/ ~Active)

Schedule(r) ==
  /\ reporter[r].at = "marked"
  /\ reporter' = [reporter EXCEPT ![r] = Over]
  /\ IF pool.present THEN Enqueue ELSE UNCHANGED <<queued, rerun>>
  /\ UNCHANGED <<pool, accepts, rejected, checker, manuals, reported, reboots>>

\* The watcher resumes pending accounts of image scope.
ToResume == Pending /\ pool.scope = "image"

Watch ==
  /\ ToResume
  /\ ~Active /\ ~queued
  /\ queued' = TRUE
  /\ UNCHANGED <<pool, accepts, rejected, reporter, checker, rerun, manuals, reported, reboots>>

-----------------------------------------------------------------------------
(* Checks *)

At(c, step) == checker[c].at = step
Move(c, step) == checker' = [checker EXCEPT ![c].at = step]
Keep == UNCHANGED <<reporter, manuals, reported, reboots>>

\* Mutant: only the credentials are compared.
SameCredentials(c) == pool.present /\ pool.gen = checker[c].gen

\* The compare-and-swap of every write: credentials and marker as they were.
Unchanged(c) ==
  pool.present /\ pool.gen = checker[c].gen /\ pool.mark = checker[c].mark

WriteError(p) ==
  [p EXCEPT !.mark = @ + 1, !.scope = "none", !.remove = FALSE,
            !.result = IF p.result = "invalid" THEN "invalid" ELSE "error"]

\* _record_refresh_success, which keeps a disabled account disabled.
WriteSuccess(p) ==
  [p EXCEPT !.mark = @ + 1, !.scope = "none", !.remove = FALSE, !.result = "ok",
            !.status = IF @ = "disabled" THEN "disabled" ELSE "normal"]

\* _apply_invalid_token_state: the account is removed if that was asked for.
WriteInvalid(p) ==
  IF p.remove /\ p.status # "disabled"
    THEN [p EXCEPT !.present = FALSE, !.result = "invalid", !.status = "abnormal"]
    ELSE [p EXCEPT !.mark = @ + 1, !.scope = "none", !.remove = FALSE, !.result = "invalid",
                   !.status = IF @ = "disabled" THEN "disabled" ELSE "abnormal"]

\* _start_pending_image_failure_refreshes; a thread that does not start leaves
\* an error behind.
StartBackground ==
  /\ queued /\ ~Active
  /\ queued' = FALSE
  /\ \/ /\ checker' = [checker EXCEPT !["background"] = [NoCheck EXCEPT !.at = "look"]]
        /\ UNCHANGED pool
     \/ /\ pool' = IF pool.present THEN WriteError(pool) ELSE pool
        /\ UNCHANGED checker
  /\ UNCHANGED <<accepts, rejected, rerun>> /\ Keep

StartManual ==
  /\ At("manual", "idle") /\ pool.present
  /\ manuals < MaxManual
  /\ manuals' = manuals + 1
  /\ checker' = [checker EXCEPT !["manual"] = [NoCheck EXCEPT !.at = "preflight"]]
  /\ UNCHANGED <<pool, accepts, rejected, reporter, queued, rerun, reported, reboots>>

\* The check is over: a rerun that was asked for is queued if still pending.
Rest(c) ==
  /\ checker' = [checker EXCEPT ![c] = NoCheck]
  /\ IF c = "background"
       THEN /\ rerun' = FALSE
            /\ queued' = (queued \/ (rerun /\ Pending))
       ELSE UNCHANGED <<queued, rerun>>

\* _refresh_account_after_image_failure picks the path by the pending scope.
Look ==
  LET c == "background" IN
  /\ At(c, "look")
  /\ checker' = [checker EXCEPT
       ![c].path = IF Pending /\ pool.scope = "image" THEN "image" ELSE "account",
       ![c].at = IF Pending /\ pool.scope = "image" THEN "snapshot" ELSE "preflight"]
  /\ UNCHANGED <<pool, accepts, rejected, queued, rerun>> /\ Keep

\* An exchange of the refresh token gives new credentials and a new marker; the
\* new access token may be as unwelcome as the old one.
Exchanged(works) ==
  /\ pool.gen < MaxGen
  /\ pool' = [pool EXCEPT !.gen = @ + 1, !.mark = @ + 1,
                !.result = IF @ = "invalid" THEN "none" ELSE @,
                !.scope = IF pool.result = "invalid" THEN "none" ELSE @,
                !.remove = IF pool.result = "invalid" THEN FALSE ELSE @,
                !.status = IF @ = "abnormal" THEN "normal" ELSE @]
  /\ accepts' = IF works THEN accepts \cup {pool.gen + 1} ELSE accepts

\* ensure_access_token before a check of account scope: nothing to do, an
\* exchange, or an error that ends the check (a terminal refusal, credentials
\* that changed).
Preflight(c) ==
  /\ At(c, "preflight")
  /\ \/ Move(c, "snapshot") /\ UNCHANGED <<pool, accepts, queued, rerun>>
     \/ pool.present /\ Move(c, "snapshot")
          /\ (\E works \in BOOLEAN : Exchanged(works)) /\ UNCHANGED <<queued, rerun>>
     \/ Rest(c) /\ UNCHANGED <<pool, accepts>>
  /\ UNCHANGED rejected /\ Keep

Snapshot(c) ==
  /\ At(c, "snapshot")
  /\ IF pool.present /\ (checker[c].path = "image" /\ ~checker[c].final => Pending)
       THEN /\ checker' = [checker EXCEPT ![c].at = "ask", ![c].gen = pool.gen,
                                          ![c].mark = pool.mark]
            /\ UNCHANGED <<queued, rerun>>
       ELSE Rest(c)
  /\ UNCHANGED <<pool, accepts, rejected>> /\ Keep

Decide(c, verdict) ==
  checker' = [checker EXCEPT ![c].at = "write", ![c].verdict = verdict]

\* The upstream is asked about the credentials of the snapshot.
Ask(c) ==
  /\ At(c, "ask")
  /\ \/ /\ checker[c].gen \in accepts
        /\ Decide(c, "ok")
        /\ UNCHANGED rejected
     \/ /\ checker[c].gen \notin accepts
        /\ rejected' = rejected \cup {checker[c].gen}
        /\ IF checker[c].final THEN Decide(c, "invalid") ELSE Move(c, "again")
     \/ /\ Decide(c, "error")
        /\ UNCHANGED rejected
  /\ UNCHANGED <<pool, accepts, queued, rerun>> /\ Keep

\* A rejected check of account scope first looks whether the credentials have
\* changed meanwhile, and asks once more with the new ones.
Again(c) ==
  /\ At(c, "again")
  /\ \/ /\ checker[c].path = "account" /\ pool.present /\ pool.gen # checker[c].gen
        /\ \/ /\ pool.gen \in accepts
              /\ checker' = [checker EXCEPT ![c].at = "write", ![c].verdict = "ok",
                               ![c].gen = pool.gen, ![c].mark = pool.mark]
              /\ UNCHANGED rejected
           \/ /\ pool.gen \notin accepts
              /\ rejected' = rejected \cup {pool.gen}
              /\ checker' = [checker EXCEPT ![c].at = "exchange",
                               ![c].gen = pool.gen, ![c].mark = pool.mark]
     \/ /\ checker[c].path = "image" \/ ~pool.present \/ pool.gen = checker[c].gen
        /\ Move(c, "exchange")
        /\ UNCHANGED rejected
  /\ UNCHANGED <<pool, accepts, queued, rerun>> /\ Keep

\* force_refresh_access_token with the rejected credentials.  If others changed
\* them, the image check records an error and the other one just ends.
CheckerExchange(c) ==
  /\ At(c, "exchange")
  /\ IF pool.present /\ pool.gen = checker[c].gen
       THEN \/ /\ \E works \in BOOLEAN : Exchanged(works)
               /\ checker' = [checker EXCEPT ![c].at = "snapshot", ![c].final = TRUE]
               /\ UNCHANGED <<queued, rerun>>
            \/ /\ \E verdict \in {"invalid", "error"} : Decide(c, verdict)
               /\ UNCHANGED <<pool, accepts, queued, rerun>>
       ELSE /\ UNCHANGED <<pool, accepts>>
            /\ IF checker[c].path = "image"
                 THEN Decide(c, "error") /\ UNCHANGED <<queued, rerun>>
                 ELSE Rest(c)
  /\ UNCHANGED rejected /\ Keep

\* What a written verdict makes of the row.
Verdict(p, verdict) ==
  CASE verdict = "ok" -> WriteSuccess(p)
    [] verdict = "error" -> WriteError(p)
    [] verdict = "invalid" -> WriteInvalid(p)

\* The verdict is written unless something newer is there.  The image check
\* then sees to it that a row that is still pending is checked again.
Write(c) ==
  /\ At(c, "write")
  /\ IF Unchanged(c)
       THEN pool' = Verdict(pool, checker[c].verdict)
       ELSE UNCHANGED pool
  /\ checker' = [checker EXCEPT ![c] = NoCheck]
  /\ IF c = "background"
       THEN /\ rerun' = FALSE
            /\ queued' = (queued \/ (pool'.present /\ pool'.result = "pending"
                                       /\ (rerun \/ checker[c].path = "image")))
       ELSE UNCHANGED <<queued, rerun>>
  /\ UNCHANGED <<accepts, rejected>> /\ Keep

-----------------------------------------------------------------------------
(* The environment *)

\* The upstream stops accepting an access token.
Revoke ==
  /\ \E g \in accepts : accepts' = accepts \ {g}
  /\ UNCHANGED <<pool, rejected, checker, queued, rerun>> /\ Keep

\* An administrator disables or deletes the account or replaces its credentials.
Disable ==
  /\ pool.present /\ pool.status # "disabled"
  /\ pool' = [pool EXCEPT !.status = "disabled"]
  /\ UNCHANGED <<accepts, rejected, checker, queued, rerun>> /\ Keep

DeleteRow ==
  /\ pool.present
  /\ pool' = [pool EXCEPT !.present = FALSE]
  /\ UNCHANGED <<accepts, rejected, checker, queued, rerun>> /\ Keep

Replace ==
  /\ pool.present
  /\ \E works \in BOOLEAN : Exchanged(works)
  /\ UNCHANGED <<rejected, checker, queued, rerun>> /\ Keep

\* _normalize_loaded_accounts: an interrupted check of account scope is an error.
RecoveredAtLoad ==
  IF Pending /\ pool.scope # "image" THEN WriteError(pool) ELSE pool

Reboot ==
  /\ reboots < MaxRestartsV
  /\ reboots' = reboots + 1
  /\ pool' = RecoveredAtLoad
  /\ checker' = [c \in Checkers |-> NoCheck]
  /\ reporter' = [r \in Reporters |-> Over]
  /\ queued' = FALSE
  /\ rerun' = FALSE
  /\ UNCHANGED <<accepts, rejected, manuals, reported>>

CheckStep(c) ==
  \/ Preflight(c) \/ Snapshot(c) \/ Ask(c) \/ Again(c) \/ CheckerExchange(c) \/ Write(c)

VerifyNext ==
  \/ \E r \in Reporters : StartUse(r) \/ EndUse(r) \/ ReportResult(r) \/ Schedule(r)
  \/ Watch
  \/ StartBackground \/ StartManual
  \/ Look
  \/ \E c \in Checkers : CheckStep(c)
  \/ Revoke \/ Disable \/ DeleteRow \/ Replace
  \/ Reboot

VerifySpec == VerifyInit /\ [][VerifyNext]_verifyVars

-----------------------------------------------------------------------------
(* Properties *)

\* An account marked invalid has credentials the upstream has really rejected:
\* a slow check never condemns credentials that replaced the ones it asked for.
CondemnedWereRejected ==
  pool.result = "invalid" => pool.gen \in rejected

\* A report is only cleared by a check that began after it: an older check that
\* comes back late neither frees nor removes the account.
ReportsOutliveOldChecks ==
  [][Pending /\ pool'.result # "pending" /\ pool.gen = pool'.gen =>
       \/ \E c \in Checkers : At(c, "write") /\ checker[c].mark >= reported
       \/ queued /\ ~queued'
       \/ reboots' # reboots]_verifyVars

\* While an account stays pending its scope never narrows from the whole account
\* to images, and a wish to remove it is not forgotten.
PendingOnlyWidens ==
  [][Pending /\ pool'.present /\ pool'.result = "pending" =>
       /\ (pool.scope = "account" => pool'.scope = "account")
       /\ (pool.remove => pool'.remove)]_verifyVars

\* A check never enables an account that an administrator disabled.
DisabledStays ==
  [][pool.status = "disabled" => pool'.status = "disabled"]_verifyVars

\* Checks judge the credentials and the report they were made for.
ChecksJudgeTheirReport ==
  /\ []CondemnedWereRejected
  /\ ReportsOutliveOldChecks /\ PendingOnlyWidens /\ DisabledStays
=============================================================================
