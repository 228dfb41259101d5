------------------------- MODULE AccountRegistration -------------------------
(***************************************************************************)
(* Automatic registration of upstream accounts: the registration task      *)
(* (services/register/openai_register.py), the mailboxes it uses           *)
(* (register/mail_provider.py) and the hand-over of the accounts it        *)
(* creates to the pool (register/core_result_recovery.py).  The runner     *)
(* that begins the tasks is RegistrationRunner's.                          *)
(*                                                                         *)
(* A mailbox stands for the account registered with it.  Mailboxes of the  *)
(* Outlook pool have their state in a local file; remote ones are claimed  *)
(* from a service and have to be reported or released.  One App process,   *)
(* which may crash; a registration ends within the hour after which its    *)
(* claim of a pool address counts as stale.                                *)
(***************************************************************************)
EXTENDS Naturals, FiniteSets

CONSTANTS
  Tasks,         \* bound: registrations in flight
  PoolBoxes,     \* Outlook addresses: a login mailbox and its aliases
  Login,         \* the login mailbox
  RemoteBoxes,   \* mailboxes of the external service
  MaxBegun,      \* bound: registrations
  MaxTokens,     \* bound: a mailbox with so many token sets is not claimed again
  MaxRetries     \* MAX_RECOVERY_RETRY_COUNT (5)

ASSUME RegistrationAssumption ==
  /\ Login \in PoolBoxes
  /\ PoolBoxes \cap RemoteBoxes = {}
  /\ MaxBegun \in Nat /\ MaxTokens \in Nat /\ MaxRetries \in Nat \ {0}

VARIABLES
  mail,        \* mailbox -> its state in the pool file, or at the service
  task,        \* task -> where it is, its mailbox and its token set
  minted,      \* mailbox -> token sets obtained with it
  row,         \* mailbox -> its row of register_core_results_pending.json
  outlookPool,        \* token sets that reached the account pool, with their mailbox
  reconciler,  \* who holds _reconcile_lock, the scheduler's rows
  begun,       \* registrations begun
  reset,       \* an administrator's reset that has looked at the runner
  excused,     \* history: mailboxes whose report failed or whose task crashed
  unrecorded,  \* history: accounts that never reached the pending file
  disturbed    \* history: a reset went on beside a runner, or an alias
               \* condemned its login while that was in use

mailVars == <<mail, excused, disturbed>>
rowVars == <<minted, row, outlookPool, reconciler, unrecorded>>
runVars == <<reset, begun>>
registrationVars == <<task, mailVars, rowVars, runVars>>

Boxes == PoolBoxes \cup RemoteBoxes
NoTask == [at |-> "none", box |-> Login, token |-> 0]
NoRow == [token |-> 0, tries |-> 0]
NoOne == [who |-> "nobody", rows |-> {}]

Places == {"none", "claim", "authorize", "code", "login", "create", "exchange", "consent",
           "record", "mark", "handoff", "add", "forget"}
Holding == Places \ {"none", "claim", "handoff", "add", "forget"}

RegistrationTypeOK ==
  /\ mail \in [Boxes -> {"free", "in_use", "used", "failed", "invalid"}]
  /\ task \in [Tasks -> [at : Places, box : Boxes, token : Nat]]
  /\ minted \in [Boxes -> Nat]
  /\ row \in [Boxes -> [token : Nat, tries : 0..MaxRetries]]
  /\ outlookPool \subseteq Boxes \X Nat
  /\ begun \in 0..MaxBegun
  /\ {reset, disturbed} \subseteq BOOLEAN
  /\ excused \subseteq Boxes /\ unrecorded \subseteq Boxes

RegistrationInit ==
  /\ mail = [m \in Boxes |-> "free"]
  /\ task = [t \in Tasks |-> NoTask]
  /\ minted = [m \in Boxes |-> 0]
  /\ row = [m \in Boxes |-> NoRow]
  /\ outlookPool = {}
  /\ reconciler = NoOne
  /\ reset = FALSE /\ begun = 0
  /\ excused = {} /\ unrecorded = {} /\ disturbed = FALSE

Live(t) == task[t].at # "none"
HolderOf(m) == {t \in Tasks : task[t].at \in Holding /\ task[t].box = m}
Go(t, at) == task' = [task EXCEPT ![t].at = at]

-----------------------------------------------------------------------------
(* Mailboxes *)

\* An Outlook address whose state, and its login's, permits it; the claim of a
\* registration that is gone is stale.
Available(m) ==
  /\ mail[m] = "free" \/ (mail[m] = "in_use" /\ HolderOf(m) = {})
  /\ mail[Login] # "invalid"

Claimed(t, m) ==
  /\ mail' = [mail EXCEPT ![m] = "in_use"]
  /\ task' = [task EXCEPT ![t] = [NoTask EXCEPT !.at = "authorize", !.box = m]]
  /\ excused' = excused \ {m}
  /\ UNCHANGED <<disturbed, rowVars, runVars>>

\* create_mailbox of OutlookTokenProvider, under _outlook_state_transaction.
ClaimPoolMailbox(t) ==
  /\ task[t].at = "claim"
  /\ \E m \in PoolBoxes : Available(m) /\ minted[m] < MaxTokens /\ Claimed(t, m)

\* create_mailbox of the services; a claim without all its fields is released.
ClaimRemoteMailbox(t) ==
  /\ task[t].at = "claim"
  /\ \E m \in RemoteBoxes : mail[m] = "free" /\ minted[m] < MaxTokens /\ Claimed(t, m)

\* No provider has a mailbox.
NoMailbox(t) ==
  /\ task[t].at = "claim" /\ Go(t, "none")
  /\ UNCHANGED <<mailVars, rowVars, runVars>>

\* _icloud_mailbox_finalize gives up after three attempts; the pool's file may
\* not be written.
ReportFails(m) ==
  /\ UNCHANGED <<mail, disturbed>>
  /\ excused' = excused \cup ({m} \cap {n \in Boxes : mail[n] = "in_use"})

\* mark_mailbox_result for a failed registration: a remote mailbox is released
\* or, once its code was used, reported; an alias condemns its login as well.
ReportFailure(m, codeSeen) ==
  \/ /\ m \in RemoteBoxes
     /\ mail' = [mail EXCEPT ![m] = IF codeSeen THEN "failed" ELSE "free"]
     /\ UNCHANGED <<excused, disturbed>>
  \/ /\ m \in PoolBoxes
     /\ \/ mail' = [mail EXCEPT ![m] = "failed"] /\ UNCHANGED disturbed
        \/ /\ mail' = [mail EXCEPT ![m] = "invalid", ![Login] = "invalid"]
           /\ disturbed' = (disturbed \/ (m # Login /\ mail[Login] \in {"in_use", "used"}))
     /\ UNCHANGED excused
  \/ ReportFails(m)

-----------------------------------------------------------------------------
(* A registration *)

\* The runner (RegistrationRunner) submits a task.
BeginRegistration(t) ==
  /\ task[t].at = "none" /\ begun < MaxBegun
  /\ Go(t, "claim") /\ begun' = begun + 1
  /\ UNCHANGED <<mailVars, rowVars, reset>>

\* register: any exception marks the mailbox, and the task ends.
RegistrationFails(t) ==
  /\ task[t].at \in {"authorize", "code", "login", "create", "exchange", "consent"}
  /\ ReportFailure(task[t].box, task[t].at \in {"create", "exchange", "consent"})
  /\ task' = [task EXCEPT ![t] = NoTask]
  /\ UNCHANGED <<rowVars, runVars>>

\* _platform_authorize lands on a signup or, for an address that is known, on a
\* login.
Authorize(t) ==
  /\ task[t].at = "authorize" /\ (Go(t, "code") \/ Go(t, "login"))
  /\ UNCHANGED <<mailVars, rowVars, runVars>>

\* wait_for_code (MailboxCodes) and _validate_otp
ReceiveCode(t) ==
  /\ task[t].at = "code" /\ Go(t, "create")
  /\ UNCHANGED <<mailVars, rowVars, runVars>>

\* _passwordless_login: the account may lack its profile.
PasswordlessLogin(t) ==
  /\ task[t].at = "login" /\ (Go(t, "create") \/ Go(t, "consent"))
  /\ UNCHANGED <<mailVars, rowVars, runVars>>

\* _create_account
CreateAccount(t) ==
  /\ task[t].at = "create" /\ Go(t, "exchange")
  /\ UNCHANGED <<mailVars, rowVars, runVars>>

Minted(t, m) ==
  /\ minted' = [minted EXCEPT ![m] = @ + 1]
  /\ task' = [task EXCEPT ![t].at = "record", ![t].token = minted[m] + 1]
  /\ UNCHANGED <<mailVars, row, outlookPool, reconciler, unrecorded, runVars>>

\* _exchange_registered_tokens
ExchangeTokens(t) == task[t].at = "exchange" /\ Minted(t, task[t].box)

\* exchange_tokens_from_continue_url
ExchangeAfterLogin(t) == task[t].at = "consent" /\ Minted(t, task[t].box)

\* record_pending_core_result: one row for each address, the newest; a failure
\* is a warning.
RecordPending(t) ==
  LET m == task[t].box IN
  /\ task[t].at = "record"
  /\ Go(t, "mark")
  /\ \/ /\ row' = [row EXCEPT ![m] = [token |-> task[t].token, tries |-> 0]]
        /\ unrecorded' = unrecorded \ {m}
     \/ unrecorded' = unrecorded \cup {m} /\ UNCHANGED row
  /\ UNCHANGED <<mailVars, minted, outlookPool, reconciler, runVars>>

\* mark_mailbox_success; when that fails the mailbox is marked failed, and the
\* account goes on to the pool.
MarkSuccess(t) ==
  LET m == task[t].box IN
  /\ task[t].at = "mark"
  /\ Go(t, "handoff")
  /\ \/ mail' = [mail EXCEPT ![m] = "used"] /\ UNCHANGED <<excused, disturbed>>
     \/ ReportFailure(m, TRUE)
  /\ UNCHANGED <<rowVars, runVars>>

-----------------------------------------------------------------------------
(* The hand-over, by the task or by the scheduler *)

\* reconcile_core_result takes _reconcile_lock; a failed verification is a
\* warning.
VerifyAccount(t) ==
  /\ task[t].at = "handoff" /\ reconciler.who = "nobody"
  /\ reconciler' = [NoOne EXCEPT !.who = "task"]
  /\ Go(t, "add")
  /\ UNCHANGED <<mailVars, minted, row, outlookPool, unrecorded, runVars>>

\* add_account_items: a full pool or a failure ends the hand-over.
AddAccount(t) ==
  /\ task[t].at = "add"
  /\ \/ /\ outlookPool' = outlookPool \cup {<<task[t].box, task[t].token>>}
        /\ Go(t, "forget") /\ UNCHANGED <<reconciler>>
     \/ /\ task' = [task EXCEPT ![t] = NoTask] /\ reconciler' = NoOne
        /\ UNCHANGED outlookPool
  /\ UNCHANGED <<mailVars, minted, row, unrecorded, runVars>>

\* Mutant: by address.
WithoutAddress(m, token) == [row EXCEPT ![m] = NoRow]

\* remove_pending_core_result, by token.
Without(m, token) == IF row[m].token = token THEN [row EXCEPT ![m] = NoRow] ELSE row

\* refresh_accounts, whose errors are warnings too, and the end of the row,
\* whether or not the account was verified and refreshed.
ForgetPending(t) ==
  LET m == task[t].box IN
  /\ task[t].at = "forget"
  /\ row' \in {row, Without(m, task[t].token)}
  /\ reconciler' = NoOne
  /\ task' = [task EXCEPT ![t] = NoTask]
  /\ UNCHANGED <<mailVars, minted, outlookPool, unrecorded, runVars>>

\* reconcile_pending_core_results, of the scheduler or an administrator, who
\* also retries what has failed for good.
ReconcileBegins ==
  /\ reconciler.who = "nobody"
  /\ \E force \in BOOLEAN :
       LET rows == {m \in Boxes : row[m].token # 0 /\ (force \/ row[m].tries < MaxRetries)} IN
       /\ rows # {}
       /\ reconciler' = [who |-> "scheduler",
                         rows |-> {<<m, row[m].token, row[m].tries>> : m \in rows}]
  /\ UNCHANGED <<task, mailVars, minted, row, outlookPool, unrecorded, runVars>>

\* One row: the account is added and the row removed, unless that fails, or its
\* failure is counted.
ReconcileRow ==
  \E r \in reconciler.rows :
    LET m == r[1] IN
    /\ \/ outlookPool' = outlookPool \cup {<<m, r[2]>>} /\ row' \in {row, Without(m, r[2])}
       \/ /\ UNCHANGED outlookPool
          /\ row' = IF row[m].token # r[2] THEN row
                    ELSE [row EXCEPT ![m].tries = IF r[3] < MaxRetries THEN r[3] + 1 ELSE MaxRetries]
    /\ reconciler' = [reconciler EXCEPT !.rows = @ \ {r}]
    /\ UNCHANGED <<task, mailVars, minted, unrecorded, runVars>>

ReconcileEnds ==
  /\ reconciler.who = "scheduler" /\ reconciler.rows = {}
  /\ reconciler' = NoOne
  /\ UNCHANGED <<task, mailVars, minted, row, outlookPool, unrecorded, runVars>>

-----------------------------------------------------------------------------
(* The process, and the administrator *)

\* The process ends in the middle of registrations.
ProcessCrashes ==
  /\ \E t \in Tasks : Live(t)
  /\ task' = [t \in Tasks |-> NoTask]
  /\ reconciler' = NoOne
  /\ excused' = excused \cup {m \in Boxes : HolderOf(m) # {}}
  /\ unrecorded' = unrecorded \cup {task[t].box : t \in {u \in Tasks : task[u].at = "record"}}
  /\ reset' = FALSE
  /\ UNCHANGED <<mail, disturbed, minted, row, outlookPool, begun>>

\* reset_outlook_pool looks at the runner, then clears the states.
ResetLooks ==
  /\ ~reset /\ ~\E t \in Tasks : Live(t)
  /\ reset' = TRUE
  /\ UNCHANGED <<task, mailVars, rowVars, begun>>

ResetClears ==
  /\ reset /\ reset' = FALSE
  /\ \E cleared \in {{"in_use", "failed"}, {"invalid"}} :
       mail' = [m \in Boxes |->
                  IF m \in PoolBoxes /\ mail[m] \in cleared THEN "free" ELSE mail[m]]
  /\ excused' = {m \in excused : mail'[m] = "in_use"}
  /\ disturbed' = (disturbed \/ \E t \in Tasks : Live(t))
  /\ UNCHANGED <<task, rowVars, begun>>

\* Refreshed credentials are imported: clear_outlook_token_states.
ImportCredentials ==
  /\ mail' = [m \in Boxes |-> IF m \in PoolBoxes /\ mail[m] \in {"failed", "invalid"}
                              THEN "free" ELSE mail[m]]
  /\ mail' # mail
  /\ UNCHANGED <<task, excused, disturbed, rowVars, runVars>>

RegistrationNext ==
  \/ \E t \in Tasks :
       \/ BeginRegistration(t) \/ ClaimPoolMailbox(t) \/ ClaimRemoteMailbox(t) \/ NoMailbox(t)
       \/ RegistrationFails(t) \/ Authorize(t) \/ ReceiveCode(t) \/ PasswordlessLogin(t)
       \/ CreateAccount(t) \/ ExchangeTokens(t) \/ ExchangeAfterLogin(t)
       \/ RecordPending(t) \/ MarkSuccess(t)
       \/ VerifyAccount(t) \/ AddAccount(t) \/ ForgetPending(t)
  \/ ReconcileBegins \/ ReconcileRow \/ ReconcileEnds
  \/ ProcessCrashes
  \/ ResetLooks \/ ResetClears \/ ImportCredentials

RegistrationSpec == RegistrationInit /\ [][RegistrationNext]_registrationVars

-----------------------------------------------------------------------------
(* Properties *)

\* The newest recorded tokens of an account stay in the pending file until they
\* are in the pool, whoever hands it over (record_pending_core_result,
\* reconcile_core_result, reconcile_pending_core_results).
CreatedAreKept ==
  \A m \in Boxes :
    \/ minted[m] \in {0, row[m].token} \/ <<m, minted[m]>> \in outlookPool
    \/ m \in unrecorded \/ disturbed
    \/ \E t \in HolderOf(m) : task[t].at = "record"

\* No two registrations use one mailbox, and every mailbox that was claimed is
\* reported or released however the registration ends, unless the process
\* crashes or the report fails (create_mailbox, mark_mailbox_result, worker).
MailboxesHaveOneUser ==
  \A m \in Boxes :
    /\ Cardinality(HolderOf(m)) <= 1 \/ disturbed
    /\ mail[m] = "in_use" => HolderOf(m) # {} \/ m \in excused \/ disturbed

\* Created accounts are kept, and a mailbox serves one registration at a time.
RegistrationHolds == CreatedAreKept /\ MailboxesHaveOneUser
=============================================================================
