-------------------------- MODULE MCAccountParts ----------------------------
(***************************************************************************)
(* Small instances of the components that use and make accounts, or guard the API. *)
(* They share no state: a behavior picks one of them and lets it run.      *)
(***************************************************************************)
EXTENDS AccountCredentials, AccountVerification, AccountOperations,
        AccountRegistration, RegistrationRunner, MailboxCodes, ProxyGroups,
        AuthKeys

VARIABLE part   \* the component at work

\* A component with more than one entry is checked in as many smaller settings.
AccountParts == {"flight", "rotation", "verification", "recheck", "operations", "imports",
                 "registration", "reset", "runner", "codes", "proxies", "keys"}

partVars == <<part, credVars, verifyVars, operationVars, registrationVars,
              runnerVars, codeVars, proxyVars, keyVars>>

\* Two threads of process p and one of q exchange the account's token.
MCPoolProcesses == {"p", "q"}
MCRefreshThreads == {"p1", "p2", "q1"}
MCProcessOf == [t \in MCRefreshThreads |-> IF t = "q1" THEN "q" ELSE "p"]

\* A report about images wants the account removed, one about texts does not.
MCScopeOf == [r \in {"img", "txt"} |-> IF r = "img" THEN "image" ELSE "account"]
MCRemovesOf == [r \in {"img", "txt"} |-> r = "img"]

MCSelections == {Accounts}

PartsInit ==
  /\ part \in AccountParts
  /\ CredInit
  /\ VerifyInit
  /\ OperationsInit
  /\ RegistrationInit
  /\ RunnerInit
  /\ CodesInit
  /\ ProxyInit
  /\ KeysInit

\* Only the component p moves.
Only(p) ==
  /\ part = p /\ UNCHANGED part
  /\ IF p \in {"flight", "rotation"} THEN TRUE ELSE UNCHANGED credVars
  /\ IF p \in {"verification", "recheck"} THEN TRUE ELSE UNCHANGED verifyVars
  /\ IF p \in {"operations", "imports"} THEN TRUE ELSE UNCHANGED operationVars
  /\ IF p \in {"registration", "reset"} THEN TRUE ELSE UNCHANGED registrationVars
  /\ IF p = "runner" THEN TRUE ELSE UNCHANGED runnerVars
  /\ IF p = "codes" THEN TRUE ELSE UNCHANGED codeVars
  /\ IF p = "proxies" THEN TRUE ELSE UNCHANGED proxyVars
  /\ IF p = "keys" THEN TRUE ELSE UNCHANGED keyVars

(* The settings.  One process has an image under way, and either the two      *)
(* threads of p exchange a token or one thread of each process does.         *)
NoImageOf(p) == holder'[p] = -1
ThreadsOfOne == NoImageOf("q") /\ caller'["q1"] = IdleCaller
ThreadsOfTwo == NoImageOf("q") /\ caller'["p2"] = IdleCaller

\* Restarts, with the watcher's checks only; manual checks, with one reporter.
WatchedOnly == manuals' = 0
OneReporter == reboots' = 0 /\ \E r \in Reporters : reporter'[r].at = "idle"

\* The entry of an operation lapses, or an account is imported: of the operations
\* and of the accounts, which are alike, it is always the same.
TheOperation == CHOOSE o \in Operations : TRUE
TheAccount == CHOOSE a \in Accounts : TRUE
EntryLapses == imports' = 0 /\ \A o \in Operations : Lapse(o) => o = TheOperation
AccountReturns == entryLapses' = 0 /\ \A a \in Accounts : Import(a) => a = TheAccount

\* All mailboxes without resets of the pool; the pool's, without the scheduler.
NoReset == ~reset'
PoolOnly ==
  /\ \A m \in RemoteBoxes : mail'[m] = "free"
  /\ reconciler'.who # "scheduler"

\* One request tries again, the other one gives up.
TheRequest == CHOOSE r \in Requests : TRUE
OneTriesAgain == \A r \in Requests \ {TheRequest} : attempts'[r].tries <= 1

\* A refresh of the view of one process meets the calls of all.
TheProcess == CHOOSE p \in KeyProcesses : TRUE
OneRefreshes == \A p \in KeyProcesses \ {TheProcess} : load'[p] = NoLoad

PartsNext ==
  \/ Only("flight") /\ CredNext /\ ThreadsOfOne
  \/ Only("rotation") /\ CredNext /\ ThreadsOfTwo
  \/ Only("verification") /\ VerifyNext /\ WatchedOnly
  \/ Only("recheck") /\ VerifyNext /\ OneReporter
  \/ Only("operations") /\ OperationsNext /\ EntryLapses
  \/ Only("imports") /\ OperationsNext /\ AccountReturns
  \/ Only("registration") /\ RegistrationNext /\ NoReset
  \/ Only("reset") /\ RegistrationNext /\ PoolOnly
  \/ Only("runner") /\ RunnerNext
  \/ Only("codes") /\ CodesNext
  \/ Only("proxies") /\ ProxyNext /\ OneTriesAgain
  \/ Only("keys") /\ KeysNext /\ OneRefreshes

PartsSpec == PartsInit /\ [][PartsNext]_partVars

\* Every component keeps its types.
AccountsTypeOK ==
  /\ CredTypeOK /\ VerifyTypeOK /\ OperationsTypeOK /\ RegistrationTypeOK
  /\ RunnerTypeOK /\ CodesTypeOK /\ ProxyTypeOK /\ KeysTypeOK
=============================================================================
