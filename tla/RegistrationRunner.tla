-------------------------- MODULE RegistrationRunner --------------------------
(***************************************************************************)
(* The runner of the automatic registration                                *)
(* (services/register_service.py) and the runtime lease that lets one of   *)
(* several processes run it (services/register_config_store.py).  A        *)
(* runner's thread submits registration tasks while it holds the lease,    *)
(* renews the lease with every update of its statistics and learns in the  *)
(* same way that another process has taken it.  What a task does is        *)
(* AccountRegistration's.                                                  *)
(***************************************************************************)
EXTENDS Naturals

CONSTANTS
  RunnerProcesses,      \* processes that share the registration's database
  Nobody,         \* owns a lease that was never taken, or a dead process's
  MaxInflight,    \* registrations a runner has in flight at once
  MaxStarts       \* bound: runs that are started

ASSUME RunnerAssumption ==
  Nobody \notin RunnerProcesses /\ MaxInflight \in Nat \ {0} /\ MaxStarts \in Nat

VARIABLES
  phase,       \* process -> where its runner's thread is
  halted,      \* process -> _shutdown_event
  flying,      \* process -> registrations in flight
  runnerLease,       \* the runtime lease: its owner, and whether it is active
  wanted,      \* the stored configuration's "enabled"
  starts,      \* runs started
  strays       \* history: process -> registrations submitted without the lease

runnerVars == <<phase, halted, flying, runnerLease, wanted, starts, strays>>

Phases == {"none", "loop", "look", "decide", "submit", "wait", "drain", "finish"}

RunnerTypeOK ==
  /\ phase \in [RunnerProcesses -> Phases]
  /\ halted \in [RunnerProcesses -> BOOLEAN]
  /\ flying \in [RunnerProcesses -> 0..MaxInflight]
  /\ runnerLease \in [owner : RunnerProcesses \cup {Nobody}, active : BOOLEAN]
  /\ wanted \in BOOLEAN /\ starts \in 0..MaxStarts /\ strays \in [RunnerProcesses -> Nat]

RunnerInit ==
  /\ phase = [p \in RunnerProcesses |-> "none"]
  /\ halted = [p \in RunnerProcesses |-> FALSE]
  /\ flying = [p \in RunnerProcesses |-> 0]
  /\ runnerLease = [owner |-> Nobody, active |-> FALSE]
  /\ wanted = FALSE /\ starts = 0
  /\ strays = [p \in RunnerProcesses |-> 0]

RunnerMoves(p, to) == phase' = [phase EXCEPT ![p] = to]
HeldByOther(p) == runnerLease.active /\ runnerLease.owner # p

-----------------------------------------------------------------------------
(* The lease *)

\* try_acquire_runtime_lease: taken unless it is active and another's.
Acquired(p) ==
  /\ runnerLease' = [owner |-> p, active |-> TRUE]
  /\ strays' = [strays EXCEPT ![p] = 0]

\* Mutant: the runner's own statistics are saved, whoever holds the lease.
RenewsUnseen(p) ==
  /\ IF HeldByOther(p) THEN UNCHANGED <<runnerLease, strays>> ELSE Acquired(p)
  /\ UNCHANGED halted

\* _bump: the statistics are saved under the lease, which is renewed; a run that
\* lost its lease is to end.
Renews(p) ==
  IF HeldByOther(p) THEN halted' = [halted EXCEPT ![p] = TRUE] /\ UNCHANGED <<runnerLease, strays>>
  ELSE Acquired(p) /\ UNCHANGED halted

\* Thirty seconds pass without a renewal.
LeaseExpires ==
  /\ runnerLease.active
  /\ runnerLease' = [runnerLease EXCEPT !.active = FALSE]
  /\ UNCHANGED <<phase, halted, flying, wanted, starts, strays>>

-----------------------------------------------------------------------------
(* start and stop *)

\* start(), by an administrator, or by the scheduler of an enabled task.
StartRunner(p) ==
  /\ phase[p] = "none" /\ ~HeldByOther(p) /\ starts < MaxStarts
  /\ wanted' = TRUE
  /\ halted' = [halted EXCEPT ![p] = FALSE]
  /\ RunnerMoves(p, "loop") /\ Acquired(p)
  /\ starts' = starts + 1
  /\ UNCHANGED flying

\* start() beside a living runner, which only enables the task.
StartAgain(p) ==
  /\ phase[p] # "none" /\ ~halted[p]
  /\ ~wanted /\ wanted' = TRUE
  /\ UNCHANGED <<phase, halted, flying, runnerLease, starts, strays>>

\* stop(), in any process; the scheduler calls it for a task disabled elsewhere.
StopRunner(p) ==
  /\ wanted \/ (phase[p] # "none" /\ ~halted[p])
  /\ wanted' = FALSE
  /\ halted' = [halted EXCEPT ![p] = TRUE]
  /\ UNCHANGED <<phase, flying, runnerLease, starts, strays>>

\* The process ends; the one that replaces it has another _owner_id.
ProcessDies(p) ==
  /\ phase[p] # "none"
  /\ RunnerMoves(p, "none")
  /\ halted' = [halted EXCEPT ![p] = FALSE]
  /\ flying' = [flying EXCEPT ![p] = 0]
  /\ strays' = [strays EXCEPT ![p] = 0]
  /\ runnerLease' = IF runnerLease.owner = p
                    THEN [runnerLease EXCEPT !.owner = Nobody] ELSE runnerLease
  /\ UNCHANGED <<wanted, starts>>

-----------------------------------------------------------------------------
(* _run *)

\* The head of the loop.
RunnerTurns(p) ==
  /\ phase[p] = "loop"
  /\ IF halted[p] THEN RunnerMoves(p, "drain") /\ UNCHANGED <<halted, runnerLease, strays>>
     ELSE RunnerMoves(p, "look") /\ Renews(p)
  /\ UNCHANGED <<flying, wanted, starts>>

\* Is there room for one more, and is the target not reached?
RunnerLooks(p) ==
  /\ phase[p] = "look"
  /\ \/ ~halted[p] /\ wanted /\ flying[p] < MaxInflight /\ RunnerMoves(p, "decide")
     \/ RunnerMoves(p, "wait")
  /\ UNCHANGED <<halted, flying, runnerLease, wanted, starts, strays>>

\* should_submit_registration: the gates, and the statistics with the reason.
RunnerDecides(p) ==
  /\ phase[p] = "decide"
  /\ Renews(p)
  /\ RunnerMoves(p, "submit") \/ RunnerMoves(p, "wait")
  /\ UNCHANGED <<flying, wanted, starts>>

SubmitRegistration(p) ==
  /\ phase[p] = "submit" /\ RunnerMoves(p, "look")
  /\ flying' = [flying EXCEPT ![p] = @ + 1]
  /\ strays' = [strays EXCEPT ![p] = @ + IF HeldByOther(p) THEN 1 ELSE 0]
  /\ UNCHANGED <<halted, runnerLease, wanted, starts>>

Collected(p) == flying' = [flying EXCEPT ![p] = @ - 1]

\* The statistics are saved, and the runner waits for a registration, or ends
\* when it has none and is disabled or at its target.
RunnerWaits(p) ==
  /\ phase[p] = "wait"
  /\ Renews(p)
  /\ \/ flying[p] = 0 /\ RunnerMoves(p, "finish") /\ UNCHANGED flying
     \/ flying[p] = 0 /\ wanted /\ ~halted'[p] /\ RunnerMoves(p, "loop") /\ UNCHANGED flying
     \/ flying[p] > 0 /\ Collected(p) /\ RunnerMoves(p, "loop")
     \/ flying[p] > 0 /\ RunnerMoves(p, "loop") /\ UNCHANGED flying
  /\ UNCHANGED <<wanted, starts>>

\* A halted run waits for what it has in flight.
RunnerDrains(p) ==
  /\ phase[p] = "drain"
  /\ IF flying[p] > 0 THEN Renews(p) /\ Collected(p) /\ UNCHANGED phase
     ELSE RunnerMoves(p, "finish") /\ UNCHANGED <<flying, halted, runnerLease, strays>>
  /\ UNCHANGED <<wanted, starts>>

\* finish_runtime: one more _bump; for another's lease nothing is written.
RunnerFinishes(p) ==
  /\ phase[p] = "finish" /\ RunnerMoves(p, "none")
  /\ IF HeldByOther(p) THEN Renews(p) /\ UNCHANGED wanted
     ELSE /\ runnerLease' = [owner |-> p, active |-> FALSE]
          /\ wanted' = (wanted /\ halted[p])
          /\ UNCHANGED <<halted, strays>>
  /\ UNCHANGED <<flying, starts>>

RunnerNext ==
  \/ \E p \in RunnerProcesses :
       \/ RunnerTurns(p) \/ RunnerLooks(p) \/ RunnerDecides(p) \/ SubmitRegistration(p)
       \/ RunnerWaits(p) \/ RunnerDrains(p) \/ RunnerFinishes(p)
       \/ StartRunner(p) \/ StartAgain(p) \/ StopRunner(p) \/ ProcessDies(p)
  \/ LeaseExpires

RunnerSpec == RunnerInit /\ [][RunnerNext]_runnerVars

-----------------------------------------------------------------------------
(* Properties *)

\* A run whose lease another process has taken submits at most two more
\* registrations: one that it had decided on, and one because the call that
\* learns of the loss still answers yes (should_submit_registration, _bump).  A
\* runner that ended has left none in flight (_run).
LostRunsStop ==
  \A p \in RunnerProcesses :
    strays[p] <= 2 /\ (phase[p] = "none" => flying[p] = 0)
=============================================================================
