----------------------------- MODULE ResourceGate -----------------------------
(***************************************************************************)
(* The resource controller: one occupancy gate for the dispatcher, for the *)
(* admission of tasks and for the registration, and behind it the walls of *)
(* the machine and of a failing upstream.  A caller probes the machine     *)
(* under one lock and decides under another, so a decision may be made on  *)
(* a reading that others have overtaken.  Memory and swap, which are       *)
(* compared where the CPU is, are left out, and so are the texts of the    *)
(* reasons.  One tick is the interval in which a probe is reused.          *)
(***************************************************************************)
EXTENDS Integers, Sequences, FiniteSets

CONSTANTS
  Callers,          \* those who ask: "generation", "submission", "registration"
  Walls,            \* what can be exhausted behind the gate
  SubmissionWalls,  \* the walls that stop a new task as well
  Hold,             \* ticks a load lasts before the gate moves
  Window,           \* the outcomes remembered (UPSTREAM_ERROR_WINDOW)
  MinSamples,       \* UPSTREAM_ERROR_MIN_SAMPLES
  KeptFor,          \* UPSTREAM_ERROR_SAMPLE_TTL_SECONDS, in ticks
  Cap               \* the generations that may run at a time

ASSUME GateAssumption ==
  /\ Callers \subseteq {"generation", "submission", "registration"}
  /\ "generation" \in Callers
  /\ SubmissionWalls \subseteq Walls
  /\ {Hold, Window, MinSamples, KeptFor, Cap} \subseteq Nat \ {0}

VARIABLES
  idle,      \* the machine has become idle for good
  cache,     \* the last probe, while it may be reused
  reading,   \* the probe a caller is about to decide on
  paused,    \* the latch
  highFor,   \* ticks since the load was found high, -1: it was not
  lowFor,    \* ticks since the load was found low, -1: it was not
  spiked,    \* the CPU was found high within this tick
  outcomes,  \* what became of the last generations, with their ages
  step,      \* what the dispatcher decides next
  flights,   \* generations that run
  allowed,   \* the last answer to the dispatcher
  busyFor    \* ticks since a decision found the load not low

gateVars == <<paused, highFor, lowFor, spiked, busyFor>>
gateAllVars == <<idle, cache, reading, gateVars, outcomes, step, flights, allowed>>

NoProbe == [load |-> -1, raised |-> {}]
Aging(n, limit) == IF n < 0 THEN n ELSE IF n < limit THEN n + 1 ELSE n
Later(m, n) == IF m > n THEN m ELSE n

GateInit ==
  /\ idle = FALSE /\ cache = NoProbe /\ reading = [c \in Callers |-> NoProbe]
  /\ paused = FALSE /\ highFor = -1 /\ lowFor = -1 /\ spiked = FALSE /\ busyFor = Hold
  /\ outcomes = <<>> /\ step = "plan" /\ flights = 0 /\ allowed = FALSE

\* What the machine shows: a load of 0 below the resume mark, 1 between the
\* marks, 2 at the pause mark, and the walls it is up against.
Machine == IF idle THEN [load : {0}, raised : {{}}] ELSE [load : 0..2, raised : SUBSET Walls]

MachineIdles ==
  /\ idle' = TRUE
  /\ UNCHANGED <<cache, reading, gateVars, outcomes, step, flights, allowed>>

\* A probe within the interval of the last keeps what is high in it; the walls
\* are not read again.
Reading(now) ==
  IF cache = NoProbe THEN now ELSE [cache EXCEPT !.load = Later(now.load, cache.load)]

Probe(c) ==
  /\ reading[c] = NoProbe
  /\ \E now \in Machine :
       cache' = Reading(now) /\ reading' = [reading EXCEPT ![c] = Reading(now)]
  /\ UNCHANGED <<idle, gateVars, outcomes, step, flights, allowed>>

\* _stabilize_occupancy_cpu: a high CPU is not taken back within the interval.
Stable(level) == IF level < 2 /\ ~paused /\ spiked THEN 2 ELSE level

\* The latch closes when the load is high and was for a while, a dip between
\* not counting; it opens when the load was low for as long.
OccupancyGate(level) ==
  LET high == Later(highFor, 0)
      low == Later(lowFor, 0)
  IN  CASE level = 2 -> [paused |-> paused \/ high >= Hold, high |-> high, low |-> -1]
        [] level = 1 -> [paused |-> paused, high |-> IF paused THEN -1 ELSE highFor, low |-> -1]
        [] level = 0 /\ low >= Hold -> [paused |-> FALSE, high |-> -1, low |-> -1]
        [] OTHER -> [paused |-> paused, high |-> IF paused THEN -1 ELSE highFor, low |-> low]

UpdateOccupancyGate(level) ==
  LET gate == OccupancyGate(level)
  IN  /\ paused' = gate.paused /\ highFor' = gate.high /\ lowFor' = gate.low
      /\ spiked' = (level = 2)
      /\ busyFor' = IF level > 0 THEN 0 ELSE busyFor

\* upstream_error_rate against its threshold of 45 %.
UpstreamFails ==
  LET failed == Cardinality({i \in DOMAIN outcomes : ~outcomes[i].ok})
  IN  Len(outcomes) >= MinSamples /\ 100 * failed >= 45 * Len(outcomes)

HardWall(c, probe) ==
  CASE c = "generation" -> probe.raised # {} \/ UpstreamFails
    [] c = "submission" -> probe.raised \cap SubmissionWalls # {}
    [] OTHER -> FALSE

\* allow_new_submission and allow_new_registration.  A wall of the disk is
\* looked at before the gate, which is then left as it is.
Decide(c) ==
  /\ c # "generation"
  /\ reading[c] # NoProbe
  /\ reading' = [reading EXCEPT ![c] = NoProbe]
  /\ \/ UpdateOccupancyGate(Stable(reading[c].load))
     \/ c = "submission" /\ HardWall(c, reading[c]) /\ UNCHANGED gateVars
  /\ UNCHANGED <<idle, cache, outcomes, step, flights, allowed>>

\* The dispatcher asks when it plans, again when the accounts are listed, and
\* once more when it has claimed a job, which it gives back if refused.
Dispatch ==
  LET probe == reading["generation"]
      open == ~OccupancyGate(Stable(probe.load)).paused /\ ~HardWall("generation", probe)
  IN  /\ probe # NoProbe
      /\ reading' = [reading EXCEPT !["generation"] = NoProbe]
      /\ UpdateOccupancyGate(Stable(probe.load))
      /\ allowed' = open
      /\ \/ ~open /\ step' = "plan" /\ UNCHANGED flights
         \/ /\ open /\ step = "plan"
            /\ step' = (IF flights < Cap THEN "claim" ELSE "plan")
            /\ UNCHANGED flights
         \/ open /\ step = "claim" /\ step' \in {"plan", "run"} /\ UNCHANGED flights
         \/ open /\ step = "run" /\ step' = "plan" /\ flights' = flights + 1
      /\ UNCHANGED <<idle, cache, outcomes>>

\* Mutant: the window takes one outcome too many.
RememberOneMore(ok) ==
  LET all == Append(outcomes, [ok |-> ok, age |-> 0])
  IN  outcomes' = IF Len(all) > Window + 1 THEN Tail(all) ELSE all

\* note_upstream_outcome: the end of a generation, unless it failed for a
\* reason that is not the upstream's.
Remember(ok) ==
  LET all == Append(outcomes, [ok |-> ok, age |-> 0])
  IN  outcomes' = IF Len(all) > Window THEN Tail(all) ELSE all

FinishGeneration ==
  /\ flights > 0 /\ flights' = flights - 1
  /\ (\E ok \in BOOLEAN : Remember(ok)) \/ UNCHANGED outcomes
  /\ UNCHANGED <<idle, cache, reading, gateVars, step, allowed>>

Grown(outcome) == [outcome EXCEPT !.age = Aging(@, KeptFor)]

\* _prune_upstream_outcomes_unlocked: an outcome counts for its time only.  The
\* oldest come first.
Pruned(all) ==
  LET grown == [i \in DOMAIN all |-> Grown(all[i])]
      old == {i \in DOMAIN grown : grown[i].age >= KeptFor}
  IN  SubSeq(grown, Cardinality(old) + 1, Len(grown))

Tick ==
  /\ cache' = NoProbe /\ spiked' = FALSE
  /\ highFor' = Aging(highFor, Hold) /\ lowFor' = Aging(lowFor, Hold)
  /\ busyFor' = Aging(busyFor, Hold)
  /\ outcomes' = Pruned(outcomes)
  /\ UNCHANGED <<idle, reading, paused, step, flights, allowed>>

GateNext ==
  \/ MachineIdles \/ Tick \/ Dispatch \/ FinishGeneration
  \/ \E c \in Callers : Probe(c) \/ Decide(c)

GateSpec == GateInit /\ [][GateNext]_gateAllVars

\* The dispatcher's loop goes round, and time passes.
GateFairSpec ==
  GateSpec /\ WF_gateAllVars(Tick) /\ WF_gateAllVars(Probe("generation"))
           /\ WF_gateAllVars(Dispatch)

-----------------------------------------------------------------------------
GateTypeOK ==
  /\ idle \in BOOLEAN
  /\ \A probe \in {cache} \cup {reading[c] : c \in Callers} :
       probe = NoProbe \/ probe \in [load : 0..2, raised : SUBSET Walls]
  /\ paused \in BOOLEAN /\ spiked \in BOOLEAN /\ allowed \in BOOLEAN
  /\ highFor \in -1..Hold /\ lowFor \in -1..Hold /\ busyFor \in 0..Hold
  /\ Len(outcomes) <= Window
  /\ \A i \in DOMAIN outcomes : outcomes[i] \in [ok : BOOLEAN, age : 0..KeptFor]
  /\ step \in {"plan", "claim", "run"} /\ flights \in 0..Cap

\* The gate opens only after decisions that all found the load low, whoever
\* asked and in whatever order the probes were used (_update_occupancy_gate).
OpensAfterCalm == [][paused /\ ~paused' => busyFor >= Hold]_gateAllVars

\* Neither the latch nor the upstream's failures, of which no more come while
\* nothing runs, keep the generation closed on a machine that has become idle
\* (_update_occupancy_gate, _prune_upstream_outcomes_unlocked).
GenerationReturns == <>idle => []<>allowed
=============================================================================
