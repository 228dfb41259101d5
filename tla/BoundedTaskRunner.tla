-------------------------- MODULE BoundedTaskRunner --------------------------
(***************************************************************************)
(* services/bounded_task_runner.py: a pool of daemon threads with bounded  *)
(* admission.  A caller reserves a slot, commits work to it or rolls it    *)
(* back; threads take committed work from a queue; callers shut the runner *)
(* down, with or without draining it, and open it again.  Each opening is  *)
(* a run with a queue and threads of its own, and the threads of an old    *)
(* run may still be at work while the next one is open.                    *)
(*                                                                         *)
(* Actions are the critical sections of _lock and the steps outside it     *)
(* (queue.get, the callbacks, on_cancel), in the order of the code.        *)
(***************************************************************************)
EXTENDS Integers, FiniteSets

CONSTANTS
  Tasks,        \* pieces of work, each reserved at most once
  Callers,      \* calls that close the runner
  MaxWorkers,   \* max_workers: threads per run, and running callbacks in all
  QueueSize,    \* queue_size: admitted work beyond max_workers
  MaxRuns,      \* bound: how often the runner is opened
  Operations    \* how the callers of an instance close it

RunnerAssumption ==
  /\ IsFiniteSet(Tasks)
  /\ MaxWorkers \in Nat \ {0}
  /\ QueueSize \in Nat \ {0}
  /\ MaxRuns \in Nat \ {0}
  /\ Operations \subseteq {"shutdown", "drain", "cancel_and_wait", "restart"}

ASSUME RunnerAssumption

Capacity == MaxWorkers + QueueSize
Runs == 1..MaxRuns
Threads == Runs \X (1..MaxWorkers)

\* Where a task is.  "reserved", "queued", "in_hand" and "running" count
\* against the capacity; "withdrawn" work waits for its on_cancel call.
Held == {"reserved", "queued", "in_hand", "running"}
Places == Held \cup {"new", "rolled_back", "refused", "withdrawn", "finished", "told"}

\* Thread states that own a unit of the semaphore _worker_slots.
Seated == {"polling", "timed_out", "in_hand", "running", "telling", "leaving"}
ThreadStates == Seated \cup {"absent", "waiting", "gone"}

VARIABLES
  generation,   \* the current run
  closed,       \* _closed
  mode,         \* mode of every run, "unborn" before it is opened
  place, run,   \* where each task is, and the run it was reserved in
  accepted,     \* _accepted
  active,       \* _active
  unfinished,   \* unfinished_tasks of the queue of each run
  slots,        \* free units of _worker_slots
  at, task,     \* state of each thread, and the tasks it has in hand
  caller        \* progress of each closing call

runVars == <<generation, closed, mode>>
taskVars == <<place, run>>
threadVars == <<at, task>>
vars == <<runVars, taskVars, accepted, active, unfinished, slots, threadVars, caller>>

\* What a closing call keeps in its frame: the tasks it still has to tell, and
\* the run and the threads it waits for.
Calls == [at : {"idle", "telling", "joining", "returned"}, tasks : SUBSET Tasks,
          waits : BOOLEAN, run : Runs, threads : SUBSET Threads]
Idle == [at |-> "idle", tasks |-> {}, waits |-> FALSE, run |-> 1, threads |-> {}]

Init ==
  /\ generation = 1
  /\ closed = FALSE
  /\ mode = [r \in Runs |-> IF r = 1 THEN "running" ELSE "unborn"]
  /\ place = [t \in Tasks |-> "new"]
  /\ run = [t \in Tasks |-> 1]
  /\ accepted = 0
  /\ active = 0
  /\ unfinished = [r \in Runs |-> 0]
  /\ slots = MaxWorkers
  /\ at = [w \in Threads |-> "absent"]
  /\ task = [w \in Threads |-> {}]
  /\ caller = [c \in Callers |-> Idle]

Open == ~closed /\ mode[generation] = "running"
InQueue(r) == {t \in Tasks : place[t] = "queued" /\ run[t] = r}
Reserved(r) == {t \in Tasks : place[t] = "reserved" /\ run[t] = r}
Alive == {w \in Threads : at[w] \notin {"absent", "gone"}}

\* _start_locked: the threads of a run are created together, once.
Started(r) ==
  [w \in Threads |-> IF w[1] = r /\ at[w] = "absent" THEN "waiting" ELSE at[w]]
-----------------------------------------------------------------------------
(***************************************************************************)
(* Opening and closing.                                                    *)
(***************************************************************************)

\* The next run replaces the current one and gets its threads.
OpenNext ==
  /\ generation < MaxRuns
  /\ generation' = generation + 1
  /\ closed' = FALSE
  /\ at' = Started(generation + 1)

\* start()
Start ==
  /\ \/ /\ ~Open
        /\ OpenNext
        /\ mode' = [mode EXCEPT ![generation + 1] = "running"]
     \/ /\ Open
        /\ at' = Started(generation)
        /\ UNCHANGED runVars
  /\ UNCHANGED <<taskVars, accepted, active, unfinished, slots, task, caller>>

ClosedMode(waits) ==
  IF ~waits \/ mode[generation] = "cancelled" THEN "cancelled" ELSE "draining"

\* Mutant: the queue is left to the threads, which find the run cancelled.
DrainedNothing(waits) == {}

\* What _close_locked takes out of the queue: everything, unless it drains.
Drained(waits) ==
  IF ClosedMode(waits) = "cancelled" THEN InQueue(generation) ELSE {}

\* _close_locked: pending reservations are refused, queued work is withdrawn,
\* and both give back their capacity.  A thread that takes a task while the
\* queue is being emptied is the same as one that took it just before.
CloseLocked(waits) ==
  LET refused == Reserved(generation)
      drained == Drained(waits)
  IN /\ place' = [t \in Tasks |-> IF t \in refused THEN "refused"
                                  ELSE IF t \in drained THEN "withdrawn"
                                  ELSE place[t]]
     /\ accepted' = accepted - Cardinality(refused \cup drained)
     /\ unfinished' = [unfinished EXCEPT ![generation] = @ - Cardinality(drained)]
     /\ UNCHANGED run

Call(c, tellsTasks, waits) ==
  caller' = [caller EXCEPT ![c] =
    [at |-> "telling", tasks |-> tellsTasks, waits |-> waits, run |-> generation,
     threads |-> IF waits THEN Alive ELSE {}]]

\* shutdown(wait=FALSE or TRUE) and shutdown_cancel_pending_and_wait().
Shutdown(c) ==
  \E op \in Operations \ {"restart"} :
    LET drains == op = "drain"
    IN /\ caller[c].at = "idle"
       /\ closed' = TRUE
       /\ mode' = [mode EXCEPT ![generation] = ClosedMode(drains)]
       /\ CloseLocked(drains)
       /\ Call(c, Drained(drains), op # "shutdown")
       /\ UNCHANGED <<generation, active, slots, threadVars>>

\* restart(): closes and opens under one acquisition of the lock.
Restart(c) ==
  /\ "restart" \in Operations
  /\ caller[c].at = "idle"
  /\ OpenNext
  /\ mode' = [mode EXCEPT ![generation] = "cancelled", ![generation + 1] = "running"]
  /\ CloseLocked(FALSE)
  /\ Call(c, Drained(FALSE), FALSE)
  /\ UNCHANGED <<active, slots, task>>

\* _notify_cancelled: the caller runs on_cancel outside the lock, task by task.
TellNext(c) ==
  /\ caller[c].at = "telling"
  /\ \E t \in caller[c].tasks :
       /\ place' = [place EXCEPT ![t] = "told"]
       /\ caller' = [caller EXCEPT ![c].tasks = @ \ {t}]
  /\ UNCHANGED <<runVars, run, accepted, active, unfinished, slots, threadVars>>

\* All are told: the call returns, or waits first.
ToldAll(c) ==
  /\ caller[c].at = "telling"
  /\ caller[c].tasks = {}
  /\ caller' = [caller EXCEPT ![c].at =
                  IF caller[c].waits THEN "joining" ELSE "returned"]
  /\ UNCHANGED <<runVars, taskVars, accepted, active, unfinished, slots, threadVars>>

\* queue.join() of its run and the end of every thread it saw.
Joined(c) ==
  /\ unfinished[caller[c].run] = 0
  /\ \A w \in caller[c].threads : at[w] = "gone"

\* _wait_for_shutdown
Return(c) ==
  /\ caller[c].at = "joining"
  /\ Joined(c)
  /\ caller' = [caller EXCEPT ![c].at = "returned"]
  /\ UNCHANGED <<runVars, taskVars, accepted, active, unfinished, slots, threadVars>>
-----------------------------------------------------------------------------
(***************************************************************************)
(* Admission.                                                              *)
(***************************************************************************)

\* Mutant: the limit is the size of the queue object, counted from the queue.
HasCapacityInQueue == Cardinality(InQueue(generation)) < Capacity

HasCapacity == accepted < Capacity

\* reserve(); a refused reservation changes nothing.
Reserve(t) ==
  /\ place[t] = "new"
  /\ Open
  /\ HasCapacity
  /\ at' = Started(generation)
  /\ place' = [place EXCEPT ![t] = "reserved"]
  /\ run' = [run EXCEPT ![t] = generation]
  /\ accepted' = accepted + 1
  /\ UNCHANGED <<runVars, active, unfinished, slots, task, caller>>

\* The conditions under which _commit_reserved does not cancel a reservation
\* it owns, the room in the queue (put_nowait) last.
Admissible(t) ==
  /\ ~closed
  /\ run[t] = generation
  /\ mode[run[t]] = "running"
  /\ Cardinality(InQueue(run[t])) < Capacity

\* commit(); a reservation that was refused by a close is not owned any more.
Commit(t) ==
  /\ place[t] = "reserved"
  /\ place' = [place EXCEPT ![t] = IF Admissible(t) THEN "queued" ELSE "refused"]
  /\ accepted' = IF Admissible(t) THEN accepted ELSE accepted - 1
  /\ unfinished' = IF Admissible(t) THEN [unfinished EXCEPT ![run[t]] = @ + 1]
                   ELSE unfinished
  /\ UNCHANGED <<runVars, run, active, slots, threadVars, caller>>

\* rollback()
Rollback(t) ==
  /\ place[t] = "reserved"
  /\ place' = [place EXCEPT ![t] = "rolled_back"]
  /\ accepted' = accepted - 1
  /\ UNCHANGED <<runVars, run, active, unfinished, slots, threadVars, caller>>
-----------------------------------------------------------------------------
(***************************************************************************)
(* A worker thread.                                                        *)
(***************************************************************************)

SlotAvailable(w) == slots > 0

AcquireSlot(w) ==
  /\ at[w] = "waiting"
  /\ SlotAvailable(w)
  /\ slots' = slots - 1
  /\ at' = [at EXCEPT ![w] = "polling"]
  /\ UNCHANGED <<runVars, taskVars, accepted, active, unfinished, task, caller>>

\* queue.get returns a task; the lock is not held.
TakeTask(w) ==
  /\ at[w] = "polling"
  /\ \E t \in InQueue(w[1]) :
       /\ place' = [place EXCEPT ![t] = "in_hand"]
       /\ task' = [task EXCEPT ![w] = {t}]
  /\ at' = [at EXCEPT ![w] = "in_hand"]
  /\ UNCHANGED <<runVars, run, accepted, active, unfinished, slots, caller>>

\* queue.get raises Empty after its timeout.
PollTimesOut(w) ==
  /\ at[w] = "polling"
  /\ InQueue(w[1]) = {}
  /\ at' = [at EXCEPT ![w] = "timed_out"]
  /\ UNCHANGED <<runVars, taskVars, accepted, active, unfinished, slots, task, caller>>

MayStay(w) == mode[w[1]] = "running"

\* The thread looks at the mode after it found the queue empty, not at the
\* queue again.
LookAtMode(w) ==
  /\ at[w] = "timed_out"
  /\ at' = [at EXCEPT ![w] = IF MayStay(w) THEN "polling" ELSE "leaving"]
  /\ UNCHANGED <<runVars, taskVars, accepted, active, unfinished, slots, task, caller>>

StillWanted(w) == mode[w[1]] # "cancelled"

\* The callback of the task in hand begins.
Begin(w) ==
  /\ at[w] = "in_hand"
  /\ StillWanted(w)
  /\ active' = active + 1
  /\ at' = [at EXCEPT ![w] = "running"]
  /\ place' = [t \in Tasks |-> IF t \in task[w] THEN "running" ELSE place[t]]
  /\ UNCHANGED <<runVars, run, accepted, unfinished, slots, task, caller>>

\* The run was cancelled while the task was in hand: its capacity is given
\* back and task_done is called before anybody is told.
Withdraw(w) ==
  /\ at[w] = "in_hand"
  /\ ~StillWanted(w)
  /\ accepted' = accepted - 1
  /\ unfinished' = [unfinished EXCEPT ![w[1]] = @ - 1]
  /\ at' = [at EXCEPT ![w] = "telling"]
  /\ place' = [t \in Tasks |-> IF t \in task[w] THEN "withdrawn" ELSE place[t]]
  /\ UNCHANGED <<runVars, run, active, slots, task, caller>>

Tell(w) ==
  /\ at[w] = "telling"
  /\ place' = [t \in Tasks |-> IF t \in task[w] THEN "told" ELSE place[t]]
  /\ task' = [task EXCEPT ![w] = {}]
  /\ at' = [at EXCEPT ![w] = "leaving"]
  /\ UNCHANGED <<runVars, run, accepted, active, unfinished, slots, caller>>

\* Mutant: a callback that raises gives it back in both handlers.
ReleasedTwice == 2

\* What a callback gives back when it returns or raises.
Released == 1

Finish(w) ==
  /\ at[w] = "running"
  /\ active' = active - 1
  /\ accepted' = accepted - Released
  /\ unfinished' = [unfinished EXCEPT ![w[1]] = @ - 1]
  /\ at' = [at EXCEPT ![w] = "polling"]
  /\ place' = [t \in Tasks |-> IF t \in task[w] THEN "finished" ELSE place[t]]
  /\ task' = [task EXCEPT ![w] = {}]
  /\ UNCHANGED <<runVars, run, slots, caller>>

\* The thread gives its slot back and leaves _all_threads.
Leave(w) ==
  /\ at[w] = "leaving"
  /\ slots' = slots + 1
  /\ at' = [at EXCEPT ![w] = "gone"]
  /\ UNCHANGED <<runVars, taskVars, accepted, active, unfinished, task, caller>>

ThreadStep(w) ==
  \/ AcquireSlot(w) \/ TakeTask(w) \/ PollTimesOut(w) \/ LookAtMode(w)
  \/ Begin(w) \/ Withdraw(w) \/ Tell(w) \/ Finish(w) \/ Leave(w)

CallerStep(c) == TellNext(c) \/ ToldAll(c) \/ Return(c)

Next ==
  \/ Start
  \/ \E c \in Callers : Shutdown(c) \/ Restart(c) \/ CallerStep(c)
  \/ \E t \in Tasks : Reserve(t) \/ Commit(t) \/ Rollback(t)
  \/ \E w \in Threads : ThreadStep(w)

Spec == Init /\ [][Next]_vars

\* Threads run, callbacks end, and a closing call goes on.
Fairness ==
  /\ \A w \in Threads : WF_vars(ThreadStep(w))
  /\ \A c \in Callers : WF_vars(CallerStep(c))

FairSpec == Spec /\ Fairness
-----------------------------------------------------------------------------
(***************************************************************************)
(* Properties.                                                             *)
(***************************************************************************)

\* Every part of the runner keeps its type (the fields of BoundedTaskRunner,
\* _RunState and TaskReservation), and the counters stay natural numbers.
RunnerTypeOK ==
  /\ generation \in Runs
  /\ closed \in BOOLEAN
  /\ mode \in [Runs -> {"unborn", "running", "draining", "cancelled"}]
  /\ place \in [Tasks -> Places]
  /\ run \in [Tasks -> Runs]
  /\ accepted \in Nat
  /\ active \in Nat
  /\ unfinished \in [Runs -> Nat]
  /\ slots \in 0..MaxWorkers
  /\ at \in [Threads -> ThreadStates]
  /\ task \in [Threads -> SUBSET Tasks]
  /\ caller \in [Callers -> Calls]

HeldTasks == {t \in Tasks : place[t] \in Held}

\* _accepted counts the work that is reserved, queued, in hand or running, in
\* the current run and in the runs before it, and never exceeds the capacity:
\* no path of commit, rollback, close and the worker loop forgets a unit or
\* gives one back twice.
AdmissionAccounted == accepted = Cardinality(HeldTasks) /\ accepted <= Capacity

\* A reservation is a promise: as long as no close has refused it, its commit
\* succeeds.  put_nowait never raises Full, and no reservation of an earlier
\* run is still pending.
ReservationsAreKept == \A t \in Tasks : place[t] = "reserved" => Admissible(t)

\* At most max_workers callbacks run at once, those of a run that was closed
\* and still finishes its callbacks included.
ConcurrencyBounded ==
  /\ active = Cardinality({w \in Threads : at[w] = "running"})
  /\ active <= MaxWorkers

Keepers(t) ==
  {w \in Threads : t \in task[w]} \cup {c \in Callers : t \in caller[c].tasks}

\* Committed work is in the queue, in the hands of one thread, or on the list
\* of one closing call, and nowhere once it is finished or told: no work is
\* run twice, told twice, or run after it was told.
OneKeeper ==
  \A t \in Tasks :
    /\ place[t] \in {"in_hand", "running", "withdrawn"}
         => \E k \in Threads \cup Callers : Keepers(t) = {k}
    /\ place[t] \notin {"in_hand", "running", "withdrawn"} => Keepers(t) = {}

\* When a call that waits has returned, no work of its run is left: what was
\* committed has finished, or was told, or is on the list of another call.
NothingOutlivesShutdown ==
  \A c \in Callers : caller[c].at = "returned" /\ caller[c].waits =>
    \A t \in Tasks : run[t] = caller[c].run =>
      \/ place[t] \in {"new", "rolled_back", "refused", "finished", "told"}
      \/ \E d \in Callers : t \in caller[d].tasks

\* Committed work is eventually finished or told ("Raised through on_cancel when
\* committed work never starts", TaskCancelledError).  A drained run breaks it.
CommittedSettles ==
  \A t \in Tasks : place[t] = "queued" ~> place[t] \in {"finished", "told"}

\* A drained run whose threads left work behind in its queue, or cannot get a
\* slot from those of the run opened after it.
HeldUp(r) ==
  /\ mode[r] = "draining" /\ InQueue(r) # {}
  /\ Open \/ \A w \in Threads : w[1] = r => at[w] \in {"absent", "leaving", "gone"}

\* Admission, hand-over and closing are sound: a reservation can be committed,
\* capacity and concurrency hold over all runs, all work has one keeper, and a
\* call that waits leaves nothing behind.
RunnerIsSound ==
  /\ ReservationsAreKept /\ AdmissionAccounted /\ ConcurrencyBounded
  /\ OneKeeper /\ NothingOutlivesShutdown

\* Committed work is finished or told, and a closing call returns unless the
\* runner is opened again before the threads it waits for could end; only a
\* drained run that is held up delays them for ever.
ClosingEnds ==
  /\ \A t \in Tasks :
       place[t] = "queued" ~> (place[t] \in {"finished", "told"} \/ HeldUp(run[t]))
  /\ \A c \in Callers :
       caller[c].at = "joining"
         ~> (caller[c].at = "returned" \/ Open \/ \E r \in Runs : HeldUp(r))
=============================================================================
