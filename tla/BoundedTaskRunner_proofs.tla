---------------------- MODULE BoundedTaskRunner_proofs ----------------------
(***************************************************************************)
(* The safety properties of BoundedTaskRunner, for any number of tasks,    *)
(* threads, runs and closing calls.  The counters of the code are shown to *)
(* be the sizes of the sets they stand for, which needs to know where each *)
(* task is: in whose hands, and in which run.                              *)
(***************************************************************************)
EXTENDS BoundedTaskRunner, FiniteSetTheorems, TLAPS

-----------------------------------------------------------------------------
(* Types.                                                                  *)

\* RunnerTypeOK with counters that might still be negative.
RunnerTypes ==
  /\ generation \in Runs
  /\ closed \in BOOLEAN
  /\ mode \in [Runs -> {"unborn", "running", "draining", "cancelled"}]
  /\ place \in [Tasks -> Places]
  /\ run \in [Tasks -> Runs]
  /\ accepted \in Int
  /\ active \in Int
  /\ unfinished \in [Runs -> Int]
  /\ slots \in Int
  /\ at \in [Threads -> ThreadStates]
  /\ task \in [Threads -> SUBSET Tasks]
  /\ caller \in [Callers -> Calls]

\* The run of a thread is its first component.
LEMMA ThreadRun == \A w \in Threads : w[1] \in Runs
  BY DEF Threads

\* Tasks and threads are finitely many, so that the sets of the counters have
\* a size.
LEMMA FiniteTasksAndThreads ==
  /\ IsFiniteSet(Tasks)
  /\ IsFiniteSet(Threads)
  /\ \A S \in SUBSET Tasks : IsFiniteSet(S) /\ Cardinality(S) \in Nat
  /\ \A S \in SUBSET Threads : IsFiniteSet(S) /\ Cardinality(S) \in Nat
<1>1. IsFiniteSet(Tasks)
  BY RunnerAssumption DEF RunnerAssumption
<1>2. IsFiniteSet(Runs) /\ IsFiniteSet(1..MaxWorkers)
  BY RunnerAssumption, FS_Interval DEF RunnerAssumption, Runs
<1>3. IsFiniteSet(Threads)
  BY <1>2, FS_Product DEF Threads
<1>4. \A S \in SUBSET Tasks : IsFiniteSet(S) /\ Cardinality(S) \in Nat
  BY <1>1, FS_Subset, FS_CardinalityType
<1>5. \A S \in SUBSET Threads : IsFiniteSet(S) /\ Cardinality(S) \in Nat
  BY <1>3, FS_Subset, FS_CardinalityType
<1> QED BY <1>1, <1>3, <1>4, <1>5

\* What a close takes away are tasks.
LEMMA DrainedTasks ==
  ASSUME NEW waits
  PROVE  /\ Drained(waits) \subseteq InQueue(generation)
         /\ InQueue(generation) \subseteq Tasks
         /\ Reserved(generation) \subseteq Tasks
         /\ ClosedMode(waits) \in {"draining", "cancelled"}
  BY DEF Drained, InQueue, Reserved, ClosedMode

\* Creating the threads of a run keeps the type of "at".
LEMMA StartedType ==
  ASSUME RunnerTypes, NEW r
  PROVE  Started(r) \in [Threads -> ThreadStates]
  BY DEF RunnerTypes, Started, ThreadStates

\* The next run is one of the runs.
LEMMA NextRun ==
  ASSUME generation \in Runs, generation < MaxRuns
  PROVE  generation + 1 \in Runs /\ generation + 1 # generation
  BY RunnerAssumption DEF RunnerAssumption, Runs

\* A close keeps the types of the tasks and their counters.
LEMMA CloseTypes ==
  ASSUME RunnerTypes, NEW waits, CloseLocked(waits)
  PROVE  /\ place' \in [Tasks -> Places]
         /\ run' \in [Tasks -> Runs]
         /\ accepted' \in Int
         /\ unfinished' \in [Runs -> Int]
<1> DEFINE drained == Drained(waits)
           refused == Reserved(generation)
<1>1. drained \subseteq Tasks /\ refused \subseteq Tasks
  BY DrainedTasks
<1>2. Cardinality(drained) \in Nat /\ Cardinality(refused \cup drained) \in Nat
  BY <1>1, FiniteTasksAndThreads
<1>3. /\ place' = [t \in Tasks |-> IF t \in refused THEN "refused"
                                   ELSE IF t \in drained THEN "withdrawn"
                                   ELSE place[t]]
      /\ accepted' = accepted - Cardinality(refused \cup drained)
      /\ unfinished' = [unfinished EXCEPT ![generation] = @ - Cardinality(drained)]
      /\ run' = run
  BY DEF CloseLocked
<1> HIDE DEF drained, refused
<1> QED BY <1>2, <1>3 DEF RunnerTypes, Places

\* A closing call starts with a frame of its type.
LEMMA CallTypes ==
  ASSUME RunnerTypes, NEW c \in Callers, NEW waits, NEW joins \in BOOLEAN,
         Call(c, Drained(waits), joins)
  PROVE  caller' \in [Callers -> Calls]
<1>1. Drained(waits) \in SUBSET Tasks
  BY DrainedTasks
<1>2. Alive \in SUBSET Threads
  BY DEF Alive
<1> QED BY <1>1, <1>2 DEF Call, Calls, RunnerTypes

\* Every action keeps the types.
LEMMA TypesStep ==
  ASSUME RunnerTypes, [Next]_vars
  PROVE  RunnerTypes'
<1>1. CASE Start
  <2>1. at' \in [Threads -> ThreadStates]
    BY <1>1, StartedType DEF Start, OpenNext, runVars
  <2>2. generation' \in Runs /\ closed' \in BOOLEAN
        /\ mode' \in [Runs -> {"unborn", "running", "draining", "cancelled"}]
    BY <1>1, NextRun DEF Start, OpenNext, runVars, RunnerTypes
  <2> QED BY <1>1, <2>1, <2>2 DEF Start, RunnerTypes, taskVars
<1>2. ASSUME NEW c \in Callers, Shutdown(c)
      PROVE  RunnerTypes'
  <2>1. PICK op \in Operations \ {"restart"} :
          LET drains == op = "drain"
          IN /\ closed' = TRUE
             /\ mode' = [mode EXCEPT ![generation] = ClosedMode(drains)]
             /\ CloseLocked(drains)
             /\ Call(c, Drained(drains), op # "shutdown")
             /\ UNCHANGED <<generation, active, slots, threadVars>>
    BY <1>2 DEF Shutdown
  <2>2. CloseLocked(op = "drain") /\ Call(c, Drained(op = "drain"), op # "shutdown")
    BY <2>1
  <2>3. caller' \in [Callers -> Calls]
    BY <2>2, CallTypes
  <2>4. mode' \in [Runs -> {"unborn", "running", "draining", "cancelled"}]
    BY <2>1, DrainedTasks DEF RunnerTypes
  <2> QED BY <2>1, <2>2, <2>3, <2>4, CloseTypes DEF RunnerTypes, threadVars
<1>3. ASSUME NEW c \in Callers, Restart(c)
      PROVE  RunnerTypes'
  <2>1. at' \in [Threads -> ThreadStates]
    BY <1>3, StartedType DEF Restart, OpenNext
  <2>2. generation' \in Runs /\ closed' \in BOOLEAN
        /\ mode' \in [Runs -> {"unborn", "running", "draining", "cancelled"}]
    BY <1>3, NextRun DEF Restart, OpenNext, RunnerTypes
  <2>3. caller' \in [Callers -> Calls]
    BY <1>3, CallTypes DEF Restart
  <2> QED BY <1>3, <2>1, <2>2, <2>3, CloseTypes DEF Restart, RunnerTypes
<1>4. ASSUME NEW c \in Callers, CallerStep(c)
      PROVE  RunnerTypes'
  BY <1>4 DEF CallerStep, TellNext, ToldAll, Return, RunnerTypes, runVars,
              taskVars, threadVars, Calls, Places
<1>5. ASSUME NEW t \in Tasks, Reserve(t) \/ Commit(t) \/ Rollback(t)
      PROVE  RunnerTypes'
  <2>1. CASE Reserve(t)
    BY <2>1, StartedType DEF Reserve, RunnerTypes, runVars, Places, Held
  <2>2. CASE Commit(t)
    BY <2>2 DEF Commit, RunnerTypes, runVars, threadVars, Places, Held
  <2>3. CASE Rollback(t)
    BY <2>3 DEF Rollback, RunnerTypes, runVars, threadVars, Places
  <2> QED BY <1>5, <2>1, <2>2, <2>3
<1>6. ASSUME NEW w \in Threads, ThreadStep(w)
      PROVE  RunnerTypes'
  <2> USE ThreadRun DEF RunnerTypes, runVars, taskVars, ThreadStates, Seated, Places, Held
  <2>1. CASE AcquireSlot(w) \/ PollTimesOut(w) \/ LookAtMode(w) \/ Leave(w)
    BY <2>1 DEF AcquireSlot, PollTimesOut, LookAtMode, Leave
  <2>2. CASE TakeTask(w)
    BY <2>2 DEF TakeTask, InQueue
  <2>3. CASE Begin(w)
    BY <2>3 DEF Begin
  <2>4. CASE Withdraw(w) \/ Tell(w)
    BY <2>4 DEF Withdraw, Tell
  <2>5. CASE Finish(w)
    BY <2>5 DEF Finish, Released
  <2> QED BY <1>6, <2>1, <2>2, <2>3, <2>4, <2>5 DEF ThreadStep
<1>7. CASE UNCHANGED vars
  BY <1>7 DEF vars, RunnerTypes, runVars, taskVars, threadVars
<1> QED BY <1>1, <1>2, <1>3, <1>4, <1>5, <1>6, <1>7 DEF Next

-----------------------------------------------------------------------------
(* Where each task is.                                                     *)

\* Only the open run has pending reservations.
PendingIsCurrent ==
  \A t \in Tasks : place[t] = "reserved" => run[t] = generation /\ Open

\* The place of a task in the hands of a thread in state s.
PlaceAt(s) == IF s = "telling" THEN "withdrawn" ELSE s

Working == {"in_hand", "running", "telling"}

\* A thread at work has one task, of its own run, in the place that fits its
\* state; other threads have none.
ThreadsHoldTheirTask ==
  \A w \in Threads :
    IF at[w] \in Working
    THEN \E t \in Tasks : /\ task[w] = {t}
                          /\ place[t] = PlaceAt(at[w])
                          /\ run[t] = w[1]
    ELSE task[w] = {}

\* A closing call has withdrawn tasks only, and none once it has told them.
CallersHoldWithdrawn ==
  \A c \in Callers :
    /\ \A t \in caller[c].tasks : place[t] = "withdrawn"
    /\ caller[c].at # "telling" => caller[c].tasks = {}

\* Nobody shares a task.
NothingShared ==
  /\ \A w, v \in Threads : w # v => task[w] \cap task[v] = {}
  /\ \A c, d \in Callers : c # d => caller[c].tasks \cap caller[d].tasks = {}
  /\ \A w \in Threads, c \in Callers : task[w] \cap caller[c].tasks = {}

\* Work that left the queue unfinished is in somebody's hands.
NothingLost ==
  \A t \in Tasks : place[t] \in {"in_hand", "running", "withdrawn"} =>
    \/ \E w \in Threads : t \in task[w]
    \/ \E c \in Callers : t \in caller[c].tasks

WorkInv == /\ RunnerTypes
           /\ PendingIsCurrent
           /\ ThreadsHoldTheirTask
           /\ CallersHoldWithdrawn
           /\ NothingShared
           /\ NothingLost

\* A close refuses reservations and withdraws queued work of the current run,
\* and leaves every other task where it is.
LEMMA CloseMoves ==
  ASSUME RunnerTypes, NEW waits, CloseLocked(waits), NEW t \in Tasks
  PROVE  /\ run' = run
         /\ t \in Reserved(generation) => place'[t] = "refused"
         /\ t \in Drained(waits) => place[t] = "queued" /\ place'[t] = "withdrawn"
         /\ t \notin Reserved(generation) /\ t \notin Drained(waits)
              => place'[t] = place[t]
  BY DEF CloseLocked, Drained, InQueue, Reserved, RunnerTypes

\* A close by a caller that holds nothing yet gives it what was withdrawn.
LEMMA CloseKeepsWork ==
  ASSUME WorkInv, NEW c \in Callers, caller[c].at = "idle",
         NEW waits, NEW joins \in BOOLEAN,
         CloseLocked(waits), Call(c, Drained(waits), joins), task' = task,
         \A w \in Threads : at'[w] = at[w] \/ (at[w] = "absent" /\ at'[w] = "waiting")
  PROVE  /\ ThreadsHoldTheirTask'
         /\ CallersHoldWithdrawn'
         /\ NothingShared'
         /\ NothingLost'
         /\ \A t \in Tasks : place'[t] # "reserved"
<1> DEFINE drained == Drained(waits)
<1>1. \A t \in Tasks :
        /\ run' = run
        /\ t \in drained => place[t] = "queued" /\ place'[t] = "withdrawn"
        /\ place[t] = "reserved" => place'[t] = "refused"
        /\ t \notin drained /\ place[t] # "reserved" => place'[t] = place[t]
  BY CloseMoves DEF WorkInv, PendingIsCurrent, Reserved
<1>2. drained \subseteq Tasks
  BY DrainedTasks
<1>3. /\ \A d \in Callers : caller'[d].tasks =
            IF d = c THEN drained ELSE caller[d].tasks
      /\ \A d \in Callers : caller'[d].at = IF d = c THEN "telling" ELSE caller[d].at
  BY DEF Call, WorkInv, RunnerTypes
<1>4. caller[c].tasks = {}
  BY DEF WorkInv, CallersHoldWithdrawn
<1>5. \A d \in Callers : caller[d].tasks \subseteq Tasks
  BY DEF WorkInv, RunnerTypes, Calls
<1>6. \A w \in Threads : task[w] \subseteq Tasks
  BY DEF WorkInv, RunnerTypes
<1> HIDE DEF drained
<1>7. ThreadsHoldTheirTask'
  <2> SUFFICES ASSUME NEW w \in Threads
               PROVE  IF at'[w] \in Working
                      THEN \E t \in Tasks : /\ task'[w] = {t}
                                            /\ place'[t] = PlaceAt(at'[w])
                                            /\ run'[t] = w[1]
                      ELSE task'[w] = {}
    BY DEF ThreadsHoldTheirTask, PlaceAt
  <2>1. at[w] \in Working <=> at'[w] \in Working
    BY DEF Working
  <2>2. CASE at[w] \in Working
    <3>1. at'[w] = at[w]
      BY <2>2 DEF Working
    <3>2. PICK t \in Tasks : task[w] = {t} /\ place[t] = PlaceAt(at[w]) /\ run[t] = w[1]
      BY <2>2 DEF WorkInv, ThreadsHoldTheirTask
    <3>3. place[t] \in {"in_hand", "running", "withdrawn"}
      BY <2>2, <3>2 DEF PlaceAt, Working
    <3>4. place'[t] = place[t]
      BY <1>1, <3>3
    <3> QED BY <1>1, <2>1, <2>2, <3>1, <3>2, <3>4
  <2>3. CASE at[w] \notin Working
    BY <2>1, <2>3 DEF WorkInv, ThreadsHoldTheirTask
  <2> QED BY <2>2, <2>3
<1>8. CallersHoldWithdrawn'
  BY <1>1, <1>2, <1>3, <1>5 DEF WorkInv, CallersHoldWithdrawn
<1>9. \A w \in Threads : \A t \in task[w] : place[t] # "queued"
  BY DEF WorkInv, ThreadsHoldTheirTask, PlaceAt, Working
<1>10. \A d \in Callers : \A t \in caller[d].tasks : place[t] # "queued"
  BY DEF WorkInv, CallersHoldWithdrawn
<1>11. NothingShared'
  <2>1. \A w \in Threads : task[w] \cap drained = {}
    BY <1>1, <1>2, <1>9
  <2>2. \A d \in Callers : caller[d].tasks \cap drained = {}
    BY <1>1, <1>2, <1>10
  <2> QED BY <1>3, <2>1, <2>2 DEF WorkInv, NothingShared
<1>12. NothingLost'
  <2> SUFFICES ASSUME NEW t \in Tasks, place'[t] \in {"in_hand", "running", "withdrawn"}
               PROVE  \/ \E w \in Threads : t \in task[w]
                      \/ \E d \in Callers : t \in caller'[d].tasks
    BY DEF NothingLost
  <2>1. CASE t \in drained
    BY <1>3, <2>1
  <2>2. CASE t \notin drained
    <3>1. place[t] \in {"in_hand", "running", "withdrawn"}
      BY <1>1, <2>2
    <3> QED BY <1>3, <1>4, <3>1 DEF WorkInv, NothingLost
  <2> QED BY <2>1, <2>2
<1>13. \A t \in Tasks : place'[t] # "reserved"
  BY <1>1
<1> QED BY <1>7, <1>8, <1>11, <1>12, <1>13

\* A step that leaves the hands of everyone alone keeps the work in place.
LEMMA HandsUntouched ==
  ASSUME WorkInv, task' = task, run' = run,
         \A c \in Callers : /\ caller'[c].tasks = caller[c].tasks
                            /\ \/ caller'[c].at = caller[c].at
                               \/ caller[c].tasks = {},
         \A t \in Tasks : \/ place'[t] = place[t]
                          \/ /\ place[t] \in {"new", "reserved"}
                             /\ place'[t] \notin {"in_hand", "running", "withdrawn"},
         \A w \in Threads : \/ at'[w] = at[w]
                            \/ at[w] \notin Working /\ at'[w] \notin Working
  PROVE  /\ ThreadsHoldTheirTask'
         /\ CallersHoldWithdrawn'
         /\ NothingShared'
         /\ NothingLost'
<1>1. \A c \in Callers : caller[c].tasks \subseteq Tasks
  BY DEF WorkInv, RunnerTypes, Calls
<1>2. ThreadsHoldTheirTask'
  <2> SUFFICES ASSUME NEW w \in Threads
               PROVE  IF at'[w] \in Working
                      THEN \E t \in Tasks : /\ task'[w] = {t}
                                            /\ place'[t] = PlaceAt(at'[w])
                                            /\ run'[t] = w[1]
                      ELSE task'[w] = {}
    BY DEF ThreadsHoldTheirTask, PlaceAt
  <2>1. CASE at[w] \notin Working
    BY <2>1 DEF WorkInv, ThreadsHoldTheirTask
  <2>2. CASE at[w] \in Working
    <3>1. at'[w] = at[w]
      BY <2>2
    <3>2. PICK t \in Tasks : task[w] = {t} /\ place[t] = PlaceAt(at[w]) /\ run[t] = w[1]
      BY <2>2 DEF WorkInv, ThreadsHoldTheirTask
    <3>3. place[t] \notin {"new", "reserved"}
      BY <2>2, <3>2 DEF PlaceAt, Working
    <3> QED BY <2>2, <3>1, <3>2, <3>3
  <2> QED BY <2>1, <2>2
<1>3. CallersHoldWithdrawn'
  BY <1>1 DEF WorkInv, CallersHoldWithdrawn
<1>4. NothingShared'
  BY DEF WorkInv, NothingShared
<1>5. NothingLost'
  BY DEF WorkInv, NothingLost
<1> QED BY <1>2, <1>3, <1>4, <1>5

\* A thread that passes a task on: the task is the only one that moves, and
\* no other hand holds it.
LEMMA OneHandMoves ==
  ASSUME WorkInv, RunnerTypes', NEW w \in Threads, NEW t \in Tasks,
         task'[w] = {t} \/ task'[w] = {},
         \A v \in Threads : v # w => at'[v] = at[v] /\ task'[v] = task[v],
         \A u \in Tasks : u # t => place'[u] = place[u],
         \A v \in Threads : v # w => t \notin task[v],
         \A c \in Callers : t \notin caller[c].tasks,
         task[w] \subseteq {t},
         run' = run, caller' = caller,
         IF at'[w] \in Working
         THEN task'[w] = {t} /\ place'[t] = PlaceAt(at'[w]) /\ run[t] = w[1]
         ELSE task'[w] = {} /\ place'[t] \notin {"in_hand", "running", "withdrawn"}
  PROVE  /\ ThreadsHoldTheirTask'
         /\ CallersHoldWithdrawn'
         /\ NothingShared'
         /\ NothingLost'
<1>1. \A c \in Callers : caller[c].tasks \subseteq Tasks
  BY DEF WorkInv, RunnerTypes, Calls
<1>2. ThreadsHoldTheirTask'
  <2> SUFFICES ASSUME NEW v \in Threads
               PROVE  IF at'[v] \in Working
                      THEN \E u \in Tasks : /\ task'[v] = {u}
                                            /\ place'[u] = PlaceAt(at'[v])
                                            /\ run'[u] = v[1]
                      ELSE task'[v] = {}
    BY DEF ThreadsHoldTheirTask, PlaceAt
  <2>1. CASE v = w
    BY <2>1
  <2>2. CASE v # w /\ at[v] \notin Working
    BY <2>2 DEF WorkInv, ThreadsHoldTheirTask
  <2>3. CASE v # w /\ at[v] \in Working
    <3>1. PICK u \in Tasks : task[v] = {u} /\ place[u] = PlaceAt(at[v]) /\ run[u] = v[1]
      BY <2>3 DEF WorkInv, ThreadsHoldTheirTask
    <3>2. u # t
      BY <2>3, <3>1
    <3> QED BY <2>3, <3>1, <3>2
  <2> QED BY <2>1, <2>2, <2>3
<1>3. CallersHoldWithdrawn'
  BY <1>1 DEF WorkInv, CallersHoldWithdrawn
<1>4. NothingShared'
  <2>1. \A v \in Threads : v # w => task'[w] \cap task'[v] = {}
    OBVIOUS
  <2>2. \A c \in Callers : task'[w] \cap caller'[c].tasks = {}
    OBVIOUS
  <2> QED BY <2>1, <2>2 DEF WorkInv, NothingShared
<1>5. NothingLost'
  <2> SUFFICES ASSUME NEW u \in Tasks, place'[u] \in {"in_hand", "running", "withdrawn"}
               PROVE  \/ \E v \in Threads : u \in task'[v]
                      \/ \E c \in Callers : u \in caller'[c].tasks
    BY DEF NothingLost
  <2>1. CASE u = t
    BY <2>1
  <2>2. CASE u # t
    BY <2>2 DEF WorkInv, NothingLost
  <2> QED BY <2>1, <2>2
<1> QED BY <1>2, <1>3, <1>4, <1>5

\* start(), reserve(), commit() and rollback() leave every hand alone.
LEMMA AdmissionKeepsWork ==
  ASSUME WorkInv, RunnerTypes',
         Start \/ \E t \in Tasks : Reserve(t) \/ Commit(t) \/ Rollback(t)
  PROVE  WorkInv'
<1> USE DEF runVars, taskVars, threadVars
<1>1. \A r : \A w \in Threads :
        \/ Started(r)[w] = at[w]
        \/ at[w] \notin Working /\ Started(r)[w] \notin Working
  BY DEF Started, Working
<1>2. CASE Start
  <2>1. /\ task' = task /\ run' = run /\ place' = place /\ caller' = caller
        /\ \E r : at' = Started(r)
    BY <1>2 DEF Start, OpenNext
  <2>2. PendingIsCurrent'
    BY <1>2, <2>1 DEF Start, WorkInv, PendingIsCurrent, Open
  <2> QED BY <1>1, <2>1, <2>2, HandsUntouched DEF WorkInv
<1>3. ASSUME NEW t \in Tasks, Reserve(t)
      PROVE  WorkInv'
  <2>1. /\ task' = task /\ caller' = caller /\ Open /\ UNCHANGED <<generation, closed, mode>>
        /\ at' = Started(generation)
        /\ place[t] = "new" /\ place'[t] = "reserved" /\ run'[t] = generation
        /\ \A u \in Tasks : u # t => place'[u] = place[u] /\ run'[u] = run[u]
    BY <1>3 DEF Reserve, WorkInv, RunnerTypes
  <2>2. PendingIsCurrent'
    BY <2>1 DEF WorkInv, PendingIsCurrent, Open
  <2>3. ThreadsHoldTheirTask'
    <3> SUFFICES ASSUME NEW w \in Threads
                 PROVE  IF at'[w] \in Working
                        THEN \E u \in Tasks : /\ task'[w] = {u}
                                              /\ place'[u] = PlaceAt(at'[w])
                                              /\ run'[u] = w[1]
                        ELSE task'[w] = {}
      BY DEF ThreadsHoldTheirTask, PlaceAt
    <3>1. CASE at[w] \notin Working
      BY <1>1, <2>1, <3>1 DEF WorkInv, ThreadsHoldTheirTask
    <3>2. CASE at[w] \in Working
      <4>1. PICK u \in Tasks : task[w] = {u} /\ place[u] = PlaceAt(at[w]) /\ run[u] = w[1]
        BY <3>2 DEF WorkInv, ThreadsHoldTheirTask
      <4>2. u # t
        BY <2>1, <3>2, <4>1 DEF PlaceAt, Working
      <4> QED BY <1>1, <2>1, <3>2, <4>1, <4>2
    <3> QED BY <3>1, <3>2
  <2>4. \A c \in Callers : caller[c].tasks \subseteq Tasks
    BY DEF WorkInv, RunnerTypes, Calls
  <2>5. CallersHoldWithdrawn'
    BY <2>1, <2>4 DEF WorkInv, CallersHoldWithdrawn
  <2>6. NothingShared' /\ NothingLost'
    BY <2>1 DEF WorkInv, NothingShared, NothingLost
  <2> QED BY <2>2, <2>3, <2>5, <2>6 DEF WorkInv
<1>4. ASSUME NEW t \in Tasks, Commit(t) \/ Rollback(t)
      PROVE  WorkInv'
  <2>1. /\ task' = task /\ caller' = caller /\ run' = run /\ at' = at
        /\ UNCHANGED <<generation, closed, mode>>
        /\ place[t] = "reserved" /\ place'[t] \in {"queued", "refused", "rolled_back"}
        /\ \A u \in Tasks : u # t => place'[u] = place[u]
    BY <1>4 DEF Commit, Rollback, WorkInv, RunnerTypes
  <2>2. PendingIsCurrent'
    BY <2>1 DEF WorkInv, PendingIsCurrent, Open
  <2> QED BY <2>1, <2>2, HandsUntouched DEF WorkInv
<1> QED BY <1>2, <1>3, <1>4

\* A closing call takes queued work, and drops what it has told.
LEMMA CallersKeepWork ==
  ASSUME WorkInv, RunnerTypes', NEW c \in Callers,
         Shutdown(c) \/ Restart(c) \/ CallerStep(c)
  PROVE  WorkInv'
<1> USE DEF runVars, taskVars, threadVars
<1>1. CASE Shutdown(c)
  <2>1. PICK op \in Operations \ {"restart"} :
          LET drains == op = "drain"
          IN /\ caller[c].at = "idle"
             /\ CloseLocked(drains)
             /\ Call(c, Drained(drains), op # "shutdown")
             /\ UNCHANGED <<generation, active, slots, threadVars>>
    BY <1>1 DEF Shutdown
  <2>2. CloseLocked(op = "drain") /\ Call(c, Drained(op = "drain"), op # "shutdown")
    BY <2>1
  <2>3. caller[c].at = "idle" /\ task' = task /\ at' = at
    BY <2>1
  <2>4. /\ ThreadsHoldTheirTask' /\ CallersHoldWithdrawn'
        /\ NothingShared' /\ NothingLost'
        /\ \A t \in Tasks : place'[t] # "reserved"
    BY <2>2, <2>3, CloseKeepsWork
  <2> QED BY <2>4 DEF WorkInv, PendingIsCurrent
<1>2. CASE Restart(c)
  <2>1. /\ caller[c].at = "idle" /\ task' = task
        /\ CloseLocked(FALSE) /\ Call(c, Drained(FALSE), FALSE)
        /\ \A w \in Threads : at'[w] = at[w] \/ (at[w] = "absent" /\ at'[w] = "waiting")
    BY <1>2 DEF Restart, OpenNext, Started
  <2>2. /\ ThreadsHoldTheirTask' /\ CallersHoldWithdrawn'
        /\ NothingShared' /\ NothingLost'
        /\ \A t \in Tasks : place'[t] # "reserved"
    BY <2>1, CloseKeepsWork
  <2> QED BY <2>2 DEF WorkInv, PendingIsCurrent
<1>3. CASE TellNext(c)
  <2>1. PICK t \in caller[c].tasks :
          /\ place' = [place EXCEPT ![t] = "told"]
          /\ caller' = [caller EXCEPT ![c].tasks = @ \ {t}]
          /\ UNCHANGED <<runVars, run, accepted, active, unfinished, slots, threadVars>>
    BY <1>3 DEF TellNext
  <2>2. t \in Tasks /\ place[t] = "withdrawn"
    BY DEF WorkInv, RunnerTypes, Calls, CallersHoldWithdrawn
  <2>3. /\ place'[t] = "told"
        /\ \A u \in Tasks : u # t => place'[u] = place[u]
        /\ task' = task /\ at' = at /\ run' = run
        /\ caller'[c].tasks = caller[c].tasks \ {t}
        /\ caller'[c].at = caller[c].at
        /\ \A d \in Callers : d # c => caller'[d] = caller[d]
    BY <2>1, <2>2 DEF WorkInv, RunnerTypes, Calls
  <2>4. /\ \A w \in Threads : t \notin task[w]
        /\ \A d \in Callers : d # c => t \notin caller[d].tasks
    BY DEF WorkInv, NothingShared
  <2>5. \A d \in Callers : caller[d].tasks \subseteq Tasks
    BY DEF WorkInv, RunnerTypes, Calls
  <2>6. ThreadsHoldTheirTask'
    <3> SUFFICES ASSUME NEW w \in Threads
                 PROVE  IF at'[w] \in Working
                        THEN \E u \in Tasks : /\ task'[w] = {u}
                                              /\ place'[u] = PlaceAt(at'[w])
                                              /\ run'[u] = w[1]
                        ELSE task'[w] = {}
      BY DEF ThreadsHoldTheirTask, PlaceAt
    <3>1. CASE at[w] \notin Working
      BY <2>3, <3>1 DEF WorkInv, ThreadsHoldTheirTask
    <3>2. CASE at[w] \in Working
      <4>1. PICK u \in Tasks : task[w] = {u} /\ place[u] = PlaceAt(at[w]) /\ run[u] = w[1]
        BY <3>2 DEF WorkInv, ThreadsHoldTheirTask
      <4> QED BY <2>3, <2>4, <3>2, <4>1
    <3> QED BY <3>1, <3>2
  <2>7. CallersHoldWithdrawn'
    <3> SUFFICES ASSUME NEW d \in Callers
                 PROVE  /\ \A u \in caller'[d].tasks : place'[u] = "withdrawn"
                        /\ caller'[d].at # "telling" => caller'[d].tasks = {}
      BY DEF CallersHoldWithdrawn
    <3>1. CASE d = c
      BY <1>3, <2>3, <2>5, <3>1 DEF TellNext, WorkInv, CallersHoldWithdrawn
    <3>2. CASE d # c
      BY <2>3, <2>4, <2>5, <3>2 DEF WorkInv, CallersHoldWithdrawn
    <3> QED BY <3>1, <3>2
  <2>8. NothingShared'
    BY <2>3 DEF WorkInv, NothingShared
  <2>9. NothingLost'
    BY <2>3 DEF WorkInv, NothingLost
  <2>10. PendingIsCurrent'
    BY <2>1, <2>3 DEF WorkInv, PendingIsCurrent, Open
  <2> QED BY <2>6, <2>7, <2>8, <2>9, <2>10 DEF WorkInv
<1>4. CASE ToldAll(c) \/ Return(c)
  <2>1. /\ task' = task /\ run' = run /\ place' = place /\ at' = at
        /\ UNCHANGED <<generation, closed, mode>>
    BY <1>4 DEF ToldAll, Return
  <2>2. \A d \in Callers : /\ caller'[d].tasks = caller[d].tasks
                           /\ \/ caller'[d].at = caller[d].at
                              \/ caller[d].tasks = {}
    <3>1. caller[c].tasks = {}
      BY <1>4 DEF ToldAll, Return, WorkInv, CallersHoldWithdrawn
    <3> QED BY <1>4, <3>1 DEF ToldAll, Return, WorkInv, RunnerTypes, Calls
  <2>3. PendingIsCurrent'
    BY <2>1 DEF WorkInv, PendingIsCurrent, Open
  <2> QED BY <2>1, <2>2, <2>3, HandsUntouched DEF WorkInv
<1> QED BY <1>1, <1>2, <1>3, <1>4 DEF CallerStep

\* A thread takes its task from the queue and gives it up when it is settled.
LEMMA ThreadsKeepWork ==
  ASSUME WorkInv, RunnerTypes', NEW w \in Threads, ThreadStep(w)
  PROVE  WorkInv'
<1> USE DEF runVars, taskVars, threadVars
<1>1. PendingIsCurrent'
  <2>1. /\ UNCHANGED <<generation, closed, mode>> /\ run' = run
        /\ \A t \in Tasks : place'[t] = "reserved" => place[t] = "reserved"
    BY DEF ThreadStep, AcquireSlot, TakeTask, PollTimesOut, LookAtMode, Begin,
           Withdraw, Tell, Finish, Leave, WorkInv, RunnerTypes
  <2> QED BY <2>1 DEF WorkInv, PendingIsCurrent, Open
<1>2. CASE AcquireSlot(w) \/ PollTimesOut(w) \/ LookAtMode(w) \/ Leave(w)
  <2>1. /\ task' = task /\ run' = run /\ place' = place /\ caller' = caller
        /\ \A v \in Threads : at'[v] = at[v] \/ (at[v] \notin Working /\ at'[v] \notin Working)
    BY <1>2 DEF AcquireSlot, PollTimesOut, LookAtMode, Leave, WorkInv, RunnerTypes, Working
  <2> QED BY <1>1, <2>1, HandsUntouched DEF WorkInv
<1>3. CASE TakeTask(w)
  <2>1. PICK t \in InQueue(w[1]) :
          place' = [place EXCEPT ![t] = "in_hand"] /\ task' = [task EXCEPT ![w] = {t}]
    BY <1>3 DEF TakeTask
  <2>2. t \in Tasks /\ place[t] = "queued" /\ run[t] = w[1]
    BY DEF InQueue
  <2>3. \A v \in Threads : t \notin task[v]
    BY <2>2 DEF WorkInv, ThreadsHoldTheirTask, PlaceAt, Working
  <2>4. \A c \in Callers : t \notin caller[c].tasks
    BY <2>2 DEF WorkInv, CallersHoldWithdrawn
  <2>5. task[w] = {}
    BY <1>3 DEF TakeTask, WorkInv, ThreadsHoldTheirTask, Working
  <2>6. /\ task'[w] = {t} /\ at'[w] = "in_hand" /\ place'[t] = "in_hand"
        /\ \A v \in Threads : v # w => at'[v] = at[v] /\ task'[v] = task[v]
        /\ \A u \in Tasks : u # t => place'[u] = place[u]
        /\ run' = run /\ caller' = caller
    BY <1>3, <2>1, <2>2 DEF TakeTask, WorkInv, RunnerTypes
  <2>7. /\ ThreadsHoldTheirTask' /\ CallersHoldWithdrawn'
        /\ NothingShared' /\ NothingLost'
    BY <2>2, <2>3, <2>4, <2>5, <2>6, OneHandMoves DEF PlaceAt, Working
  <2> QED BY <1>1, <2>7 DEF WorkInv
<1>4. CASE Begin(w) \/ Withdraw(w) \/ Tell(w) \/ Finish(w)
  <2>1. at[w] \in Working
    BY <1>4 DEF Begin, Withdraw, Tell, Finish, Working
  <2>2. PICK t \in Tasks : task[w] = {t} /\ place[t] = PlaceAt(at[w]) /\ run[t] = w[1]
    BY <2>1 DEF WorkInv, ThreadsHoldTheirTask
  <2>3. \A v \in Threads : v # w => t \notin task[v]
    BY <2>2 DEF WorkInv, NothingShared
  <2>4. \A c \in Callers : t \notin caller[c].tasks
    BY <2>2 DEF WorkInv, NothingShared
  <2>5. /\ \A v \in Threads : v # w => at'[v] = at[v] /\ task'[v] = task[v]
        /\ \A u \in Tasks : u # t => place'[u] = place[u]
        /\ run' = run /\ caller' = caller
    BY <1>4, <2>2 DEF Begin, Withdraw, Tell, Finish, WorkInv, RunnerTypes
  <2>6. /\ Begin(w) => task'[w] = {t} /\ at'[w] = "running" /\ place'[t] = "running"
        /\ Withdraw(w) => task'[w] = {t} /\ at'[w] = "telling" /\ place'[t] = "withdrawn"
        /\ Tell(w) => task'[w] = {} /\ at'[w] = "leaving" /\ place'[t] = "told"
        /\ Finish(w) => task'[w] = {} /\ at'[w] = "polling" /\ place'[t] = "finished"
    BY <2>2 DEF Begin, Withdraw, Tell, Finish, WorkInv, RunnerTypes
  <2>7. IF at'[w] \in Working
        THEN task'[w] = {t} /\ place'[t] = PlaceAt(at'[w]) /\ run[t] = w[1]
        ELSE task'[w] = {} /\ place'[t] \notin {"in_hand", "running", "withdrawn"}
    BY <1>4, <2>2, <2>6 DEF PlaceAt, Working
  <2>8. task'[w] = {t} \/ task'[w] = {}
    BY <2>7
  <2>9. /\ ThreadsHoldTheirTask' /\ CallersHoldWithdrawn'
        /\ NothingShared' /\ NothingLost'
    BY <2>2, <2>3, <2>4, <2>5, <2>7, <2>8, OneHandMoves
  <2> QED BY <1>1, <2>9 DEF WorkInv
<1> QED BY <1>2, <1>3, <1>4 DEF ThreadStep

\* Where each task is, is invariant.
LEMMA WorkStep ==
  ASSUME WorkInv, [Next]_vars
  PROVE  WorkInv'
<1>1. RunnerTypes'
  BY TypesStep DEF WorkInv
<1>2. CASE UNCHANGED vars
  BY <1>1, <1>2 DEF vars, runVars, taskVars, threadVars, WorkInv, PendingIsCurrent,
                    Open, ThreadsHoldTheirTask, PlaceAt, CallersHoldWithdrawn,
                    NothingShared, NothingLost
<1> QED BY <1>1, <1>2, AdmissionKeepsWork, CallersKeepWork, ThreadsKeepWork DEF Next

\* At first no task has been reserved and nobody holds any.
LEMMA WorkInit ==
  ASSUME Init
  PROVE  WorkInv
<1>1. 1 \in Runs
  BY RunnerAssumption DEF RunnerAssumption, Runs
<1>2. Idle \in Calls
  BY <1>1 DEF Idle, Calls
<1>3. slots \in Int
  BY RunnerAssumption DEF RunnerAssumption, Init
<1>4. RunnerTypes
  <2>1. mode \in [Runs -> {"unborn", "running", "draining", "cancelled"}]
    BY DEF Init
  <2>2. place \in [Tasks -> Places] /\ run \in [Tasks -> Runs]
    BY <1>1 DEF Init, Places
  <2>3. at \in [Threads -> ThreadStates] /\ task \in [Threads -> SUBSET Tasks]
    BY DEF Init, ThreadStates
  <2>4. unfinished \in [Runs -> Int] /\ accepted \in Int /\ active \in Int
    BY DEF Init
  <2>5. caller \in [Callers -> Calls]
    BY <1>2 DEF Init
  <2> QED BY <1>1, <1>3, <2>1, <2>2, <2>3, <2>4, <2>5 DEF Init, RunnerTypes
<1>5. ThreadsHoldTheirTask
  BY DEF Init, ThreadsHoldTheirTask, Working
<1>6. \A c \in Callers : caller[c].tasks = {}
  BY DEF Init, Idle
<1>7. CallersHoldWithdrawn /\ NothingShared
  BY <1>6 DEF Init, CallersHoldWithdrawn, NothingShared
<1>8. PendingIsCurrent /\ NothingLost
  BY DEF Init, PendingIsCurrent, NothingLost
<1> QED BY <1>4, <1>5, <1>7, <1>8 DEF WorkInv

-----------------------------------------------------------------------------
(* The counters are the sizes of the sets they stand for.                  *)

SeatedThreads == {w \in Threads : at[w] \in Seated}
RunningThreads == {w \in Threads : at[w] = "running"}

\* Work of a run that entered its queue and has not been given back.
Undone(r) ==
  {t \in Tasks : place[t] \in {"queued", "in_hand", "running"} /\ run[t] = r}

AcceptedCounted == accepted = Cardinality(HeldTasks) /\ accepted <= Capacity
UnfinishedCounted == \A r \in Runs : unfinished[r] = Cardinality(Undone(r))
ThreadsCounted == /\ active = Cardinality(RunningThreads)
                  /\ slots = MaxWorkers - Cardinality(SeatedThreads)
                  /\ slots >= 0

CountInv == WorkInv /\ AcceptedCounted /\ UnfinishedCounted /\ ThreadsCounted

\* Sets that gain or lose one element.
LEMMA OneMore ==
  ASSUME NEW S, IsFiniteSet(S), NEW x, x \notin S
  PROVE  Cardinality(S \cup {x}) = Cardinality(S) + 1
  BY FS_AddElement

\* As OneMore, for an element that is removed.
LEMMA OneLess ==
  ASSUME NEW S, IsFiniteSet(S), NEW x \in S
  PROVE  Cardinality(S \ {x}) = Cardinality(S) - 1
  BY FS_RemoveElement

\* A set that loses a subset loses its size.
LEMMA AllLess ==
  ASSUME NEW S, IsFiniteSet(S), NEW T \in SUBSET S
  PROVE  /\ Cardinality(S \ T) = Cardinality(S) - Cardinality(T)
         /\ Cardinality(T) \in Nat
         /\ Cardinality(S) \in Nat
<1>1. S \cap T = T
  OBVIOUS
<1> QED BY <1>1, FS_Difference, FS_Subset, FS_CardinalityType, ZenonT(60)

\* The step of a thread that has a task in hand, by its effect on the task.
LEMMA TaskInHand ==
  ASSUME WorkInv, NEW w \in Threads, Begin(w) \/ Withdraw(w) \/ Tell(w) \/ Finish(w)
  PROVE  \E t \in Tasks :
           /\ run[t] = w[1] /\ run' = run
           /\ \A u \in Tasks : u # t => place'[u] = place[u]
           /\ Begin(w) => place[t] = "in_hand" /\ place'[t] = "running"
           /\ Withdraw(w) => place[t] = "in_hand" /\ place'[t] = "withdrawn"
           /\ Tell(w) => place[t] = "withdrawn" /\ place'[t] = "told"
           /\ Finish(w) => place[t] = "running" /\ place'[t] = "finished"
<1>1. at[w] \in Working
  BY DEF Begin, Withdraw, Tell, Finish, Working
<1>2. PICK t \in Tasks : task[w] = {t} /\ place[t] = PlaceAt(at[w]) /\ run[t] = w[1]
  BY <1>1 DEF WorkInv, ThreadsHoldTheirTask
<1>3. /\ Begin(w) => at[w] = "in_hand" /\ place'[t] = "running"
      /\ Withdraw(w) => at[w] = "in_hand" /\ place'[t] = "withdrawn"
      /\ Tell(w) => at[w] = "telling" /\ place'[t] = "told"
      /\ Finish(w) => at[w] = "running" /\ place'[t] = "finished"
  BY <1>2 DEF Begin, Withdraw, Tell, Finish, WorkInv, RunnerTypes
<1>4. /\ run' = run
      /\ \A u \in Tasks : u # t => place'[u] = place[u]
  BY <1>2 DEF Begin, Withdraw, Tell, Finish, WorkInv, RunnerTypes, taskVars
<1> QED BY <1>2, <1>3, <1>4 DEF PlaceAt

\* A close gives back one unit for everything it takes.
LEMMA CloseCounts ==
  ASSUME CountInv, NEW waits, CloseLocked(waits)
  PROVE  AcceptedCounted' /\ UnfinishedCounted'
<1> DEFINE drained == Drained(waits)
           refused == Reserved(generation)
<1>1. /\ drained \subseteq InQueue(generation) /\ drained \subseteq Tasks
      /\ refused \subseteq Tasks
  BY DrainedTasks
<1>2. \A t \in Tasks :
        /\ run' = run
        /\ t \in refused => place[t] = "reserved" /\ place'[t] = "refused"
        /\ t \in drained => place[t] = "queued" /\ place'[t] = "withdrawn"
        /\ t \notin refused /\ t \notin drained => place'[t] = place[t]
  BY CloseMoves DEF CountInv, WorkInv, Reserved
<1>3. /\ accepted' = accepted - Cardinality(refused \cup drained)
      /\ unfinished' = [unfinished EXCEPT ![generation] = @ - Cardinality(drained)]
  BY DEF CloseLocked
<1>4. \A t \in drained : run[t] = generation
  BY <1>1 DEF InQueue
<1> HIDE DEF drained, refused
<1>5. AcceptedCounted'
  <2>1. HeldTasks' = HeldTasks \ (refused \cup drained)
    BY <1>1, <1>2 DEF HeldTasks, Held
  <2>2. (refused \cup drained) \in SUBSET HeldTasks
    BY <1>1, <1>2 DEF HeldTasks, Held
  <2>3. IsFiniteSet(HeldTasks)
    BY FiniteTasksAndThreads DEF HeldTasks
  <2>4. /\ Cardinality(HeldTasks \ (refused \cup drained))
              = Cardinality(HeldTasks) - Cardinality(refused \cup drained)
        /\ Cardinality(refused \cup drained) \in Nat
        /\ Cardinality(HeldTasks) \in Nat
    BY <2>2, <2>3, AllLess
  <2>5. Capacity \in Int /\ Capacity' = Capacity
    BY RunnerAssumption DEF RunnerAssumption, Capacity
  <2> QED BY <1>3, <2>1, <2>4, <2>5 DEF CountInv, AcceptedCounted
<1>6. UnfinishedCounted'
  <2> SUFFICES ASSUME NEW r \in Runs
               PROVE  unfinished'[r] = Cardinality(Undone(r)')
    BY DEF UnfinishedCounted
  <2>1. unfinished \in [Runs -> Int] /\ unfinished[r] = Cardinality(Undone(r))
    BY DEF CountInv, WorkInv, RunnerTypes, UnfinishedCounted
  <2>2. CASE r = generation
    <3>1. Undone(r)' = Undone(r) \ drained
      BY <1>1, <1>2, <1>4, <2>2 DEF Undone
    <3>2. drained \in SUBSET Undone(r)
      BY <1>1, <1>2, <1>4, <2>2 DEF Undone
    <3>3. IsFiniteSet(Undone(r))
      BY FiniteTasksAndThreads DEF Undone
    <3>4. Cardinality(Undone(r) \ drained) = Cardinality(Undone(r)) - Cardinality(drained)
      BY <3>2, <3>3, AllLess
    <3> QED BY <1>3, <2>1, <2>2, <3>1, <3>4
  <2>3. CASE r # generation
    <3>1. Undone(r)' = Undone(r)
      BY <1>1, <1>2, <1>4, <2>3 DEF Undone
    <3> QED BY <1>3, <2>1, <2>3, <3>1
  <2> QED BY <2>2, <2>3
<1> QED BY <1>5, <1>6

\* Steps that move no task across the border of HeldTasks or Undone.
LEMMA CountsUntouched ==
  ASSUME CountInv, accepted' = accepted, unfinished' = unfinished,
         \A t \in Tasks :
           /\ place'[t] \in Held <=> place[t] \in Held
           /\ place'[t] \in {"queued", "in_hand", "running"}
                <=> place[t] \in {"queued", "in_hand", "running"}
           /\ \/ run'[t] = run[t]
              \/ place[t] \notin {"queued", "in_hand", "running"}
  PROVE  AcceptedCounted' /\ UnfinishedCounted'
<1>1. HeldTasks' = HeldTasks
  BY DEF HeldTasks
<1>2. \A r \in Runs : Undone(r)' = Undone(r)
  BY DEF Undone
<1> QED BY <1>1, <1>2 DEF CountInv, AcceptedCounted, UnfinishedCounted, Capacity

\* Held work of which one task is given back.
LEMMA HeldLess ==
  ASSUME CountInv, NEW t \in Tasks, place[t] \in Held, place'[t] \notin Held,
         \A u \in Tasks : u # t => place'[u] = place[u],
         accepted' = accepted - 1
  PROVE  AcceptedCounted'
<1>1. HeldTasks' = HeldTasks \ {t} /\ t \in HeldTasks
  BY DEF HeldTasks
<1>2. IsFiniteSet(HeldTasks) /\ Cardinality(HeldTasks) \in Nat
  BY FiniteTasksAndThreads DEF HeldTasks
<1>3. Cardinality(HeldTasks \ {t}) = Cardinality(HeldTasks) - 1
  BY <1>1, <1>2, OneLess
<1>4. Capacity \in Int /\ Capacity' = Capacity
  BY RunnerAssumption DEF RunnerAssumption, Capacity
<1> QED BY <1>1, <1>2, <1>3, <1>4 DEF CountInv, AcceptedCounted

\* Undone work of which one task is done.
LEMMA UndoneLess ==
  ASSUME CountInv, NEW t \in Tasks,
         place[t] \in {"in_hand", "running"},
         place'[t] \notin {"queued", "in_hand", "running"},
         run' = run,
         \A u \in Tasks : u # t => place'[u] = place[u],
         unfinished' = [unfinished EXCEPT ![run[t]] = @ - 1]
  PROVE  UnfinishedCounted'
<1> SUFFICES ASSUME NEW r \in Runs
             PROVE  unfinished'[r] = Cardinality(Undone(r)')
  BY DEF UnfinishedCounted
<1>1. unfinished \in [Runs -> Int] /\ unfinished[r] = Cardinality(Undone(r))
  BY DEF CountInv, WorkInv, RunnerTypes, UnfinishedCounted
<1>2. CASE r = run[t]
  <2>1. Undone(r)' = Undone(r) \ {t} /\ t \in Undone(r)
    BY <1>2 DEF Undone
  <2>2. IsFiniteSet(Undone(r))
    BY FiniteTasksAndThreads DEF Undone
  <2>3. Cardinality(Undone(r) \ {t}) = Cardinality(Undone(r)) - 1
    BY <2>1, <2>2, OneLess
  <2> QED BY <1>1, <1>2, <2>1, <2>3
<1>3. CASE r # run[t]
  <2>1. Undone(r)' = Undone(r)
    BY <1>3 DEF Undone
  <2> QED BY <1>1, <1>3, <2>1
<1> QED BY <1>2, <1>3

\* Admission counts what it admits.
LEMMA AdmissionCounts ==
  ASSUME CountInv, NEW t \in Tasks, Reserve(t) \/ Commit(t) \/ Rollback(t)
  PROVE  AcceptedCounted' /\ UnfinishedCounted'
<1>0. /\ accepted = Cardinality(HeldTasks) /\ accepted <= Capacity
      /\ IsFiniteSet(HeldTasks) /\ Cardinality(HeldTasks) \in Nat
      /\ Capacity \in Int /\ Capacity' = Capacity
  BY RunnerAssumption, FiniteTasksAndThreads
     DEF RunnerAssumption, Capacity, CountInv, AcceptedCounted, HeldTasks
<1>1. CASE Reserve(t)
  <2>1. /\ place[t] = "new" /\ place'[t] = "reserved"
        /\ \A u \in Tasks : u # t => place'[u] = place[u] /\ run'[u] = run[u]
        /\ accepted < Capacity /\ accepted' = accepted + 1 /\ unfinished' = unfinished
    BY <1>1 DEF Reserve, HasCapacity, CountInv, WorkInv, RunnerTypes
  <2>2. HeldTasks' = HeldTasks \cup {t} /\ t \notin HeldTasks
    BY <2>1 DEF HeldTasks, Held
  <2>3. Cardinality(HeldTasks \cup {t}) = Cardinality(HeldTasks) + 1
    BY <1>0, <2>2, OneMore
  <2>4. AcceptedCounted'
    BY <1>0, <2>1, <2>2, <2>3 DEF AcceptedCounted
  <2>5. \A r \in Runs : Undone(r)' = Undone(r)
    BY <2>1 DEF Undone
  <2> QED BY <2>1, <2>4, <2>5 DEF CountInv, UnfinishedCounted
<1>2. CASE Rollback(t) \/ (Commit(t) /\ ~Admissible(t))
  <2>1. /\ place[t] = "reserved" /\ place'[t] \in {"rolled_back", "refused"}
        /\ \A u \in Tasks : u # t => place'[u] = place[u]
        /\ run' = run /\ accepted' = accepted - 1 /\ unfinished' = unfinished
    BY <1>2 DEF Rollback, Commit, CountInv, WorkInv, RunnerTypes
  <2>2. AcceptedCounted'
    BY <2>1, HeldLess DEF Held
  <2>3. \A r \in Runs : Undone(r)' = Undone(r)
    BY <2>1 DEF Undone
  <2> QED BY <2>1, <2>2, <2>3 DEF CountInv, UnfinishedCounted
<1>3. CASE Commit(t) /\ Admissible(t)
  <2>1. /\ place[t] = "reserved" /\ place'[t] = "queued"
        /\ \A u \in Tasks : u # t => place'[u] = place[u]
        /\ run' = run /\ accepted' = accepted
        /\ unfinished' = [unfinished EXCEPT ![run[t]] = @ + 1]
    BY <1>3 DEF Commit, CountInv, WorkInv, RunnerTypes
  <2>2. HeldTasks' = HeldTasks
    BY <2>1 DEF HeldTasks, Held
  <2>3. ASSUME NEW r \in Runs
        PROVE  unfinished'[r] = Cardinality(Undone(r)')
    <3>1. unfinished \in [Runs -> Int] /\ unfinished[r] = Cardinality(Undone(r))
      BY DEF CountInv, WorkInv, RunnerTypes, UnfinishedCounted
    <3>2. CASE r = run[t]
      <4>1. Undone(r)' = Undone(r) \cup {t} /\ t \notin Undone(r)
        BY <2>1, <3>2 DEF Undone
      <4>2. IsFiniteSet(Undone(r))
        BY FiniteTasksAndThreads DEF Undone
      <4>3. Cardinality(Undone(r) \cup {t}) = Cardinality(Undone(r)) + 1
        BY <4>1, <4>2, OneMore
      <4> QED BY <2>1, <3>1, <3>2, <4>1, <4>3
    <3>3. CASE r # run[t]
      <4>1. Undone(r)' = Undone(r)
        BY <2>1, <3>3 DEF Undone
      <4> QED BY <2>1, <3>1, <3>3, <4>1
    <3> QED BY <3>2, <3>3
  <2> QED BY <1>0, <2>1, <2>2, <2>3 DEF AcceptedCounted, UnfinishedCounted
<1> QED BY <1>1, <1>2, <1>3

\* A thread gives back one unit when its task finishes or is withdrawn.
LEMMA ThreadCounts ==
  ASSUME CountInv, NEW w \in Threads, ThreadStep(w)
  PROVE  AcceptedCounted' /\ UnfinishedCounted'
<1> USE DEF runVars, taskVars
<1>1. CASE AcquireSlot(w) \/ PollTimesOut(w) \/ LookAtMode(w) \/ Leave(w)
  <2>1. /\ place' = place /\ run' = run /\ accepted' = accepted /\ unfinished' = unfinished
    BY <1>1 DEF AcquireSlot, PollTimesOut, LookAtMode, Leave
  <2> QED BY <2>1, CountsUntouched
<1>2. CASE TakeTask(w)
  <2>1. PICK t \in InQueue(w[1]) : place' = [place EXCEPT ![t] = "in_hand"]
    BY <1>2 DEF TakeTask
  <2>2. /\ t \in Tasks /\ place[t] = "queued" /\ place'[t] = "in_hand"
        /\ \A u \in Tasks : u # t => place'[u] = place[u]
    BY <2>1 DEF InQueue, CountInv, WorkInv, RunnerTypes
  <2>3. run' = run /\ accepted' = accepted /\ unfinished' = unfinished
    BY <1>2 DEF TakeTask
  <2> QED BY <2>2, <2>3, CountsUntouched DEF Held
<1>3. CASE Begin(w) \/ Withdraw(w) \/ Tell(w) \/ Finish(w)
  <2>1. PICK t \in Tasks :
           /\ run[t] = w[1] /\ run' = run
           /\ \A u \in Tasks : u # t => place'[u] = place[u]
           /\ Begin(w) => place[t] = "in_hand" /\ place'[t] = "running"
           /\ Withdraw(w) => place[t] = "in_hand" /\ place'[t] = "withdrawn"
           /\ Tell(w) => place[t] = "withdrawn" /\ place'[t] = "told"
           /\ Finish(w) => place[t] = "running" /\ place'[t] = "finished"
    BY <1>3, TaskInHand DEF CountInv
  <2>2. CASE Begin(w) \/ Tell(w)
    <3>1. accepted' = accepted /\ unfinished' = unfinished
      BY <2>2 DEF Begin, Tell
    <3> QED BY <2>1, <2>2, <3>1, CountsUntouched DEF Held
  <2>3. CASE Withdraw(w) \/ Finish(w)
    <3>1. accepted' = accepted - 1 /\ unfinished' = [unfinished EXCEPT ![run[t]] = @ - 1]
      BY <2>1, <2>3 DEF Withdraw, Finish, Released
    <3>2. AcceptedCounted'
      BY <2>1, <2>3, <3>1, HeldLess DEF Held
    <3>3. UnfinishedCounted'
      BY <2>1, <2>3, <3>1, UndoneLess
    <3> QED BY <3>2, <3>3
  <2> QED BY <1>3, <2>2, <2>3
<1> QED BY <1>1, <1>2, <1>3 DEF ThreadStep

\* The semaphore counts the seated threads, _active the running ones.
LEMMA ThreadsCountedStep ==
  ASSUME CountInv, [Next]_vars
  PROVE  ThreadsCounted'
<1> USE DEF runVars, taskVars, threadVars
<1>0. /\ IsFiniteSet(SeatedThreads) /\ IsFiniteSet(RunningThreads)
      /\ Cardinality(SeatedThreads) \in Nat /\ Cardinality(RunningThreads) \in Nat
      /\ MaxWorkers \in Nat
      /\ active = Cardinality(RunningThreads)
      /\ slots = MaxWorkers - Cardinality(SeatedThreads)
      /\ slots >= 0
  BY FiniteTasksAndThreads, RunnerAssumption
     DEF RunnerAssumption, SeatedThreads, RunningThreads, CountInv, ThreadsCounted
<1>1. ASSUME active' = active, slots' = slots,
             \A w \in Threads : /\ at'[w] \in Seated <=> at[w] \in Seated
                                /\ at'[w] = "running" <=> at[w] = "running"
      PROVE  ThreadsCounted'
  <2>1. SeatedThreads' = SeatedThreads /\ RunningThreads' = RunningThreads
    BY <1>1 DEF SeatedThreads, RunningThreads
  <2> QED BY <1>1, <2>1 DEF CountInv, ThreadsCounted
<1>2. CASE Start \/ (\E c \in Callers : Restart(c))
  <2>1. \E r : at' = Started(r) \/ at' = at
    BY <1>2 DEF Start, Restart, OpenNext
  <2>2. \A w \in Threads : /\ at'[w] \in Seated <=> at[w] \in Seated
                           /\ at'[w] = "running" <=> at[w] = "running"
    BY <2>1 DEF Started, Seated
  <2> QED BY <1>1, <1>2, <2>2 DEF Start, Restart
<1>3. CASE \E c \in Callers : Shutdown(c) \/ CallerStep(c)
  BY <1>1, <1>3 DEF Shutdown, CallerStep, TellNext, ToldAll, Return
<1>4. CASE \E t \in Tasks : Reserve(t) \/ Commit(t) \/ Rollback(t)
  <2>1. \E r : at' = Started(r) \/ at' = at
    BY <1>4 DEF Reserve, Commit, Rollback
  <2>2. \A w \in Threads : /\ at'[w] \in Seated <=> at[w] \in Seated
                           /\ at'[w] = "running" <=> at[w] = "running"
    BY <2>1 DEF Started, Seated
  <2> QED BY <1>1, <1>4, <2>2 DEF Reserve, Commit, Rollback
<1>5. ASSUME NEW w \in Threads, ThreadStep(w)
      PROVE  ThreadsCounted'
  <2>0. /\ at \in [Threads -> ThreadStates]
        /\ \A s \in ThreadStates : at' = [at EXCEPT ![w] = s]
              => at'[w] = s /\ \A v \in Threads : v # w => at'[v] = at[v]
    BY DEF CountInv, WorkInv, RunnerTypes
  <2>1. CASE PollTimesOut(w) \/ LookAtMode(w) \/ TakeTask(w) \/ Withdraw(w) \/ Tell(w)
    BY <1>1, <2>0, <2>1
       DEF PollTimesOut, LookAtMode, TakeTask, Withdraw, Tell, Seated, ThreadStates
  <2>2. CASE AcquireSlot(w)
    <3>1. /\ at[w] = "waiting" /\ at'[w] = "polling" /\ slots > 0
          /\ slots' = slots - 1 /\ active' = active
          /\ \A v \in Threads : v # w => at'[v] = at[v]
      BY <2>0, <2>2 DEF AcquireSlot, SlotAvailable, ThreadStates, Seated
    <3>2. /\ SeatedThreads' = SeatedThreads \cup {w} /\ w \notin SeatedThreads
          /\ RunningThreads' = RunningThreads
      BY <3>1 DEF SeatedThreads, RunningThreads, Seated
    <3>3. Cardinality(SeatedThreads \cup {w}) = Cardinality(SeatedThreads) + 1
      BY <1>0, <3>2, OneMore
    <3> QED BY <1>0, <3>1, <3>2, <3>3 DEF ThreadsCounted
  <2>3. CASE Leave(w)
    <3>1. /\ at[w] = "leaving" /\ at'[w] = "gone"
          /\ slots' = slots + 1 /\ active' = active
          /\ \A v \in Threads : v # w => at'[v] = at[v]
      BY <2>0, <2>3 DEF Leave, ThreadStates, Seated
    <3>2. /\ SeatedThreads' = SeatedThreads \ {w} /\ w \in SeatedThreads
          /\ RunningThreads' = RunningThreads
      BY <3>1 DEF SeatedThreads, RunningThreads, Seated
    <3>3. Cardinality(SeatedThreads \ {w}) = Cardinality(SeatedThreads) - 1
      BY <1>0, <3>2, OneLess
    <3> QED BY <1>0, <3>1, <3>2, <3>3 DEF ThreadsCounted
  <2>4. CASE Begin(w)
    <3>1. /\ at[w] = "in_hand" /\ at'[w] = "running"
          /\ slots' = slots /\ active' = active + 1
          /\ \A v \in Threads : v # w => at'[v] = at[v]
      BY <2>0, <2>4 DEF Begin, ThreadStates, Seated
    <3>2. /\ RunningThreads' = RunningThreads \cup {w} /\ w \notin RunningThreads
          /\ SeatedThreads' = SeatedThreads
      BY <3>1 DEF SeatedThreads, RunningThreads, Seated
    <3>3. Cardinality(RunningThreads \cup {w}) = Cardinality(RunningThreads) + 1
      BY <1>0, <3>2, OneMore
    <3> QED BY <1>0, <3>1, <3>2, <3>3 DEF ThreadsCounted
  <2>5. CASE Finish(w)
    <3>1. /\ at[w] = "running" /\ at'[w] = "polling"
          /\ slots' = slots /\ active' = active - 1
          /\ \A v \in Threads : v # w => at'[v] = at[v]
      BY <2>0, <2>5 DEF Finish, ThreadStates, Seated
    <3>2. /\ RunningThreads' = RunningThreads \ {w} /\ w \in RunningThreads
          /\ SeatedThreads' = SeatedThreads
      BY <3>1 DEF SeatedThreads, RunningThreads, Seated
    <3>3. Cardinality(RunningThreads \ {w}) = Cardinality(RunningThreads) - 1
      BY <1>0, <3>2, OneLess
    <3> QED BY <1>0, <3>1, <3>2, <3>3 DEF ThreadsCounted
  <2> QED BY <1>5, <2>1, <2>2, <2>3, <2>4, <2>5 DEF ThreadStep
<1>6. CASE UNCHANGED vars
  BY <1>1, <1>6 DEF vars
<1> QED BY <1>2, <1>3, <1>4, <1>5, <1>6 DEF Next

\* At first the counters are zero and so are their sets.
LEMMA CountInit ==
  ASSUME Init
  PROVE  CountInv
<1>1. WorkInv
  BY WorkInit
<1>2. HeldTasks = {} /\ SeatedThreads = {} /\ RunningThreads = {}
      /\ \A r \in Runs : Undone(r) = {}
  BY DEF Init, HeldTasks, Held, SeatedThreads, Seated, RunningThreads, Undone
<1>3. Cardinality({}) = 0
  BY FS_EmptySet
<1>4. 0 <= Capacity /\ MaxWorkers \in Nat
  BY RunnerAssumption DEF RunnerAssumption, Capacity
<1>5. AcceptedCounted
  BY <1>2, <1>3, <1>4 DEF Init, AcceptedCounted
<1>6. UnfinishedCounted
  BY <1>2, <1>3 DEF Init, UnfinishedCounted
<1>7. ThreadsCounted
  BY <1>2, <1>3, <1>4 DEF Init, ThreadsCounted
<1> QED BY <1>1, <1>5, <1>6, <1>7 DEF CountInv

\* Every action changes a counter by what it moves.
LEMMA CountStep ==
  ASSUME CountInv, [Next]_vars
  PROVE  CountInv'
<1> USE DEF runVars, taskVars
<1>1. WorkInv'
  BY WorkStep DEF CountInv
<1>2. ThreadsCounted'
  BY ThreadsCountedStep
<1>3. AcceptedCounted' /\ UnfinishedCounted'
  <2>1. CASE Start \/ UNCHANGED vars
    <3>1. /\ place' = place /\ run' = run /\ accepted' = accepted /\ unfinished' = unfinished
      BY <2>1 DEF Start, vars
    <3> QED BY <3>1, CountsUntouched
  <2>2. ASSUME NEW c \in Callers, Shutdown(c) \/ Restart(c)
        PROVE  AcceptedCounted' /\ UnfinishedCounted'
    <3>1. \E waits \in BOOLEAN : CloseLocked(waits)
      BY <2>2 DEF Shutdown, Restart
    <3> QED BY <3>1, CloseCounts
  <2>3. ASSUME NEW c \in Callers, TellNext(c)
        PROVE  AcceptedCounted' /\ UnfinishedCounted'
    <3>1. PICK t \in caller[c].tasks : place' = [place EXCEPT ![t] = "told"]
      BY <2>3 DEF TellNext
    <3>2. t \in Tasks /\ place[t] = "withdrawn"
      BY DEF CountInv, WorkInv, RunnerTypes, Calls, CallersHoldWithdrawn
    <3>3. /\ place'[t] = "told"
          /\ \A u \in Tasks : u # t => place'[u] = place[u]
      BY <3>1, <3>2 DEF CountInv, WorkInv, RunnerTypes
    <3>4. run' = run /\ accepted' = accepted /\ unfinished' = unfinished
      BY <2>3 DEF TellNext
    <3> QED BY <3>2, <3>3, <3>4, CountsUntouched DEF Held
  <2>4. ASSUME NEW c \in Callers, ToldAll(c) \/ Return(c)
        PROVE  AcceptedCounted' /\ UnfinishedCounted'
    <3>1. /\ place' = place /\ run' = run /\ accepted' = accepted /\ unfinished' = unfinished
      BY <2>4 DEF ToldAll, Return
    <3> QED BY <3>1, CountsUntouched
  <2> QED BY <2>1, <2>2, <2>3, <2>4, AdmissionCounts, ThreadCounts DEF Next, CallerStep
<1> QED BY <1>1, <1>2, <1>3 DEF CountInv

\* The inductive invariant: where each task is, and what the counters count.
THEOREM RunnerInvariance == Spec => []CountInv
  BY CountInit, CountStep, PTL DEF Spec

\* Types, counters that never become negative included.
THEOREM RunnerTypeCorrect == Spec => []RunnerTypeOK
<1>1. ASSUME CountInv
      PROVE  RunnerTypeOK
  <2>1. accepted \in Nat /\ active \in Nat
    BY <1>1, FiniteTasksAndThreads
       DEF CountInv, AcceptedCounted, ThreadsCounted, HeldTasks, RunningThreads
  <2>2. slots \in 0..MaxWorkers
    <3>1. Cardinality(SeatedThreads) \in Nat /\ MaxWorkers \in Nat
      BY FiniteTasksAndThreads, RunnerAssumption DEF SeatedThreads, RunnerAssumption
    <3> QED BY <1>1, <3>1 DEF CountInv, ThreadsCounted
  <2>3. unfinished \in [Runs -> Nat]
    <3>1. \A r \in Runs : unfinished[r] \in Nat
      BY <1>1, FiniteTasksAndThreads DEF CountInv, UnfinishedCounted, Undone
    <3> QED BY <1>1, <3>1 DEF CountInv, WorkInv, RunnerTypes
  <2> QED BY <1>1, <2>1, <2>2, <2>3 DEF CountInv, WorkInv, RunnerTypes, RunnerTypeOK
<1> QED BY <1>1, RunnerInvariance, PTL

\* _accepted is the work that is reserved, queued, in hand or running, of all
\* runs, and stays within the capacity.
THEOREM AdmissionIsAccounted == Spec => []AdmissionAccounted
<1>1. CountInv => AdmissionAccounted
  BY DEF CountInv, AcceptedCounted, AdmissionAccounted
<1> QED BY <1>1, RunnerInvariance, PTL

\* A pending reservation can be committed: its run is open, and its queue has
\* room since the reservation itself holds a unit of the capacity.
THEOREM ReservedMeansAdmitted == Spec => []ReservationsAreKept
<1>1. ASSUME CountInv, NEW t \in Tasks, place[t] = "reserved"
      PROVE  Admissible(t)
  <2>1. run[t] = generation /\ Open
    BY <1>1 DEF CountInv, WorkInv, PendingIsCurrent
  <2>2. /\ InQueue(run[t]) \in SUBSET (HeldTasks \ {t})
        /\ t \in HeldTasks
    BY <1>1 DEF InQueue, HeldTasks, Held
  <2>3. /\ IsFiniteSet(HeldTasks) /\ Cardinality(HeldTasks) \in Nat
        /\ IsFiniteSet(HeldTasks \ {t}) /\ Cardinality(InQueue(run[t])) \in Nat
    BY FiniteTasksAndThreads DEF HeldTasks, InQueue
  <2>4. Cardinality(HeldTasks \ {t}) = Cardinality(HeldTasks) - 1
    BY <2>2, <2>3, OneLess
  <2>5. Cardinality(InQueue(run[t])) <= Cardinality(HeldTasks \ {t})
    BY <2>2, <2>3, FS_Subset
  <2>6. Capacity \in Int
    BY RunnerAssumption DEF RunnerAssumption, Capacity
  <2>7. Cardinality(InQueue(run[t])) < Capacity
    BY <1>1, <2>3, <2>4, <2>5, <2>6 DEF CountInv, AcceptedCounted
  <2> QED BY <2>1, <2>7 DEF Admissible, Open
<1>2. CountInv => ReservationsAreKept
  BY <1>1 DEF ReservationsAreKept
<1> QED BY <1>2, RunnerInvariance, PTL

\* The threads of all runs together run at most max_workers callbacks.
THEOREM ConcurrencyIsBounded == Spec => []ConcurrencyBounded
<1>1. ASSUME CountInv
      PROVE  ConcurrencyBounded
  <2>1. RunningThreads \in SUBSET SeatedThreads
    BY DEF RunningThreads, SeatedThreads, Seated
  <2>2. IsFiniteSet(SeatedThreads) /\ Cardinality(SeatedThreads) \in Nat
        /\ Cardinality(RunningThreads) \in Nat
    BY FiniteTasksAndThreads DEF RunningThreads, SeatedThreads
  <2>3. Cardinality(RunningThreads) <= Cardinality(SeatedThreads)
    BY <2>1, <2>2, FS_Subset
  <2>4. MaxWorkers \in Nat
    BY RunnerAssumption DEF RunnerAssumption
  <2> QED BY <1>1, <2>2, <2>3, <2>4
          DEF CountInv, ThreadsCounted, ConcurrencyBounded, RunningThreads
<1> QED BY <1>1, RunnerInvariance, PTL

\* Work is in one place: no task is run twice, told twice, or run and told.
THEOREM WorkHasOneKeeper == Spec => []OneKeeper
<1>1. ASSUME CountInv, NEW t \in Tasks
      PROVE  /\ place[t] \in {"in_hand", "running", "withdrawn"}
                  => \E k \in Threads \cup Callers : Keepers(t) = {k}
             /\ place[t] \notin {"in_hand", "running", "withdrawn"} => Keepers(t) = {}
  <2>1. \A w \in Threads : t \in task[w] => place[t] \in {"in_hand", "running", "withdrawn"}
    BY <1>1 DEF CountInv, WorkInv, ThreadsHoldTheirTask, PlaceAt, Working
  <2>2. \A c \in Callers : t \in caller[c].tasks => place[t] = "withdrawn"
    BY <1>1 DEF CountInv, WorkInv, CallersHoldWithdrawn
  <2>3. ASSUME NEW w \in Threads, t \in task[w]
        PROVE  Keepers(t) = {w}
    BY <1>1, <2>3 DEF CountInv, WorkInv, NothingShared, Keepers
  <2>4. ASSUME NEW c \in Callers, t \in caller[c].tasks
        PROVE  Keepers(t) = {c}
    BY <1>1, <2>4 DEF CountInv, WorkInv, NothingShared, Keepers
  <2> QED BY <1>1, <2>1, <2>2, <2>3, <2>4 DEF CountInv, WorkInv, NothingLost, Keepers
<1>2. CountInv => OneKeeper
  BY <1>1 DEF OneKeeper
<1> QED BY <1>2, RunnerInvariance, PTL

-----------------------------------------------------------------------------
(* What is left when a waiting call returns.                               *)

\* A call that has closed a run: the run stays closed, the call has seen every
\* thread it ever gets, and nothing enters its queue.
RunsStayClosed ==
  \A c \in Callers : caller[c].at # "idle" =>
    /\ mode[caller[c].run] \in {"draining", "cancelled"}
    /\ caller[c].run <= generation
    /\ caller[c].run = generation => closed

AllThreadsSeen ==
  \A c \in Callers : caller[c].at # "idle" /\ caller[c].waits =>
    \A w \in Threads : w[1] = caller[c].run =>
      at[w] \in {"absent", "gone"} \/ w \in caller[c].threads

ReturnedAfterAll ==
  \A c \in Callers : caller[c].at = "returned" /\ caller[c].waits =>
    /\ \A t \in Tasks : run[t] = caller[c].run =>
         place[t] \notin {"queued", "in_hand", "running"}
    /\ \A w \in caller[c].threads : at[w] = "gone"

QuietInv == CountInv /\ RunsStayClosed /\ AllThreadsSeen /\ ReturnedAfterAll

\* How a step may change threads: those of the open run are created, others
\* go on and never return.
LEMMA ThreadsMove ==
  ASSUME CountInv, [Next]_vars, NEW w \in Threads
  PROVE  /\ at[w] = "gone" => at'[w] = "gone"
         /\ at[w] = "absent" /\ at'[w] # "absent" => w[1] = generation' /\ ~closed'
<1> USE DEF runVars, taskVars, threadVars
<1>1. ASSUME at' = Started(generation'), ~closed'
      PROVE  /\ at[w] = "gone" => at'[w] = "gone"
             /\ at[w] = "absent" /\ at'[w] # "absent" => w[1] = generation' /\ ~closed'
  BY <1>1 DEF Started
<1>2. ASSUME at' = at
      PROVE  /\ at[w] = "gone" => at'[w] = "gone"
             /\ at[w] = "absent" /\ at'[w] # "absent" => w[1] = generation' /\ ~closed'
  BY <1>2
<1>3. CASE Start
  BY <1>1, <1>3 DEF Start, OpenNext, Open
<1>4. CASE \E c \in Callers : Shutdown(c) \/ Restart(c) \/ CallerStep(c)
  BY <1>1, <1>2, <1>4 DEF Shutdown, Restart, OpenNext, CallerStep, TellNext, ToldAll, Return
<1>5. CASE \E t \in Tasks : Reserve(t) \/ Commit(t) \/ Rollback(t)
  BY <1>1, <1>2, <1>5 DEF Reserve, Commit, Rollback, Open
<1>6. ASSUME NEW v \in Threads, ThreadStep(v)
      PROVE  /\ at[w] = "gone" => at'[w] = "gone"
             /\ at[w] = "absent" => at'[w] = "absent"
  BY <1>6 DEF ThreadStep, AcquireSlot, TakeTask, PollTimesOut, LookAtMode, Begin,
              Withdraw, Tell, Finish, Leave, CountInv, WorkInv, RunnerTypes
<1>7. CASE UNCHANGED vars
  BY <1>2, <1>7 DEF vars
<1> QED BY <1>3, <1>4, <1>5, <1>6, <1>7 DEF Next

\* A run that is not the open one, before and after, is closed for good.
LEMMA RunsMove ==
  ASSUME CountInv, [Next]_vars, NEW r \in Runs,
         r <= generation, r = generation => closed
  PROVE  /\ mode[r] \in {"draining", "cancelled"} => mode'[r] \in {"draining", "cancelled"}
         /\ r <= generation'
         /\ r = generation' => closed'
<1> USE DEF runVars
<1>1. generation \in Int /\ mode \in [Runs -> {"unborn", "running", "draining", "cancelled"}]
      /\ r \in Int
  BY RunnerAssumption DEF RunnerAssumption, CountInv, WorkInv, RunnerTypes, Runs
<1>2. CASE Start
  BY <1>1, <1>2 DEF Start, OpenNext
<1>3. ASSUME NEW c \in Callers, Shutdown(c)
      PROVE  /\ mode[r] \in {"draining", "cancelled"} => mode'[r] \in {"draining", "cancelled"}
             /\ generation' = generation /\ closed'
  BY <1>1, <1>3, DrainedTasks DEF Shutdown
<1>4. ASSUME NEW c \in Callers, Restart(c)
      PROVE  /\ mode[r] \in {"draining", "cancelled"} => mode'[r] \in {"draining", "cancelled"}
             /\ generation' = generation + 1
  BY <1>1, <1>4 DEF Restart, OpenNext
<1>5. CASE \/ \E c \in Callers : CallerStep(c)
           \/ \E t \in Tasks : Reserve(t) \/ Commit(t) \/ Rollback(t)
           \/ \E w \in Threads : ThreadStep(w)
           \/ UNCHANGED vars
  <2>1. UNCHANGED runVars
    BY <1>5 DEF CallerStep, TellNext, ToldAll, Return, Reserve, Commit, Rollback,
                ThreadStep, AcquireSlot, TakeTask, PollTimesOut, LookAtMode, Begin,
                Withdraw, Tell, Finish, Leave, vars
  <2> QED BY <2>1
<1> QED BY <1>1, <1>2, <1>3, <1>4, <1>5 DEF Next

\* What enters a queue enters that of the open run.
LEMMA QueuesMove ==
  ASSUME CountInv, [Next]_vars, NEW t \in Tasks,
         place'[t] \in {"queued", "in_hand", "running"}
  PROVE  /\ run'[t] = run[t]
         /\ \/ place[t] \in {"queued", "in_hand", "running"}
            \/ run[t] = generation /\ ~closed
<1> USE DEF runVars, taskVars, threadVars
<1>0. place \in [Tasks -> Places] /\ run \in [Tasks -> Runs]
  BY DEF CountInv, WorkInv, RunnerTypes
<1>1. CASE Start \/ UNCHANGED vars
  BY <1>1 DEF Start, vars
<1>2. ASSUME NEW c \in Callers, Shutdown(c) \/ Restart(c)
      PROVE  run'[t] = run[t] /\ place[t] \in {"queued", "in_hand", "running"}
  <2>1. PICK waits \in BOOLEAN : CloseLocked(waits)
    BY <1>2 DEF Shutdown, Restart
  <2> QED BY <2>1, CloseMoves DEF CountInv, WorkInv
<1>3. ASSUME NEW c \in Callers, CallerStep(c)
      PROVE  run'[t] = run[t] /\ place[t] \in {"queued", "in_hand", "running"}
  BY <1>0, <1>3 DEF CallerStep, TellNext, ToldAll, Return
<1>4. ASSUME NEW u \in Tasks, Reserve(u) \/ Commit(u) \/ Rollback(u)
      PROVE  /\ run'[t] = run[t]
             /\ \/ place[t] \in {"queued", "in_hand", "running"}
                \/ run[t] = generation /\ ~closed
  BY <1>0, <1>4 DEF Reserve, Commit, Rollback, Admissible
<1>5. ASSUME NEW w \in Threads, ThreadStep(w)
      PROVE  run'[t] = run[t] /\ place[t] \in {"queued", "in_hand", "running"}
  <2>1. run' = run
    BY <1>5 DEF ThreadStep, AcquireSlot, TakeTask, PollTimesOut, LookAtMode, Begin,
                Withdraw, Tell, Finish, Leave
  <2>2. CASE AcquireSlot(w) \/ PollTimesOut(w) \/ LookAtMode(w) \/ Leave(w)
    BY <2>2 DEF AcquireSlot, PollTimesOut, LookAtMode, Leave
  <2>3. CASE TakeTask(w)
    BY <1>0, <2>3 DEF TakeTask, InQueue
  <2>4. CASE Begin(w) \/ Withdraw(w) \/ Tell(w) \/ Finish(w)
    BY <2>4, TaskInHand DEF CountInv
  <2> QED BY <1>5, <2>1, <2>2, <2>3, <2>4 DEF ThreadStep
<1> QED BY <1>1, <1>2, <1>3, <1>4, <1>5 DEF Next

\* A call that has begun keeps its frame.  It returns after it has joined, if
\* it waits.
CallGoesOn(c) ==
  /\ caller'[c].run = caller[c].run
  /\ caller'[c].waits = caller[c].waits
  /\ caller'[c].threads = caller[c].threads
  /\ caller'[c].at = "idle" <=> caller[c].at = "idle"
  /\ caller'[c].at = "returned" /\ caller'[c].waits => caller[c].at = "returned" \/ Joined(c)

\* A call begins by closing the current run.
CallBegins(c) ==
  /\ caller'[c].at = "telling"
  /\ caller'[c].run = generation
  /\ caller'[c].waits => /\ caller'[c].threads = Alive
                        /\ at' = at
  /\ mode'[generation] \in {"draining", "cancelled"}
  /\ (generation' = generation /\ closed') \/ generation' = generation + 1

\* Every step lets a closing call begin or go on.
LEMMA CallsMove ==
  ASSUME CountInv, [Next]_vars, NEW c \in Callers
  PROVE  CallGoesOn(c) \/ CallBegins(c)
<1> USE DEF runVars, taskVars, threadVars
<1>0. /\ caller \in [Callers -> Calls]
      /\ mode \in [Runs -> {"unborn", "running", "draining", "cancelled"}]
      /\ generation \in Runs /\ generation \in Int
  BY RunnerAssumption DEF RunnerAssumption, Runs, CountInv, WorkInv, RunnerTypes
<1>1. ASSUME caller'[c] = caller[c]
      PROVE  CallGoesOn(c)
  BY <1>1 DEF CallGoesOn
<1>2. ASSUME NEW d \in Callers, d # c, Shutdown(d) \/ Restart(d) \/ CallerStep(d)
      PROVE  CallGoesOn(c)
  BY <1>0, <1>1, <1>2 DEF Shutdown, Restart, Call, CallerStep, TellNext, ToldAll, Return
<1>3. CASE Shutdown(c)
  <2>1. PICK op \in Operations \ {"restart"} :
          /\ closed' = TRUE
          /\ mode' = [mode EXCEPT ![generation] = ClosedMode(op = "drain")]
          /\ Call(c, Drained(op = "drain"), op # "shutdown")
          /\ UNCHANGED <<generation, active, slots, threadVars>>
    BY <1>3 DEF Shutdown
  <2>2. /\ caller'[c].at = "telling" /\ caller'[c].run = generation
        /\ caller'[c].waits => caller'[c].threads = Alive
    BY <1>0, <2>1 DEF Call
  <2> QED BY <1>0, <2>1, <2>2, DrainedTasks DEF CallBegins
<1>4. CASE Restart(c)
  <2>1. /\ caller'[c].at = "telling" /\ caller'[c].run = generation
        /\ ~caller'[c].waits
    BY <1>0, <1>4 DEF Restart, Call
  <2>2. mode'[generation] \in {"draining", "cancelled"} /\ generation' = generation + 1
    BY <1>0, <1>4 DEF Restart, OpenNext
  <2> QED BY <2>1, <2>2 DEF CallBegins
<1>5. CASE TellNext(c)
  <2>1. PICK t \in caller[c].tasks : caller' = [caller EXCEPT ![c].tasks = @ \ {t}]
    BY <1>5 DEF TellNext
  <2> QED BY <1>0, <1>5, <2>1 DEF TellNext, CallGoesOn, Calls
<1>6. CASE ToldAll(c) \/ Return(c)
  BY <1>0, <1>6 DEF ToldAll, Return, CallGoesOn, Calls
<1>7. CASE \/ Start
           \/ \E t \in Tasks : Reserve(t) \/ Commit(t) \/ Rollback(t)
           \/ \E w \in Threads : ThreadStep(w)
           \/ UNCHANGED vars
  <2>1. caller' = caller
    BY <1>7 DEF Start, Reserve, Commit, Rollback, ThreadStep, AcquireSlot, TakeTask,
                PollTimesOut, LookAtMode, Begin, Withdraw, Tell, Finish, Leave, vars
  <2> QED BY <1>1, <2>1
<1> QED BY <1>2, <1>3, <1>4, <1>5, <1>6, <1>7 DEF Next, CallerStep

\* Closed runs stay closed, and a run that was left quiet stays quiet.
LEMMA QuietStep ==
  ASSUME QuietInv, [Next]_vars
  PROVE  QuietInv'
<1>0. CountInv /\ CountInv'
  BY CountStep DEF QuietInv
<1>1. /\ generation \in Runs /\ generation \in Int
      /\ \A c \in Callers : caller[c].run \in Runs /\ caller[c].run \in Int
      /\ \A c \in Callers : caller[c].threads \subseteq Threads
  <2>1. Runs \subseteq Int
    BY RunnerAssumption DEF RunnerAssumption, Runs
  <2>2. generation \in Runs /\ caller \in [Callers -> Calls]
    BY <1>0 DEF CountInv, WorkInv, RunnerTypes
  <2> QED BY <2>1, <2>2 DEF Calls
<1>2. ASSUME NEW c \in Callers, caller[c].at # "idle"
      PROVE  /\ mode[caller[c].run] \in {"draining", "cancelled"}
             /\ caller[c].run <= generation
             /\ caller[c].run = generation => closed
             /\ mode'[caller[c].run] \in {"draining", "cancelled"}
             /\ caller[c].run <= generation'
             /\ caller[c].run = generation' => closed'
  BY <1>0, <1>1, <1>2, RunsMove DEF QuietInv, RunsStayClosed
<1>3. RunsStayClosed'
  <2> SUFFICES ASSUME NEW c \in Callers, caller'[c].at # "idle"
               PROVE  /\ mode'[caller'[c].run] \in {"draining", "cancelled"}
                      /\ caller'[c].run <= generation'
                      /\ caller'[c].run = generation' => closed'
    BY DEF RunsStayClosed
  <2>1. CASE CallGoesOn(c)
    BY <1>2, <2>1 DEF CallGoesOn
  <2>2. CASE CallBegins(c)
    BY <1>1, <2>2 DEF CallBegins
  <2> QED BY <1>0, <2>1, <2>2, CallsMove
<1>4. AllThreadsSeen'
  <2> SUFFICES ASSUME NEW c \in Callers, caller'[c].at # "idle", caller'[c].waits,
                      NEW w \in Threads, w[1] = caller'[c].run
               PROVE  at'[w] \in {"absent", "gone"} \/ w \in caller'[c].threads
    BY DEF AllThreadsSeen
  <2>1. CASE CallGoesOn(c)
    <3>1. at[w] \in {"absent", "gone"} \/ w \in caller[c].threads
      BY <2>1 DEF CallGoesOn, QuietInv, AllThreadsSeen
    <3>2. at[w] = "absent" => at'[w] = "absent"
      BY <1>0, <1>2, <2>1, ThreadsMove DEF CallGoesOn
    <3>3. at[w] = "gone" => at'[w] = "gone"
      BY <1>0, ThreadsMove
    <3> QED BY <2>1, <3>1, <3>2, <3>3 DEF CallGoesOn
  <2>2. CASE CallBegins(c)
    BY <2>2 DEF CallBegins, Alive
  <2> QED BY <1>0, <2>1, <2>2, CallsMove
<1>5. ReturnedAfterAll'
  <2> SUFFICES ASSUME NEW c \in Callers, caller'[c].at = "returned", caller'[c].waits
               PROVE  /\ \A t \in Tasks : run'[t] = caller'[c].run =>
                           place'[t] \notin {"queued", "in_hand", "running"}
                      /\ \A w \in caller'[c].threads : at'[w] = "gone"
    BY DEF ReturnedAfterAll
  <2>1. CallGoesOn(c)
    BY <1>0, CallsMove DEF CallBegins
  <2>2. /\ \A t \in Tasks : run[t] = caller[c].run =>
              place[t] \notin {"queued", "in_hand", "running"}
        /\ \A w \in caller[c].threads : at[w] = "gone"
    <3>1. CASE caller[c].at = "returned"
      BY <2>1, <3>1 DEF CallGoesOn, QuietInv, ReturnedAfterAll
    <3>2. CASE Joined(c)
      <4>1. Cardinality(Undone(caller[c].run)) = 0
        BY <1>0, <1>1, <3>2 DEF Joined, CountInv, UnfinishedCounted
      <4>2. IsFiniteSet(Undone(caller[c].run))
        BY FiniteTasksAndThreads DEF Undone
      <4>3. Undone(caller[c].run) = {}
        BY <4>1, <4>2, FS_EmptySet
      <4> QED BY <3>2, <4>3 DEF Joined, Undone
    <3> QED BY <2>1, <3>1, <3>2 DEF CallGoesOn
  <2>3. caller[c].run = generation => closed
    BY <1>2, <2>1 DEF CallGoesOn
  <2>4. \A t \in Tasks : run'[t] = caller[c].run =>
          place'[t] \notin {"queued", "in_hand", "running"}
    BY <1>0, <2>2, <2>3, QueuesMove
  <2>5. \A w \in caller[c].threads : at'[w] = "gone"
    BY <1>0, <1>1, <2>2, ThreadsMove
  <2> QED BY <2>1, <2>4, <2>5 DEF CallGoesOn
<1> QED BY <1>0, <1>3, <1>4, <1>5 DEF QuietInv

\* When a call that waits has returned, the work of its run is settled, or on
\* the list of another closing call.
THEOREM ShutdownLeavesNothing == Spec => []NothingOutlivesShutdown
<1>1. ASSUME Init
      PROVE  QuietInv
  BY <1>1, CountInit
     DEF Init, Idle, QuietInv, RunsStayClosed, AllThreadsSeen, ReturnedAfterAll
<1>2. ASSUME QuietInv, NEW c \in Callers, caller[c].at = "returned", caller[c].waits,
             NEW t \in Tasks, run[t] = caller[c].run
      PROVE  \/ place[t] \in {"new", "rolled_back", "refused", "finished", "told"}
             \/ \E d \in Callers : t \in caller[d].tasks
  <2>1. place[t] \notin {"queued", "in_hand", "running"}
    BY <1>2 DEF QuietInv, ReturnedAfterAll
  <2>2. place[t] # "reserved"
    BY <1>2 DEF QuietInv, RunsStayClosed, CountInv, WorkInv, PendingIsCurrent, Open
  <2>3. ASSUME NEW w \in Threads, t \in task[w]
        PROVE  FALSE
    <3>1. /\ at[w] \in Working
          /\ \E u \in Tasks : task[w] = {u} /\ run[u] = w[1]
      BY <1>2, <2>3 DEF QuietInv, CountInv, WorkInv, ThreadsHoldTheirTask
    <3>2. w[1] = caller[c].run
      BY <1>2, <2>3, <3>1
    <3>3. at[w] \in {"absent", "gone"} \/ w \in caller[c].threads
      BY <1>2, <3>2 DEF QuietInv, AllThreadsSeen
    <3>4. at[w] \in {"absent", "gone"}
      BY <1>2, <3>3 DEF QuietInv, ReturnedAfterAll
    <3> QED BY <3>1, <3>4 DEF Working
  <2>4. place[t] \in Places
    BY <1>2 DEF QuietInv, CountInv, WorkInv, RunnerTypes
  <2>5. CASE place[t] = "withdrawn"
    BY <1>2, <2>3, <2>5 DEF QuietInv, CountInv, WorkInv, NothingLost
  <2> QED BY <2>1, <2>2, <2>4, <2>5 DEF Places, Held
<1>3. QuietInv => NothingOutlivesShutdown
  BY <1>2 DEF NothingOutlivesShutdown
<1> QED BY <1>1, <1>3, QuietStep, PTL DEF Spec

\* The runner is sound as a whole: admission, concurrency, hand-over and closing.
THEOREM RunnerSound == Spec => []RunnerIsSound
BY ReservedMeansAdmitted, AdmissionIsAccounted, ConcurrencyIsBounded,
   WorkHasOneKeeper, ShutdownLeavesNothing, PTL DEF RunnerIsSound
=============================================================================
