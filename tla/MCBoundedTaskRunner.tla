------------------------ MODULE MCBoundedTaskRunner ------------------------
(***************************************************************************)
(* Finite instances of BoundedTaskRunner for TLC.  New tasks and calls come *)
(* in a fixed order: nothing in the code tells one from another, so every   *)
(* behavior is one of these up to the names.  Unlike a symmetry set, this   *)
(* keeps liveness.                                                          *)
(***************************************************************************)
EXTENDS BoundedTaskRunner

NextTask(t) == place[t] = "new" /\ t = CHOOSE s \in Tasks : place[s] = "new"
NextCaller(c) == caller[c].at = "idle" /\ c = CHOOSE d \in Callers : caller[d].at = "idle"

\* Either all tasks come or two calls overlap: one call meets a task more than the
\* runner admits at once, two calls meet all that it admits.
Overlap == Cardinality({c \in Callers : caller'[c].at \in {"telling", "joining"}}) > 1
AllCame == \A t \in Tasks : place'[t] # "new"

MCNext ==
  \/ Start
  \/ \E c \in Callers :
       \/ NextCaller(c) /\ (Shutdown(c) \/ Restart(c)) /\ ~(AllCame /\ Overlap)
       \/ CallerStep(c)
  \/ \E t \in Tasks : (NextTask(t) /\ Reserve(t) /\ ~(AllCame /\ Overlap)) \/ Commit(t) \/ Rollback(t)
  \/ \E w \in Threads : ThreadStep(w)

MCFairSpec == Init /\ [][MCNext]_vars /\ Fairness
=============================================================================
