---------------------------- MODULE MCImageQueue ----------------------------
(***************************************************************************)
(* Finite instances of ImageQueue for TLC.  A .cfg picks how many rows and *)
(* processes there are, which failures and disturbances may happen, and    *)
(* how many disturbances a behaviour has.                                  *)
(***************************************************************************)
EXTENDS ImageQueue, TLC

\* One image slot per account (image_account_concurrency is 1): two jobs that
\* share an account must contend for it.
MCSlots == {0}

\* All jobs are images of one task, so that its status aggregates them.
MCOneTask == [j \in Jobs |-> CHOOSE t \in Tasks : TRUE]

\* Accounts, workers and jobs are interchangeable: nothing in the code prefers
\* one by its name.  Used only in runs without liveness.
MCSymmetry ==
  Permutations(Workers) \cup Permutations(Accounts) \cup Permutations(Jobs)

\* For runs with liveness, which a symmetry set would spoil: while no state tells
\* the processes apart the first of them acts, and the first account taken is the
\* first.  Nothing in the code tells one from another, so every behavior is one of
\* these up to the names.
FirstWorker == CHOOSE w \in Workers : TRUE
FirstAccount == CHOOSE a \in Accounts : TRUE

WorkersAlike ==
  /\ claims = {} /\ \A j \in Jobs : owner[j] = None
  /\ \A w \in Workers :
       /\ process[w] = process[FirstWorker] /\ plan[w] = plan[FirstWorker]
       /\ w \in fresh <=> FirstWorker \in fresh

AccountsAlike ==
  claims = {} /\ \A j \in Jobs : account[j] = None /\ conv[j] = None

MCNext ==
  /\ \/ \E w \in Workers : (WorkersAlike => w = FirstWorker) /\ WorkerStep(w)
     \/ \E j \in Jobs : JobStep(j)
     \/ \E c \in claims : GateClosed(c) \/ Strand(c) \/ GiveUp(c)
     \/ \E t \in Tasks : RequestCancel(t) \/ ResumeFailed(t)
     \/ ListAdoptable
  /\ AccountsAlike => \A j \in Jobs : account'[j] \in {None, FirstAccount}

MCFairSpec == Init /\ [][MCNext]_vars /\ Fairness
=============================================================================
