---------------------------- MODULE JobOwnership ----------------------------
(***************************************************************************)
(* What the image queue promises to those who work on its jobs, without    *)
(* saying how: a lock with fencing tickets.  A job is open or closed; an   *)
(* open job is held by one worker or by nobody.  Whoever takes a job gets  *)
(* a ticket, numbered by the term of the job.  While a job is held, its    *)
(* record changes, and the job is given back or closed, only by the one    *)
(* ticket of the term.  Tickets may get lost at any time, and a holder may *)
(* be deposed, which ends the term: its ticket is worth nothing any more.  *)
(* Everybody else may only touch jobs that are not held.                   *)
(***************************************************************************)
EXTENDS Naturals

CONSTANTS
  Jobs,      (* what is worked on                                           *)
  Workers,   (* who works                                                   *)
  Records,   (* what may be known of a job ...                              *)
  Blank,     (* ... and what is known of a new one                          *)
  None       (* no worker                                                   *)

VARIABLES
  holder,    (* the worker that holds each job, or None                     *)
  term,      (* how often each job was taken or its holder deposed          *)
  closed,    (* whether each job is closed                                  *)
  record,    (* what is known of each job                                   *)
  tickets    (* the tickets that have not been lost                         *)

ownershipVars == <<holder, term, closed, record, tickets>>

Valid(t) == holder[t.job] = t.worker /\ term[t.job] = t.term

Init ==
  /\ holder = [j \in Jobs |-> None]
  /\ term = [j \in Jobs |-> 0]
  /\ closed = [j \in Jobs |-> FALSE]
  /\ record = [j \in Jobs |-> Blank]
  /\ tickets = {}

\* The records of the jobs js change, and no others.
Rewrites(js) ==
  /\ record' \in [Jobs -> Records]
  /\ \A k \in Jobs \ js : record'[k] = record[k]

\* The jobs js open or close, and no others.
Decides(js) ==
  /\ closed' \in [Jobs -> BOOLEAN]
  /\ \A k \in Jobs \ js : closed'[k] = closed[k]

Take(w, j) ==
  /\ holder[j] = None /\ ~closed[j]
  /\ holder' = [holder EXCEPT ![j] = w]
  /\ term' = [term EXCEPT ![j] = @ + 1]
  /\ tickets' = tickets \cup {[job |-> j, worker |-> w, term |-> term[j] + 1]}
  /\ UNCHANGED <<closed, record>>

Work(t) ==
  /\ Valid(t)
  /\ Rewrites({t.job})
  /\ UNCHANGED <<holder, term, closed, tickets>>

GiveBack(t) ==
  /\ Valid(t)
  /\ holder' = [holder EXCEPT ![t.job] = None]
  /\ tickets' = tickets \ {t}
  /\ Rewrites({t.job}) /\ Decides({t.job})
  /\ UNCHANGED term

Lose(ts) ==
  /\ tickets' = tickets \ ts
  /\ UNCHANGED <<holder, term, closed, record>>

Depose(js) ==
  /\ \A j \in js : holder[j] # None
  /\ holder' = [j \in Jobs |-> IF j \in js THEN None ELSE holder[j]]
  /\ term' = [j \in Jobs |-> IF j \in js THEN term[j] + 1 ELSE term[j]]
  /\ Decides(js)
  /\ UNCHANGED <<record, tickets>>

\* Callers and sweeps; whom nobody holds may be closed, opened or rewritten.
Arrange ==
  LET idle == {j \in Jobs : holder[j] = None} IN
  /\ Rewrites(idle) /\ Decides(idle)
  /\ UNCHANGED <<holder, term, tickets>>

Next ==
  \/ \E w \in Workers, j \in Jobs : Take(w, j)
  \/ \E t \in tickets : Work(t) \/ GiveBack(t)
  \/ \E ts \in SUBSET tickets : Lose(ts)
  \/ \E js \in SUBSET Jobs : Depose(js)
  \/ Arrange

Spec == Init /\ [][Next]_ownershipVars
=============================================================================
