-------------------------- MODULE AccountParts_proofs --------------------------
(*************************************************************************)
(* Proofs about seven parts of the accounts side, each for any number of *)
(* its actors and without the bounds of the runs: user keys written by   *)
(* processes with stale views, runners that lost their lease, codes in   *)
(* shared inboxes, proxy groups edited under waiting requests, batch     *)
(* operations whose accounts leave under them, registrations that share  *)
(* mailboxes, and checks of an account that race the reports about it.   *)
(* The parts share no state; each section has the inductive invariant of *)
(* one. The last section puts them together, and the credentials         *)
(* (AccountCredentials_proofs) with them.                                *)
(*************************************************************************)
EXTENDS MCAccountParts, AccountCredentials_proofs

-----------------------------------------------------------------------------
(* User keys *)

\* What was read under a revision that is still the stored one is what is
\* stored; revisions only grow, so nothing is ahead of the collection.
Genuine(snapshot) ==
  /\ snapshot.rev <= stored.rev
  /\ snapshot.rev = stored.rev => snapshot.rows = stored.rows

LoadRow == [at : {"idle", "rows", "check", "loaded"},
            rev : 1..MaxRev, since : 1..MaxRev, rows : Rows]

\* The inductive invariant: types, the edits, distinct secrets, and genuine
\* views and loads (a load whose rows are read).
KeysInv ==
  /\ KeysTypeOK
  /\ EditsStand
  /\ KeysAreDistinct
  /\ \A p \in KeyProcesses : Genuine(keyView[p])
  /\ \A p \in KeyProcesses : load[p].at = "rows" => load[p].rev <= stored.rev
  /\ \A p \in KeyProcesses : load[p].at \in {"check", "loaded"} => Genuine(load[p])

\* No process has read anything.
LEMMA InitKeys == KeysInit => KeysInv
<1> SUFFICES ASSUME KeysInit PROVE KeysInv
  OBVIOUS
<1> DEFINE k == CHOOSE k \in Keys : TRUE
           h == CHOOSE h \in Hashes : TRUE
<1>1. k \in Keys /\ h \in Hashes
  BY KeysAssumption
<1> DEFINE rows == [l \in Keys |-> IF l = k THEN [hash |-> h, on |-> TRUE] ELSE NoKey]
<1>2. /\ stored = [rows |-> rows, rev |-> 1]
      /\ keyView = [p \in KeyProcesses |-> [rows |-> rows, rev |-> 1]]
      /\ given = {k} /\ edited = rows
      /\ call = [p \in KeyProcesses |-> NoUse]
      /\ load = [p \in KeyProcesses |-> NoLoad]
  BY DEF KeysInit
<1>3. KeysTypeOK
  <2>1. rows \in Rows /\ 1 \in 1..MaxRev
    BY <1>1, KeysAssumption DEF Rows, KeyRow, NoKey
  <2>2. NoLoad \in LoadRow
    BY <2>1 DEF NoLoad, LoadRow, Rows, KeyRow
  <2>3. NoUse \in [at : {"idle", "loading", "writing"}, use : Hashes \cup {"none"}]
    BY DEF NoUse
  <2> HIDE DEF rows
  <2> QED
    BY <1>1, <1>2, <2>1, <2>2, <2>3 DEF KeysTypeOK, LoadRow
<1>4. KeysAreDistinct
  BY <1>1, KeysAssumption DEF KeysInit, KeysAreDistinct, NoKey
<1>5. EditsStand /\ \A p \in KeyProcesses : Genuine(keyView[p])
  <2> HIDE DEF rows
  <2> QED
    BY <1>2 DEF EditsStand, Genuine
<1>6. \A p \in KeyProcesses : load[p].at = "idle"
  BY DEF KeysInit, NoLoad
<1> QED
  BY <1>3, <1>4, <1>5, <1>6 DEF KeysInv

\* A write that names the stored revision makes of the collection what the edit
\* made of it, and gives no secret twice.
LEMMA WriteKeepsKeys ==
  ASSUME KeysInv, NEW p \in KeyProcesses, WriteKey(p)
  PROVE  /\ KeysTypeOK' /\ EditsStand' /\ KeysAreDistinct'
         /\ \A q \in KeyProcesses : Genuine(keyView[q])'
         /\ stored'.rev > stored.rev
<1>1. PICK w \in Writes(p) :
        /\ stored' = [rows |-> [stored.rows EXCEPT ![w[1]] = w[2]], rev |-> stored.rev + 1]
        /\ keyView' = [keyView EXCEPT ![p].rows[w[1]] = w[2], ![p].rev = stored.rev + 1]
        /\ given' = given \cup {w[1]}
        /\ edited' = IF call[p].use \in Hashes THEN edited ELSE [edited EXCEPT ![w[1]] = w[2]]
  BY DEF WriteKey
<1> DEFINE k == w[1]
           made == w[2]
<1>2. k \in Keys /\ made \in KeyRow
  BY <1>1 DEF Writes
<1>3. keyView[p].rows = stored.rows /\ stored.rows = edited
  BY DEF KeysInv, Genuine, WriteKey, Current, EditsStand
<1>4. stored.rows \in Rows /\ stored.rev \in 1..MaxRev /\ stored.rev + 1 \in 1..MaxRev
  BY KeysAssumption DEF KeysInv, KeysTypeOK, WriteKey
<1>5. stored'.rows = [stored.rows EXCEPT ![k] = made] /\ stored'.rev = stored.rev + 1
  BY <1>1
<1>6. stored'.rows \in Rows
  BY <1>2, <1>4, <1>5 DEF Rows
<1>7. keyView'[p].rows = stored'.rows /\ keyView'[p].rev = stored'.rev
  BY <1>1, <1>3, <1>5 DEF KeysInv, KeysTypeOK
<1>8. \A q \in KeyProcesses : q # p => keyView'[q] = keyView[q]
  BY <1>1 DEF KeysInv, KeysTypeOK
<1>9. keyView' \in [KeyProcesses -> [rows : Rows, rev : 1..MaxRev]]
  <2>1. keyView'[p] \in [rows : Rows, rev : 1..MaxRev]
    <3>1. keyView[p] \in [rows : Rows, rev : 1..MaxRev]
      BY DEF KeysInv, KeysTypeOK
    <3>2. keyView'[p] = [[keyView[p] EXCEPT !.rows[k] = made] EXCEPT !.rev = stored.rev + 1]
      BY <1>1 DEF KeysInv, KeysTypeOK
    <3> QED
      BY <3>1, <3>2, <1>2, <1>4, <1>5, <1>6, <1>7
  <2>2. /\ DOMAIN keyView' = KeyProcesses
        /\ keyView' = [q \in KeyProcesses |-> keyView'[q]]
    BY <1>1 DEF KeysInv, KeysTypeOK
  <2> QED
    BY <2>1, <2>2, <1>8 DEF KeysInv, KeysTypeOK
<1>10. edited' \in Rows /\ given' \subseteq Keys
  BY <1>1, <1>2 DEF KeysInv, KeysTypeOK, Rows
<1>11. call' \in [KeyProcesses -> [at : {"idle", "loading", "writing"},
                                   use : Hashes \cup {"none"}]]
  BY DEF KeysInv, KeysTypeOK, WriteKey, End, NoUse
<1>12. KeysTypeOK'
  BY <1>1, <1>4, <1>6, <1>9, <1>10, <1>11 DEF KeysInv, KeysTypeOK, WriteKey
<1>13. \A q \in KeyProcesses : Genuine(keyView[q])'
  <2> TAKE q \in KeyProcesses
  <2>1. CASE q = p
    BY <2>1, <1>4, <1>5, <1>7 DEF Genuine
  <2>2. CASE q # p
    <3>1. keyView'[q] = keyView[q] /\ keyView[q].rev <= stored.rev /\ keyView[q].rev \in Nat
      BY <2>2, <1>8 DEF KeysInv, KeysTypeOK, Genuine
    <3> QED
      BY <3>1, <1>4, <1>5 DEF Genuine
  <2> QED
    BY <2>1, <2>2
<1>14. CASE call[p].use \in Hashes
  <2>1. made = stored.rows[k]
    BY <1>1, <1>3, <1>14 DEF Writes, Uses
  <2>2. stored'.rows = stored.rows /\ edited' = edited
    BY <2>1, <1>1, <1>2, <1>4, <1>5, <1>14 DEF Rows
  <2>3. EditsStand' /\ KeysAreDistinct'
    BY <2>2, <1>3 DEF EditsStand, KeysAreDistinct, KeysInv
  <2> QED
    BY <2>3, <1>4, <1>5, <1>12, <1>13
<1>15. CASE call[p].use \notin Hashes
  <2>1. EditsStand'
    BY <1>1, <1>3, <1>5, <1>15 DEF EditsStand
  <2>2. \/ made = NoKey
        \/ made.hash = stored.rows[k].hash /\ stored.rows[k] # NoKey
        \/ \A l \in Keys : stored.rows[l].hash # made.hash
    BY <1>1, <1>3, <1>15 DEF Writes, Creates, Updates, Deletes, Taken
  <2>3. \A l \in Keys : l # k /\ stored.rows[l] # NoKey /\ made # NoKey
                          => stored.rows[l].hash # made.hash
    BY <2>2, <1>2 DEF KeysInv, KeysAreDistinct
  <2>4. \A l \in Keys : stored'.rows[l] = IF l = k THEN made ELSE stored.rows[l]
    BY <1>2, <1>4, <1>5 DEF Rows
  <2>5. ASSUME NEW l \in Keys, NEW m \in Keys, l # m, stored'.rows[l] # NoKey
        PROVE  stored'.rows[l].hash # stored'.rows[m].hash
    <3>1. \A r \in KeyRow : r # NoKey <=> r.hash # "none"
      BY KeysAssumption DEF KeyRow, NoKey
    <3>2. /\ made \in KeyRow /\ stored.rows[l] \in KeyRow /\ stored.rows[m] \in KeyRow
      BY <1>2, <1>4 DEF Rows
    <3>3. NoKey.hash = "none"
      BY DEF NoKey
    <3>4. CASE l # k /\ m # k
      BY <3>4, <2>4, <2>5 DEF KeysInv, KeysAreDistinct
    <3>5. CASE l = k
      BY <3>1, <3>2, <3>3, <3>5, <2>3, <2>4, <2>5
    <3>6. CASE m = k
      BY <3>1, <3>2, <3>3, <3>6, <2>3, <2>4, <2>5
    <3> QED
      BY <3>4, <3>5, <3>6
  <2>6. KeysAreDistinct'
    BY <2>5 DEF KeysAreDistinct
  <2> QED
    BY <2>1, <2>6, <1>4, <1>5, <1>12, <1>13
<1> QED
  BY <1>14, <1>15

\* A step that changes one load and nothing else of what the invariant is about.
LEMMA LoadKeepsKeys ==
  ASSUME KeysInv, NEW p \in KeyProcesses, UNCHANGED <<stored, keyView, call, given, edited>>,
         NEW made \in LoadRow, load' = [load EXCEPT ![p] = made],
         made.at = "rows" => made.rev <= stored.rev,
         made.at \in {"check", "loaded"} => Genuine(made)
  PROVE  KeysInv'
<1>1. \A q \in KeyProcesses : load'[q] = IF q = p THEN made ELSE load[q]
  BY DEF KeysInv, KeysTypeOK
<1>2. load' \in [KeyProcesses -> LoadRow]
  BY DEF KeysInv, KeysTypeOK, LoadRow
<1>3. KeysTypeOK'
  BY <1>2 DEF KeysInv, KeysTypeOK, LoadRow
<1>4. EditsStand' /\ KeysAreDistinct' /\ \A q \in KeyProcesses : Genuine(keyView[q])'
  BY DEF KeysInv, EditsStand, KeysAreDistinct, Genuine
<1>5. /\ \A q \in KeyProcesses : load'[q].at = "rows" => load'[q].rev <= stored'.rev
      /\ \A q \in KeyProcesses : load'[q].at \in {"check", "loaded"} => Genuine(load[q])'
  BY <1>1 DEF KeysInv, Genuine
<1> QED
  BY <1>3, <1>4, <1>5 DEF KeysInv

\* One edit of a key, one use of it or one write by a process.
LEMMA StepKeepsKeys == KeysInv /\ [KeysNext]_keyVars => KeysInv'
<1> SUFFICES ASSUME KeysInv, [KeysNext]_keyVars PROVE KeysInv'
  OBVIOUS
<1> USE KeysAssumption
<1>1. CASE UNCHANGED keyVars
  BY <1>1 DEF keyVars, KeysInv, KeysTypeOK, EditsStand, KeysAreDistinct, Genuine
<1>2. ASSUME NEW p \in KeyProcesses, StartRefresh(p) PROVE KeysInv'
  <2> DEFINE made == [load[p] EXCEPT !.at = "rows", !.since = keyView[p].rev, !.rev = stored.rev]
  <2>1. /\ load[p] \in LoadRow /\ keyView[p].rev \in 1..MaxRev /\ stored.rev \in 1..MaxRev
        /\ load' = [load EXCEPT ![p] = made]
    BY <1>2 DEF StartRefresh, KeysInv, KeysTypeOK, LoadRow
  <2>2. made \in LoadRow /\ made.at = "rows" /\ made.rev = stored.rev
    BY <2>1 DEF LoadRow
  <2>4. made.rev <= stored.rev
    BY <2>1, <2>2
  <2>3. UNCHANGED <<stored, keyView, call, given, edited>>
    BY <1>2 DEF StartRefresh
  <2> HIDE DEF made
  <2> QED
    BY <2>1, <2>2, <2>3, <2>4, LoadKeepsKeys
<1>3. ASSUME NEW p \in KeyProcesses, ReadRows(p) PROVE KeysInv'
  <2> DEFINE made == [load[p] EXCEPT !.at = "check", !.rows = stored.rows]
  <2>1. /\ load[p] \in LoadRow /\ stored.rows \in Rows
        /\ load[p].rev <= stored.rev
        /\ load' = [load EXCEPT ![p] = made]
    BY <1>3 DEF ReadRows, KeysInv, KeysTypeOK, LoadRow
  <2>2. made \in LoadRow /\ made.at = "check" /\ Genuine(made)
    BY <2>1 DEF LoadRow, Genuine
  <2>3. UNCHANGED <<stored, keyView, call, given, edited>>
    BY <1>3 DEF ReadRows
  <2> HIDE DEF made
  <2> QED
    BY <2>1, <2>2, <2>3, LoadKeepsKeys
<1>4. ASSUME NEW p \in KeyProcesses, CheckVersion(p) PROVE KeysInv'
  <2>1. /\ load[p] \in LoadRow /\ load[p].at = "check" /\ Genuine(load[p])
        /\ stored.rev \in 1..MaxRev
    BY <1>4 DEF CheckVersion, KeysInv, KeysTypeOK, LoadRow
  <2>2. UNCHANGED <<stored, keyView, call, given, edited>>
    BY <1>4 DEF CheckVersion
  <2>3. CASE load[p].rev = stored.rev
    <3> DEFINE made == [load[p] EXCEPT !.at = "loaded"]
    <3>1. load' = [load EXCEPT ![p] = made]
      BY <1>4, <2>3 DEF CheckVersion
    <3>2. made \in LoadRow /\ made.at = "loaded" /\ Genuine(made)
      BY <2>1 DEF LoadRow, Genuine
    <3> HIDE DEF made
    <3> QED
      BY <2>2, <3>1, <3>2, LoadKeepsKeys
  <2>4. CASE load[p].rev # stored.rev
    <3> DEFINE made == [NoLoad EXCEPT !.at = "rows", !.since = load[p].since, !.rev = stored.rev]
    <3>1. load' = [load EXCEPT ![p] = made]
      BY <1>4, <2>4 DEF CheckVersion
    <3>2. [k \in Keys |-> NoKey] \in Rows /\ NoLoad \in LoadRow
      BY DEF Rows, KeyRow, NoLoad, LoadRow
    <3>3. made \in LoadRow /\ made.at = "rows" /\ made.rev = stored.rev
      BY <2>1, <3>2 DEF LoadRow
    <3>4. made.rev <= stored.rev
      BY <2>1, <3>3
    <3> HIDE DEF made
    <3> QED
      BY <2>1, <2>2, <3>1, <3>3, <3>4, LoadKeepsKeys
  <2> QED
    BY <2>3, <2>4
<1>5. ASSUME NEW p \in KeyProcesses, FinishRefresh(p) PROVE KeysInv'
  <2>1. load' \in [KeyProcesses -> LoadRow]
    BY <1>5 DEF FinishRefresh, KeysInv, KeysTypeOK, NoLoad, LoadRow, Rows, KeyRow
  <2>2. \A q \in KeyProcesses : q # p => load'[q] = load[q]
    BY <1>5 DEF FinishRefresh, KeysInv, KeysTypeOK
  <2>3. load'[p].at = "idle"
    BY <1>5 DEF FinishRefresh, KeysInv, KeysTypeOK, NoLoad
  <2>4. Genuine(load[p])
    BY <1>5 DEF FinishRefresh, KeysInv
  <2>5. /\ keyView' \in [KeyProcesses -> [rows : Rows, rev : 1..MaxRev]]
        /\ \A q \in KeyProcesses : Genuine(keyView[q])'
    BY <1>5, <2>4 DEF FinishRefresh, KeysInv, KeysTypeOK, Genuine
  <2> QED
    BY <1>5, <2>1, <2>2, <2>3, <2>5
       DEF FinishRefresh, LoadRow, KeysInv, KeysTypeOK, EditsStand, KeysAreDistinct, Genuine
<1>6. ASSUME NEW p \in KeyProcesses, RefreshFails(p) PROVE KeysInv'
  <2>1. NoLoad \in LoadRow /\ NoLoad.at = "idle"
    BY DEF NoLoad, LoadRow, Rows, KeyRow
  <2> QED
    BY <1>6, <2>1, LoadKeepsKeys DEF RefreshFails
<1>7. ASSUME NEW p \in KeyProcesses,
             \/ AskEdit(p) \/ Authenticate(p) \/ CallFails(p) \/ Conflict(p)
      PROVE  KeysInv'
  <2>1. UNCHANGED <<stored, keyView, load, given, edited>>
    BY <1>7 DEF AskEdit, Authenticate, CallFails, Conflict
  <2>2. call' \in [KeyProcesses -> [at : {"idle", "loading", "writing"},
                                    use : Hashes \cup {"none"}]]
    <3>1. call \in [KeyProcesses -> [at : {"idle", "loading", "writing"},
                                     use : Hashes \cup {"none"}]]
      BY DEF KeysInv, KeysTypeOK
    <3>2. CASE AskEdit(p)
      BY <3>1, <3>2 DEF AskEdit, NoUse
    <3>3. CASE Authenticate(p)
      BY <3>1, <3>3 DEF Authenticate, NoUse
    <3>4. CASE CallFails(p)
      BY <3>1, <3>4 DEF CallFails, End, NoUse
    <3>5. CASE Conflict(p)
      BY <3>1, <3>5 DEF Conflict, NoUse
    <3> QED
      BY <1>7, <3>2, <3>3, <3>4, <3>5
  <2> QED
    BY <2>1, <2>2 DEF KeysInv, KeysTypeOK, EditsStand, KeysAreDistinct, Genuine
<1>8. ASSUME NEW p \in KeyProcesses, Reload(p) PROVE KeysInv'
  <2>1. call' \in [KeyProcesses -> [at : {"idle", "loading", "writing"},
                                    use : Hashes \cup {"none"}]]
    BY <1>8 DEF Reload, End, NoUse, KeysInv, KeysTypeOK
  <2>2. /\ keyView' \in [KeyProcesses -> [rows : Rows, rev : 1..MaxRev]]
        /\ \A q \in KeyProcesses : Genuine(keyView[q])'
    BY <1>8 DEF Reload, KeysInv, KeysTypeOK, Genuine
  <2> QED
    BY <1>8, <2>1, <2>2
       DEF Reload, KeysInv, KeysTypeOK, EditsStand, KeysAreDistinct, Genuine
<1>9. ASSUME NEW p \in KeyProcesses, WriteKey(p) PROVE KeysInv'
  <2>1. /\ KeysTypeOK' /\ EditsStand' /\ KeysAreDistinct'
        /\ \A q \in KeyProcesses : Genuine(keyView[q])'
        /\ stored'.rev > stored.rev
    BY <1>9, WriteKeepsKeys
  <2>2. load' = load
    BY <1>9 DEF WriteKey
  <2>3. /\ stored.rev \in Nat /\ stored'.rev \in Nat
        /\ \A q \in KeyProcesses : load[q].rev \in Nat
    BY <2>1 DEF KeysInv, KeysTypeOK
  <2>4. \A q \in KeyProcesses :
          load[q].at \in {"rows", "check", "loaded"} => load[q].rev < stored'.rev
    BY <2>1, <2>3 DEF KeysInv, Genuine
  <2> QED
    BY <2>1, <2>2, <2>3, <2>4 DEF KeysInv, Genuine
<1> QED
  BY <1>1, <1>2, <1>3, <1>4, <1>5, <1>6, <1>7, <1>8, <1>9 DEF KeysNext

\* The inductive invariant of the keys.
THEOREM KeysInvariance == KeysSpec => []KeysInv
BY InitKeys, StepKeepsKeys, PTL DEF KeysSpec

\* Whatever processes edit keys and write back uses from stale views, the
\* stored keys are what the edits made of them, no two have one secret, and a
\* view that names the stored revision is the collection.
THEOREM KeysAlwaysHold == KeysSpec => []KeysHold
<1>1. KeysInv => KeysHold
  BY DEF KeysInv, KeysHold, ViewsAreReal, Genuine
<1> QED
  BY <1>1, KeysInvariance, PTL

-----------------------------------------------------------------------------
(* The runner of the registration and its lease *)

\* Where a run is says how many registrations it may have submitted since it
\* last held the lease, and whether it has room for one more.
RunWithin(p) ==
  /\ phase[p] \in {"none", "finish"} => flying[p] = 0
  /\ phase[p] \in {"decide", "submit"} => flying[p] < MaxInflight
  /\ strays[p] <= 2
  /\ ~halted[p] \/ phase[p] \in {"decide", "submit"} => strays[p] <= 1
  /\ phase[p] = "submit" /\ ~halted[p] => strays[p] = 0

Leases == [owner : RunnerProcesses \cup {Nobody}, active : BOOLEAN]

\* RunnerTypeOK
RunTypes ==
  /\ phase \in [RunnerProcesses -> Phases]
  /\ halted \in [RunnerProcesses -> BOOLEAN]
  /\ flying \in [RunnerProcesses -> 0..MaxInflight]
  /\ runnerLease \in Leases
  /\ wanted \in BOOLEAN /\ starts \in 0..MaxStarts /\ strays \in [RunnerProcesses -> Nat]

\* The inductive invariant of the runner.
RunsInv == RunTypes /\ \A p \in RunnerProcesses : RunWithin(p)

\* What a lease row is.
LEMMA LeaseRows ==
  ASSUME NEW p \in RunnerProcesses \cup {Nobody}
  PROVE  /\ [owner |-> p, active |-> TRUE] \in Leases
         /\ [owner |-> p, active |-> FALSE] \in Leases
BY DEF Leases

\* What changing one field of a lease gives.
LEMMA LeaseUpdates ==
  ASSUME NEW made \in Leases
  PROVE  /\ [made EXCEPT !.active = FALSE] \in Leases
         /\ [made EXCEPT !.owner = Nobody] \in Leases
BY DEF Leases

\* What _bump does to the row of a run, and that it leaves the others alone.
LEMMA RenewsEffect ==
  ASSUME RunsInv, NEW p \in RunnerProcesses, Renews(p)
  PROVE  /\ halted' \in [RunnerProcesses -> BOOLEAN]
         /\ strays' \in [RunnerProcesses -> Nat]
         /\ runnerLease' \in Leases
         /\ \/ strays'[p] = 0 /\ halted'[p] = halted[p]
            \/ strays'[p] = strays[p] /\ halted'[p]
         /\ \A q \in RunnerProcesses \ {p} : halted'[q] = halted[q] /\ strays'[q] = strays[q]
<1>1. CASE HeldByOther(p)
  BY <1>1 DEF Renews, RunsInv, RunTypes
<1>2. CASE ~HeldByOther(p)
  <2>1. runnerLease' \in Leases
    BY <1>2, LeaseRows DEF Renews, Acquired
  <2> QED
    BY <1>2, <2>1 DEF Renews, Acquired, RunsInv, RunTypes
<1> QED
  BY <1>1, <1>2

\* A step of the run of p, given what it makes of the row of p.
LEMMA RunStepKeepsRuns ==
  ASSUME RunsInv, NEW p \in RunnerProcesses, RunTypes', RunWithin(p)',
         \A q \in RunnerProcesses \ {p} :
           /\ phase'[q] = phase[q] /\ flying'[q] = flying[q]
           /\ halted'[q] = halted[q] /\ strays'[q] = strays[q]
  PROVE  RunsInv'
BY DEF RunsInv, RunWithin

\* One step of a runner, an administrator or a lease.
LEMMA RunStepKeepsInv == RunsInv /\ [RunnerNext]_runnerVars => RunsInv'
<1> SUFFICES ASSUME RunsInv, [RunnerNext]_runnerVars PROVE RunsInv'
  OBVIOUS
<1> USE RunnerAssumption
<1>t. RunTypes
  BY DEF RunsInv
<1>1. CASE UNCHANGED runnerVars
  BY <1>1 DEF runnerVars, RunsInv, RunTypes, RunWithin
<1>2. CASE LeaseExpires
  BY <1>2, LeaseUpdates DEF LeaseExpires, RunsInv, RunTypes, RunWithin
<1>3. ASSUME NEW p \in RunnerProcesses,
             \/ RunnerTurns(p) \/ RunnerLooks(p) \/ RunnerDecides(p)
             \/ SubmitRegistration(p) \/ RunnerWaits(p) \/ RunnerDrains(p)
             \/ RunnerFinishes(p) \/ StartRunner(p) \/ StopRunner(p) \/ ProcessDies(p)
      PROVE  RunsInv'
  <2>w. RunWithin(p)
    BY DEF RunsInv
  <2>1. CASE RunnerTurns(p)
    <3>1. CASE halted[p]
      BY <1>t, <2>w, <2>1, <3>1, RunStepKeepsRuns
         DEF RunnerTurns, RunnerMoves, RunTypes, Phases, RunWithin
    <3>2. CASE ~halted[p]
      BY <1>t, <2>w, <2>1, <3>2, RenewsEffect, RunStepKeepsRuns
         DEF RunnerTurns, RunnerMoves, RunTypes, Phases, RunWithin
    <3> QED
      BY <3>1, <3>2
  <2>2. CASE RunnerLooks(p)
    BY <1>t, <2>w, <2>2, RunStepKeepsRuns
       DEF RunnerLooks, RunnerMoves, RunTypes, Phases, RunWithin
  <2>3. CASE RunnerDecides(p)
    BY <1>t, <2>w, <2>3, RenewsEffect, RunStepKeepsRuns
       DEF RunnerDecides, RunnerMoves, RunTypes, Phases, RunWithin
  <2>4. CASE SubmitRegistration(p)
    BY <1>t, <2>w, <2>4, RunStepKeepsRuns
       DEF SubmitRegistration, RunnerMoves, RunTypes, Phases, RunWithin
  <2>5. CASE RunnerWaits(p)
    BY <1>t, <2>w, <2>5, RenewsEffect, RunStepKeepsRuns
       DEF RunnerWaits, RunnerMoves, Collected, RunTypes, Phases, RunWithin
  <2>6. CASE RunnerDrains(p)
    <3>1. CASE flying[p] > 0
      BY <1>t, <2>w, <2>6, <3>1, RenewsEffect, RunStepKeepsRuns
         DEF RunnerDrains, Collected, RunTypes, RunWithin
    <3>2. CASE ~(flying[p] > 0)
      BY <1>t, <2>w, <2>6, <3>2, RunStepKeepsRuns
         DEF RunnerDrains, RunnerMoves, RunTypes, Phases, RunWithin
    <3> QED
      BY <3>1, <3>2
  <2>7. CASE RunnerFinishes(p)
    <3>1. CASE HeldByOther(p)
      BY <1>t, <2>w, <2>7, <3>1, RenewsEffect, RunStepKeepsRuns
         DEF RunnerFinishes, RunnerMoves, RunTypes, Phases, RunWithin
    <3>2. CASE ~HeldByOther(p)
      <4>1. runnerLease' \in Leases
        BY <2>7, <3>2, LeaseRows DEF RunnerFinishes
      <4>2. wanted' \in BOOLEAN /\ halted' = halted /\ strays' = strays
        BY <2>7, <3>2 DEF RunnerFinishes
      <4>3. /\ phase' = [phase EXCEPT ![p] = "none"] /\ phase[p] = "finish"
            /\ flying' = flying /\ starts' = starts
        BY <2>7 DEF RunnerFinishes, RunnerMoves
      <4> QED
        BY <1>t, <2>w, <4>1, <4>2, <4>3, RunStepKeepsRuns DEF RunTypes, Phases, RunWithin
    <3> QED
      BY <3>1, <3>2
  <2>8. CASE StartRunner(p)
    <3>1. runnerLease' \in Leases
      BY <2>8, LeaseRows DEF StartRunner, Acquired
    <3>0. wanted' \in BOOLEAN
      BY <2>8 DEF StartRunner
    <3>2. /\ starts' = starts + 1 /\ starts < MaxStarts
          /\ halted' = [halted EXCEPT ![p] = FALSE] /\ strays' = [strays EXCEPT ![p] = 0]
          /\ phase' = [phase EXCEPT ![p] = "loop"] /\ flying' = flying
      BY <2>8 DEF StartRunner, Acquired, RunnerMoves
    <3>3. RunTypes'
      BY <1>t, <3>0, <3>1, <3>2 DEF RunTypes, Phases
    <3>4. RunWithin(p)'
      BY <1>t, <2>w, <2>8, <3>2 DEF RunTypes, Phases, RunWithin, StartRunner
    <3> QED
      BY <1>t, <3>2, <3>3, <3>4, RunStepKeepsRuns DEF RunTypes
  <2>9. CASE StopRunner(p)
    BY <1>t, <2>w, <2>9, RunStepKeepsRuns DEF StopRunner, RunTypes, RunWithin
  <2>10. CASE ProcessDies(p)
    <3>1. runnerLease' \in Leases
      BY <1>t, <2>10, LeaseUpdates DEF ProcessDies, RunTypes
    <3>2. /\ wanted' = wanted /\ starts' = starts
          /\ halted' = [halted EXCEPT ![p] = FALSE] /\ strays' = [strays EXCEPT ![p] = 0]
          /\ phase' = [phase EXCEPT ![p] = "none"] /\ flying' = [flying EXCEPT ![p] = 0]
      BY <2>10 DEF ProcessDies, RunnerMoves
    <3>3. RunTypes'
      BY <1>t, <3>1, <3>2 DEF RunTypes, Phases
    <3>4. RunWithin(p)'
      BY <1>t, <2>w, <3>2 DEF RunTypes, Phases, RunWithin
    <3> QED
      BY <1>t, <3>2, <3>3, <3>4, RunStepKeepsRuns DEF RunTypes
  <2> QED
    BY <1>3, <2>1, <2>2, <2>3, <2>4, <2>5, <2>6, <2>7, <2>8, <2>9, <2>10
<1>4. ASSUME NEW p \in RunnerProcesses, StartAgain(p) PROVE RunsInv'
  BY <1>4 DEF StartAgain, RunsInv, RunTypes, RunWithin
<1> QED
  BY <1>1, <1>2, <1>3, <1>4 DEF RunnerNext

\* No run has begun.
LEMMA InitRuns == RunnerInit => RunsInv
<1> SUFFICES ASSUME RunnerInit PROVE RunsInv
  OBVIOUS
<1>1. runnerLease \in Leases
  BY LeaseRows DEF RunnerInit
<1>2. /\ phase = [p \in RunnerProcesses |-> "none"]
      /\ halted = [p \in RunnerProcesses |-> FALSE]
      /\ flying = [p \in RunnerProcesses |-> 0]
      /\ strays = [p \in RunnerProcesses |-> 0]
      /\ starts = 0
  BY DEF RunnerInit
<1>3. wanted \in BOOLEAN
  BY DEF RunnerInit
<1> QED
  BY <1>1, <1>2, <1>3, RunnerAssumption DEF RunsInv, RunTypes, Phases, RunWithin

\* The invariant of the runner holds of every run and lease it can come to.
LEMMA RunsAlways == RunnerSpec => []RunsInv
BY InitRuns, RunStepKeepsInv, PTL DEF RunnerSpec

\* A run that lost its lease submits at most two registrations more, and leaves
\* none in flight, whatever number of processes take the lease in turn.
THEOREM LostRunsEnd == RunnerSpec => []LostRunsStop
<1>1. RunsInv => LostRunsStop
  BY DEF RunsInv, RunWithin, LostRunsStop
<1> QED
  BY <1>1, RunsAlways, PTL

-----------------------------------------------------------------------------
(* Codes in shared inboxes *)

Codes == [by : Attempts, n : 1..MaxAsks, to : Addresses]
AttemptRow == [at : {"idle", "waiting", "validating", "ended"},
               to : Addresses \cup {"none"}, asks : 0..MaxAsks, after : Nat,
               seen : SUBSET Codes, code : Codes \cup {NoCode}]

ActiveAttempt(a) == attempt[a].at \in {"waiting", "validating"}
LastCode(a) == [by |-> a, n |-> attempt[a].asks, to |-> attempt[a].to]

\* The code c may reach the registration a, or has reached it after its boundary.
Comes(a, c) ==
  c.to = attempt[a].to /\ (c \in Received => inbox[c] >= attempt[a].after)

\* The rows, and the order in which codes were received.
InboxInv ==
  /\ attempt \in [Attempts -> AttemptRow]
  /\ transit \subseteq Codes /\ Received \subseteq Codes
  /\ late \in [Attempts -> SUBSET Codes]
  /\ IsFiniteSet(Received)
  /\ \A c \in Received : inbox[c] \in Nat /\ inbox[c] < Clock
  /\ transit \cap Received = {}
  /\ \A a \in Attempts : attempt[a].seen \subseteq Received

\* A code was asked for by a registration that began; of one that still asks, by
\* one of its requests so far.
CodesAreIssued ==
  \A c \in transit \cup Received :
    /\ attempt[c.by].at # "idle"
    /\ ActiveAttempt(c.by) => c.n <= attempt[c.by].asks

\* No two registrations at work have one address.
AddressesAreApart ==
  \A a, o \in Attempts :
    ActiveAttempt(a) /\ ActiveAttempt(o) /\ a # o => attempt[a].to # attempt[o].to

\* What can still come for a registration that has asked is its last code or one
\* that was under way.
NothingElseComes ==
  \A a \in Attempts :
    /\ attempt[a].at = "waiting" /\ attempt[a].asks > 0
         => \A c \in transit \cup Received : Comes(a, c) => c \in late[a] \cup {LastCode(a)}
    /\ ActiveAttempt(a) => attempt[a].to \in Addresses

\* The inductive invariant of the codes.
CodesInv == InboxInv /\ CodesAreIssued /\ AddressesAreApart /\ NothingElseComes /\ CodesAreOwn

\* Nothing is sent at first.
LEMMA InitCodes == CodesInit => CodesInv
<1> SUFFICES ASSUME CodesInit PROVE CodesInv
  OBVIOUS
<1>1. Received = {} /\ transit = {} /\ IsFiniteSet(Received)
  BY FS_EmptySet DEF CodesInit, Received
<1>2. NoAttempt \in AttemptRow /\ NoAttempt.at = "idle" /\ NoAttempt.seen = {}
  BY CodesAssumption DEF NoAttempt, AttemptRow
<1>3. \A a \in Attempts : attempt[a] = NoAttempt
  BY DEF CodesInit
<1>4. attempt \in [Attempts -> AttemptRow] /\ late \in [Attempts -> SUBSET Codes]
  BY <1>2 DEF CodesInit
<1>5. InboxInv
  BY <1>1, <1>2, <1>3, <1>4 DEF InboxInv
<1> QED
  BY <1>1, <1>2, <1>3, <1>5
     DEF CodesInv, CodesAreIssued, AddressesAreApart, NothingElseComes, CodesAreOwn, ActiveAttempt

\* A registration moves, or ends, and no code does.
LEMMA AttemptKeepsCodes ==
  ASSUME CodesInv, NEW a \in Attempts, NEW made \in AttemptRow,
         attempt' = [attempt EXCEPT ![a] = made], UNCHANGED <<transit, inbox, late>>,
         made.at # "idle", made.seen \subseteq Received,
         made.at \in {"waiting", "validating"} =>
           /\ made.to \in Addresses
           /\ \A o \in Attempts \ {a} : ActiveAttempt(o) => attempt[o].to # made.to
           /\ \A c \in transit \cup Received : c.by = a => c.n <= made.asks,
         made.at = "waiting" => made.asks = 0,
         made.at = "validating" => made.code \in late[a] \cup {[by |-> a, n |-> made.asks, to |-> made.to]}
  PROVE  CodesInv'
<1>1. attempt'[a] = made /\ \A o \in Attempts \ {a} : attempt'[o] = attempt[o]
  BY DEF CodesInv, InboxInv
<1>2. /\ Received' = Received /\ Clock' = Clock
      /\ \A c \in Codes : c.by \in Attempts
  BY DEF Received, Clock, Codes
<1>3. InboxInv'
  <2>1. attempt' \in [Attempts -> AttemptRow]
    BY DEF CodesInv, InboxInv
  <2> QED
    BY <1>1, <1>2, <2>1 DEF CodesInv, InboxInv
<1>4. CodesAreIssued'
  BY <1>1, <1>2 DEF CodesInv, InboxInv, CodesAreIssued, ActiveAttempt
<1>5. AddressesAreApart'
  BY <1>1 DEF CodesInv, AddressesAreApart, ActiveAttempt
<1>6. NothingElseComes'
  <2>1. ASSUME NEW o \in Attempts \ {a}
        PROVE  \A c \in transit \cup Received : Comes(o, c)' <=> Comes(o, c)
    BY <1>1, <1>2 DEF Comes
  <2>2. \A o \in Attempts \ {a} : LastCode(o)' = LastCode(o)
    BY <1>1 DEF LastCode
  <2> QED
    BY <1>1, <1>2, <2>1, <2>2 DEF CodesInv, NothingElseComes, ActiveAttempt
<1>7. CodesAreOwn'
  BY <1>1 DEF CodesInv, CodesAreOwn
<1> QED
  BY <1>3, <1>4, <1>5, <1>6, <1>7 DEF CodesInv

\* A registration takes an address.
LEMMA ClaimKeepsCodes ==
  ASSUME CodesInv, NEW a \in Attempts, ClaimAddress(a)
  PROVE  CodesInv'
<1>1. PICK b \in Addresses :
        /\ \A o \in Attempts : attempt[o].at \in {"waiting", "validating"} => attempt[o].to # b
        /\ attempt' = [attempt EXCEPT ![a] =
             [NoAttempt EXCEPT !.at = "waiting", !.to = b, !.after = Clock]]
  BY DEF ClaimAddress
<1> DEFINE made == [NoAttempt EXCEPT !.at = "waiting", !.to = b, !.after = Clock]
<1>2. Clock \in Nat
  BY FS_CardinalityType DEF CodesInv, InboxInv, Clock
<1>3. /\ made \in AttemptRow /\ made.at = "waiting" /\ made.to = b /\ made.asks = 0
      /\ made.seen = {}
  <2>1. NoAttempt \in AttemptRow /\ NoAttempt.asks = 0 /\ NoAttempt.seen = {}
    BY CodesAssumption DEF NoAttempt, AttemptRow
  <2> QED
    BY <1>2, <2>1 DEF AttemptRow
<1>4. attempt[a].at = "idle"
  BY DEF ClaimAddress, NoAttempt
<1>5. \A c \in transit \cup Received : c.by # a
  BY <1>4 DEF CodesInv, CodesAreIssued
<1>6. attempt' = [attempt EXCEPT ![a] = made] /\ UNCHANGED <<transit, inbox, late>>
  BY <1>1 DEF ClaimAddress
<1> HIDE DEF made
<1> QED
  BY <1>1, <1>3, <1>5, <1>6, AttemptKeepsCodes DEF ActiveAttempt

\* A registration ends.
LEMMA EndKeepsCodes ==
  ASSUME CodesInv, NEW a \in Attempts, ValidateCode(a) \/ WaitTimesOut(a)
  PROVE  CodesInv'
<1> DEFINE made == [NoAttempt EXCEPT !.at = "ended"]
<1>1. made \in AttemptRow /\ made.at = "ended" /\ made.seen = {}
  BY CodesAssumption DEF NoAttempt, AttemptRow
<1>2. attempt' = [attempt EXCEPT ![a] = made] /\ UNCHANGED <<transit, inbox, late>>
  BY DEF ValidateCode, WaitTimesOut
<1> HIDE DEF made
<1> QED
  BY <1>1, <1>2, AttemptKeepsCodes

\* A code is read from the inbox.
LEMMA ReceiveKeepsCodes ==
  ASSUME CodesInv, NEW a \in Attempts, ReceiveVerificationCode(a)
  PROVE  CodesInv'
<1>1. PICK c \in Newest(a) :
        attempt' = [attempt EXCEPT ![a].at = "validating", ![a].code = c, ![a].seen = @ \cup {c}]
  BY DEF ReceiveVerificationCode
<1>2. c \in Received /\ Comes(a, c) /\ c \in Codes
  BY DEF Newest, Eligible, Comes, CodesInv, InboxInv
<1>3. attempt[a].at = "waiting" /\ attempt[a].asks > 0 /\ attempt[a] \in AttemptRow
  BY DEF ReceiveVerificationCode, CodesInv, InboxInv
<1> DEFINE made == [attempt[a] EXCEPT !.at = "validating", !.code = c, !.seen = @ \cup {c}]
<1>4. /\ made \in AttemptRow /\ made.at = "validating" /\ made.code = c
      /\ made.to = attempt[a].to /\ made.asks = attempt[a].asks
      /\ made.seen = attempt[a].seen \cup {c}
  BY <1>2, <1>3 DEF AttemptRow
<1>5. attempt' = [attempt EXCEPT ![a] = made] /\ UNCHANGED <<transit, inbox, late>>
  BY <1>1 DEF ReceiveVerificationCode, CodesInv, InboxInv
<1>6. c \in late[a] \cup {LastCode(a)}
  BY <1>2, <1>3 DEF CodesInv, NothingElseComes
<1>7. made.code \in late[a] \cup {[by |-> a, n |-> made.asks, to |-> made.to]}
  BY <1>4, <1>6 DEF LastCode
<1>8. made.seen \subseteq Received
  BY <1>2, <1>4 DEF CodesInv, InboxInv
<1>9. /\ made.to \in Addresses
      /\ \A o \in Attempts \ {a} : ActiveAttempt(o) => attempt[o].to # made.to
      /\ \A d \in transit \cup Received : d.by = a => d.n <= made.asks
  BY <1>3, <1>4 DEF CodesInv, NothingElseComes, AddressesAreApart, CodesAreIssued, ActiveAttempt
<1> HIDE DEF made
<1> QED
  BY <1>4, <1>5, <1>7, <1>8, <1>9, AttemptKeepsCodes

\* A registration asks for a code.
LEMMA AskKeepsCodes ==
  ASSUME CodesInv, NEW a \in Attempts, AskForCode(a)
  PROVE  CodesInv'
<1> DEFINE n == attempt[a].asks + 1
           code == [by |-> a, n |-> n, to |-> attempt[a].to]
           made == [attempt[a] EXCEPT !.asks = n, !.after = Clock]
<1>1. /\ attempt[a].at = "waiting" /\ attempt[a].asks < MaxAsks /\ attempt[a] \in AttemptRow
      /\ attempt[a].to \in Addresses
  BY DEF AskForCode, CodesInv, InboxInv, NothingElseComes, ActiveAttempt
<1>2. Clock \in Nat
  BY FS_CardinalityType DEF CodesInv, InboxInv, Clock
<1>3. /\ made \in AttemptRow /\ made.at = "waiting" /\ made.asks = n /\ made.after = Clock
      /\ made.to = attempt[a].to /\ made.seen = attempt[a].seen
      /\ n \in 1..MaxAsks
  <2>1. n \in 1..MaxAsks /\ n \in 0..MaxAsks
    BY <1>1, CodesAssumption DEF AttemptRow
  <2> HIDE DEF n
  <2> QED
    BY <1>1, <1>2, <2>1 DEF AttemptRow
<1>4. code \in Codes
  BY <1>1, <1>3 DEF Codes
<1>5. /\ attempt' = [attempt EXCEPT ![a] = made]
      /\ late' = [late EXCEPT ![a] = {c \in transit : c.to = attempt[a].to}]
      /\ transit' = transit \cup {code} /\ inbox' = inbox
  BY DEF AskForCode, Boundary, CodesInv, InboxInv
<1>6. /\ code.by = a /\ code.n = n /\ code.to = attempt[a].to
      /\ code \notin transit \cup Received
  BY <1>1 DEF CodesInv, CodesAreIssued, ActiveAttempt, AttemptRow
<1> HIDE DEF made, code
<1>7. attempt'[a] = made /\ \A o \in Attempts \ {a} : attempt'[o] = attempt[o]
  BY <1>5 DEF CodesInv, InboxInv
<1>8. Received' = Received /\ Clock' = Clock
  BY <1>5 DEF Received, Clock
<1>9. /\ late'[a] = {c \in transit : c.to = attempt[a].to}
      /\ \A o \in Attempts \ {a} : late'[o] = late[o]
  BY <1>5 DEF CodesInv, InboxInv
<1>10. InboxInv'
  <2>1. attempt' \in [Attempts -> AttemptRow]
    BY <1>3, <1>5 DEF CodesInv, InboxInv
  <2>2. late' \in [Attempts -> SUBSET Codes] /\ transit' \subseteq Codes
    BY <1>4, <1>5 DEF CodesInv, InboxInv
  <2>3. transit' \cap Received = {}
    BY <1>5, <1>6 DEF CodesInv, InboxInv
  <2>4. \A o \in Attempts : attempt'[o].seen \subseteq Received
    BY <1>3, <1>7 DEF CodesInv, InboxInv
  <2> QED
    BY <1>5, <1>8, <2>1, <2>2, <2>3, <2>4 DEF CodesInv, InboxInv
<1>11. CodesAreIssued'
  BY <1>1, <1>3, <1>5, <1>6, <1>7, <1>8
     DEF CodesInv, InboxInv, CodesAreIssued, ActiveAttempt, AttemptRow, Codes
<1>12. AddressesAreApart'
  BY <1>1, <1>3, <1>7 DEF CodesInv, AddressesAreApart, ActiveAttempt
<1>13. NothingElseComes'
  <2>1. ASSUME NEW o \in Attempts \ {a}, attempt[o].at = "waiting", attempt[o].asks > 0,
               NEW c \in transit' \cup Received', Comes(o, c)'
        PROVE  c \in late'[o] \cup {LastCode(o)'}
    <3>1. attempt[a].to # attempt[o].to
      BY <1>1, <2>1 DEF CodesInv, AddressesAreApart, ActiveAttempt
    <3>2. c.to = attempt[o].to /\ Comes(o, c)
      BY <1>5, <1>7, <1>8, <2>1 DEF Comes
    <3>3. c \in transit \cup Received
      BY <1>5, <1>6, <1>8, <3>1, <3>2
    <3>4. LastCode(o)' = LastCode(o)
      BY <1>7 DEF LastCode
    <3> QED
      BY <1>9, <2>1, <3>2, <3>3, <3>4 DEF CodesInv, NothingElseComes
  <2>2. ASSUME NEW c \in transit' \cup Received', Comes(a, c)'
        PROVE  c \in late'[a] \cup {LastCode(a)'}
    <3>1. LastCode(a)' = code
      BY <1>3, <1>7 DEF LastCode, code
    <3>2. c.to = attempt[a].to
      BY <1>3, <1>7, <2>2 DEF Comes
    <3>3. CASE c \in Received
      <4>1. inbox[c] >= Clock /\ inbox[c] < Clock /\ inbox[c] \in Nat
        BY <1>3, <1>5, <1>7, <1>8, <2>2, <3>3 DEF Comes, CodesInv, InboxInv
      <4> QED
        BY <1>2, <4>1
    <3>4. CASE c \in transit
      BY <1>9, <3>2, <3>4
    <3>5. CASE c = code
      BY <3>1, <3>5
    <3> QED
      BY <1>5, <1>8, <3>3, <3>4, <3>5
  <2> QED
    BY <1>1, <1>3, <1>7, <2>1, <2>2 DEF CodesInv, NothingElseComes, ActiveAttempt
<1>14. CodesAreOwn'
  BY <1>3, <1>7, <1>9 DEF CodesInv, CodesAreOwn
<1> QED
  BY <1>10, <1>11, <1>12, <1>13, <1>14 DEF CodesInv

\* A code arrives, in time or late.
LEMMA ArrivalKeepsCodes ==
  ASSUME CodesInv, CodeArrives
  PROVE  CodesInv'
<1>1. PICK c \in transit :
        /\ transit' = transit \ {c}
        /\ inbox' = [d \in Received \cup {c} |-> IF d = c THEN Clock ELSE inbox[d]]
  BY DEF CodeArrives
<1>2. attempt' = attempt /\ late' = late
  BY DEF CodeArrives
<1>3. Received' = Received \cup {c} /\ c \notin Received /\ c \in Codes
  BY <1>1 DEF Received, CodesInv, InboxInv
<1>4. IsFiniteSet(Received') /\ Clock' = Clock + 1 /\ Clock \in Nat
  BY <1>3, FS_AddElement, FS_CardinalityType DEF CodesInv, InboxInv, Clock
<1>5. inbox'[c] = Clock /\ \A d \in Received : inbox'[d] = inbox[d]
  BY <1>1, <1>3
<1>6. InboxInv'
  <2>1. \A d \in Received' : inbox'[d] \in Nat /\ inbox'[d] < Clock'
    BY <1>3, <1>4, <1>5 DEF CodesInv, InboxInv
  <2>2. transit' \cap Received' = {} /\ transit' \subseteq Codes /\ Received' \subseteq Codes
    BY <1>1, <1>3 DEF CodesInv, InboxInv
  <2> QED
    BY <1>2, <1>3, <1>4, <2>1, <2>2 DEF CodesInv, InboxInv
<1>7. transit' \cup Received' = transit \cup Received
  BY <1>1, <1>3
<1>8. CodesAreIssued' /\ AddressesAreApart' /\ CodesAreOwn'
  BY <1>2, <1>7 DEF CodesInv, CodesAreIssued, AddressesAreApart, CodesAreOwn, ActiveAttempt
<1>9. \A a \in Attempts, d \in transit \cup Received : Comes(a, d)' => Comes(a, d)
  BY <1>2, <1>3, <1>5 DEF Comes
<1>10. \A a \in Attempts : LastCode(a)' = LastCode(a)
  BY <1>2 DEF LastCode
<1>11. NothingElseComes'
  BY <1>2, <1>7, <1>9, <1>10 DEF CodesInv, NothingElseComes, ActiveAttempt
<1> QED
  BY <1>6, <1>8, <1>11 DEF CodesInv

\* One step of a registration, of a mailbox or of the clock.
LEMMA StepKeepsCodes == CodesInv /\ [CodesNext]_codeVars => CodesInv'
<1> SUFFICES ASSUME CodesInv, [CodesNext]_codeVars PROVE CodesInv'
  OBVIOUS
<1>1. CASE UNCHANGED codeVars
  BY <1>1 DEF codeVars, CodesInv, InboxInv, CodesAreIssued, AddressesAreApart,
              NothingElseComes, CodesAreOwn, ActiveAttempt, Comes, LastCode, Received, Clock
<1> QED
  BY <1>1, ClaimKeepsCodes, AskKeepsCodes, ReceiveKeepsCodes, EndKeepsCodes, ArrivalKeepsCodes
     DEF CodesNext

\* However late mail is and whoever used the inbox before, a registration
\* validates its last code or one that was under way when it asked.
THEOREM CodesAreTheirOwn == CodesSpec => []CodesAreOwn
<1>1. CodesInv => CodesAreOwn
  BY DEF CodesInv
<1> QED
  BY <1>1, InitCodes, StepKeepsCodes, PTL DEF CodesSpec

-----------------------------------------------------------------------------
(* Proxy groups *)

\* The nodes of a group with their limits; NoNodes is one of them.
AllLayouts == UNION {[ns -> Nat] : ns \in SUBSET Nodes}
RequestRow == [at : {"idle", "waiting", "building", "streaming", "ended"}, account : References,
               group : Groups \cup {"none"}, node : Nodes \cup {"none"}, limit : Nat,
               nodes : AllLayouts, tries : Nat, fallback : BOOLEAN]

\* The layout never allows more than the node ever did.
Within(layout, g) ==
  DOMAIN layout \subseteq Nodes /\ \A n \in DOMAIN layout : layout[n] \in Nat /\ layout[n] <= widest[g][n]

Holders(g, n) ==
  {r \in Requests : attempts[r].group = g /\ attempts[r].node = n /\ attempts[r].limit > 0}

RoutesTypeOK ==
  /\ groups \in [Groups -> AllLayouts]
  /\ refs \in [Owners -> References] /\ importing \in References \cup {NothingRead}
  /\ attempts \in [Requests -> RequestRow]
  /\ egressInflight \in [Groups -> [Nodes -> Nat]] /\ leaked \in [Groups -> [Nodes -> Nat]]
  /\ widest \in [Groups -> [Nodes -> Nat]]

\* A request that waits knows limits its group had; only one that was given a
\* node with a limit counts for it.
RequestIsRouted(r) ==
  /\ attempts[r].at = "waiting"
       => attempts[r].group \in Groups /\ Within(attempts[r].nodes, attempts[r].group)
  /\ attempts[r].limit > 0
       => /\ attempts[r].at \in {"building", "streaming"}
          /\ attempts[r].group \in Groups /\ attempts[r].node \in Nodes

\* The slots taken of a node are those its holders hold and those that leaked.
NodeIsCounted(g, n) ==
  /\ IsFiniteSet(Holders(g, n))
  /\ egressInflight[g][n] = leaked[g][n] + Cardinality(Holders(g, n))
  /\ egressInflight[g][n] <= widest[g][n]

\* The inductive invariant of the proxy groups.
RoutesInv ==
  /\ RoutesTypeOK
  /\ \A g \in Groups : Within(groups[g], g)
  /\ \A r \in Requests : RequestIsRouted(r)
  /\ \A g \in Groups, n \in Nodes : NodeIsCounted(g, n)
  /\ ReferredGroupsExist

\* A layout gives nodes their limits.
LEMMA Layout == \A l \in AllLayouts : DOMAIN l \subseteq Nodes /\ \A n \in DOMAIN l : l[n] \in Nat
BY DEF AllLayouts

\* The layout without nodes.
LEMMA EmptyLayout == NoNodes \in AllLayouts /\ DOMAIN NoNodes = {}
<1>1. NoNodes \in [{} -> Nat]
  BY DEF NoNodes
<1> QED
  BY <1>1 DEF AllLayouts, NoNodes

\* What an edit saves is a layout.
LEMMA SavedLayout ==
  ASSUME ProxyAssumption, NEW l \in Layouts
  PROVE  l \in AllLayouts /\ l # NoNodes
<1>1. PICK ns \in (SUBSET Nodes) \ {{}} : l \in [ns -> 0..MaxLimit]
  BY DEF Layouts
<1>2. DOMAIN l = ns /\ ns # {} /\ ns \in SUBSET Nodes
  BY <1>1
<1>3. l \in [ns -> Nat]
  BY <1>1, ProxyAssumption
<1>4. l \in AllLayouts
  BY <1>2, <1>3 DEF AllLayouts
<1> QED
  BY <1>2, <1>4, EmptyLayout

\* No request is on its way.
LEMMA InitRoutes == ProxyInit => RoutesInv
<1> SUFFICES ASSUME ProxyInit PROVE RoutesInv
  OBVIOUS
<1>1. NoRequest \in RequestRow /\ NoRequest.limit = 0 /\ NoRequest.at = "idle"
  BY EmptyLayout DEF NoRequest, RequestRow, References
<1>2. RoutesTypeOK
  BY <1>1, EmptyLayout DEF ProxyInit, RoutesTypeOK, Owners, References, NoSlots
<1>3. \A r \in Requests : attempts[r] = NoRequest
  BY DEF ProxyInit
<1>4. \A g \in Groups, n \in Nodes : Holders(g, n) = {}
  BY <1>1, <1>3 DEF Holders
<1>5. ASSUME NEW g \in Groups, NEW n \in Nodes PROVE NodeIsCounted(g, n)
  <2>1. egressInflight[g][n] = 0 /\ leaked[g][n] = 0 /\ widest[g][n] = 0
    BY DEF ProxyInit, NoSlots
  <2>2. IsFiniteSet({}) /\ Cardinality({}) = 0
    BY FS_EmptySet
  <2>3. IsFiniteSet(Holders(g, n)) /\ Cardinality(Holders(g, n)) = 0
    BY <1>4, <2>2
  <2> QED
    BY <2>1, <2>3 DEF NodeIsCounted
<1>6. \A g \in Groups : Within(groups[g], g)
  BY EmptyLayout DEF ProxyInit, Within
<1>7. ReferredGroupsExist
  <2>1. \A o \in Owners : refs[o] \in {"direct", "unset"}
    BY DEF ProxyInit
  <2> QED
    BY <2>1, ProxyAssumption DEF ReferredGroupsExist
<1> QED
  BY <1>1, <1>2, <1>3, <1>5, <1>6, <1>7 DEF RoutesInv, RequestIsRouted

\* The configuration changes and no request does.
LEMMA ConfigurationKeepsRoutes ==
  ASSUME RoutesInv, UNCHANGED slots,
         groups' \in [Groups -> AllLayouts], refs' \in [Owners -> References],
         importing' \in References \cup {NothingRead},
         widest' \in [Groups -> [Nodes -> Nat]],
         \A g \in Groups, n \in Nodes : widest[g][n] <= widest'[g][n],
         \A g \in Groups : Within(groups[g], g)',
         ReferredGroupsExist'
  PROVE  RoutesInv'
<1> USE DEF slots
<1>1. RoutesTypeOK'
  BY DEF RoutesInv, RoutesTypeOK
<1>2. \A g \in Groups, n \in Nodes : widest[g][n] \in Nat /\ widest'[g][n] \in Nat /\ egressInflight[g][n] \in Nat
  BY DEF RoutesInv, RoutesTypeOK
<1>3. ASSUME NEW r \in Requests PROVE RequestIsRouted(r)'
  <2>1. ASSUME attempts[r].at = "waiting"
        PROVE  attempts[r].group \in Groups /\ Within(attempts[r].nodes, attempts[r].group)'
    <3>1. attempts[r].group \in Groups /\ Within(attempts[r].nodes, attempts[r].group)
      BY <2>1 DEF RoutesInv, RequestIsRouted
    <3> QED
      BY <1>2, <3>1 DEF Within
  <2> QED
    BY <2>1 DEF RoutesInv, RequestIsRouted
<1>4. ASSUME NEW g \in Groups, NEW n \in Nodes PROVE NodeIsCounted(g, n)'
  <2>1. Holders(g, n)' = Holders(g, n)
    BY DEF Holders
  <2> QED
    BY <1>2, <2>1 DEF RoutesInv, NodeIsCounted
<1> QED
  BY <1>1, <1>3, <1>4 DEF RoutesInv

\* Groups and their references are edited.
LEMMA EditKeepsRoutes ==
  ASSUME RoutesInv,
         \/ \E g \in Groups : SaveGroup(g) \/ DeleteGroup(g)
         \/ AssignToAccount \/ SaveAccountGroup \/ SaveDefaults
         \/ DeleteAccountGroup \/ ImportReadsGroups \/ ImportWritesGroups
  PROVE  RoutesInv'
<1>a. /\ groups \in [Groups -> AllLayouts] /\ refs \in [Owners -> References]
      /\ importing \in References \cup {NothingRead}
      /\ widest \in [Groups -> [Nodes -> Nat]]
      /\ \A g \in Groups : Within(groups[g], g)
      /\ \A g \in Groups, n \in Nodes : widest[g][n] \in Nat
      /\ ReferredGroupsExist
  BY DEF RoutesInv, RoutesTypeOK
<1>1. ASSUME NEW g \in Groups, SaveGroup(g) PROVE RoutesInv'
  <2>1. PICK layout \in Layouts :
          /\ groups' = [groups EXCEPT ![g] = layout]
          /\ widest' = [widest EXCEPT ![g] = [n \in Nodes |->
               IF n \in DOMAIN layout /\ layout[n] > widest[g][n] THEN layout[n] ELSE widest[g][n]]]
    BY <1>1 DEF SaveGroup
  <2>2. /\ layout \in AllLayouts /\ layout # NoNodes
        /\ DOMAIN layout \subseteq Nodes /\ \A n \in DOMAIN layout : layout[n] \in Nat
    BY ProxyAssumption, SavedLayout, Layout
  <2>3. UNCHANGED <<refs, importing, overwrote, slots>>
    BY <1>1 DEF SaveGroup
  <2>4. /\ groups' \in [Groups -> AllLayouts] /\ groups'[g] = layout
        /\ \A h \in Groups \ {g} : groups'[h] = groups[h]
    BY <1>a, <2>1, <2>2
  <2>5. \A h \in Groups, n \in Nodes :
          widest'[h][n] = IF h = g /\ n \in DOMAIN layout /\ layout[n] > widest[g][n]
                          THEN layout[n] ELSE widest[h][n]
    BY <1>a, <2>1
  <2>6. widest' \in [Groups -> [Nodes -> Nat]]
    BY <1>a, <2>1, <2>2
  <2>7. \A h \in Groups, n \in Nodes : widest[h][n] <= widest'[h][n]
    BY <1>a, <2>2, <2>5
  <2>8. ASSUME NEW h \in Groups PROVE Within(groups[h], h)'
    <3>1. CASE h = g
      BY <1>a, <2>2, <2>4, <2>5, <3>1 DEF Within
    <3>2. CASE h # g
      BY <1>a, <2>4, <2>5, <3>2 DEF Within
    <3> QED
      BY <3>1, <3>2
  <2>9. ReferredGroupsExist'
    BY <1>a, <2>2, <2>3, <2>4 DEF ReferredGroupsExist
  <2> QED
    BY <1>a, <2>3, <2>4, <2>6, <2>7, <2>8, <2>9, ConfigurationKeepsRoutes
<1>2. ASSUME NEW g \in Groups, DeleteGroup(g) PROVE RoutesInv'
  <2>1. /\ groups' = [groups EXCEPT ![g] = NoNodes] /\ ~Referred(g)
        /\ UNCHANGED <<refs, importing, overwrote, slots, widest>>
    BY <1>2 DEF DeleteGroup
  <2>2. /\ groups' \in [Groups -> AllLayouts] /\ groups'[g] = NoNodes
        /\ \A h \in Groups \ {g} : groups'[h] = groups[h]
    BY <1>a, <2>1, EmptyLayout
  <2>3. ASSUME NEW h \in Groups PROVE Within(groups[h], h)'
    BY <1>a, <2>1, <2>2, EmptyLayout DEF Within
  <2>4. ReferredGroupsExist'
    BY <1>a, <2>1, <2>2 DEF ReferredGroupsExist, Referred
  <2> QED
    BY <1>a, <2>1, <2>2, <2>3, <2>4, ConfigurationKeepsRoutes
<1>3. ASSUME NEW o \in Owners, NEW ref \in References, Routable(ref), Assign(o, ref) PROVE RoutesInv'
  <2>1. /\ refs' = [refs EXCEPT ![o] = ref]
        /\ UNCHANGED <<groups, importing, overwrote, slots, widest>>
    BY <1>3 DEF Assign
  <2>2. ReferredGroupsExist'
    BY <1>a, <1>3, <2>1 DEF ReferredGroupsExist, Routable
  <2>3. \A g \in Groups : Within(groups[g], g)'
    BY <1>a, <2>1 DEF Within
  <2> QED
    BY <1>a, <2>1, <2>2, <2>3, ConfigurationKeepsRoutes
<1>4. \A ref \in References : Assignable(ref) => Routable(ref)
  BY DEF Assignable, Routable, Usable
<1>5. CASE AssignToAccount \/ SaveAccountGroup \/ SaveDefaults
  BY <1>3, <1>4, <1>5 DEF AssignToAccount, SaveAccountGroup, SaveDefaults, Owners
<1>6. ASSUME UNCHANGED <<groups, widest, slots>>,
             refs' \in [Owners -> References],
             importing' \in References \cup {NothingRead}, ReferredGroupsExist'
      PROVE  RoutesInv'
  <2>1. \A g \in Groups : Within(groups[g], g)'
    BY <1>a, <1>6 DEF Within
  <2> QED
    BY <1>a, <1>6, <2>1, ConfigurationKeepsRoutes
<1>7. CASE DeleteAccountGroup
  <2>1. ReferredGroupsExist' /\ refs' \in [Owners -> References]
    BY <1>a, <1>7, ProxyAssumption DEF DeleteAccountGroup, ReferredGroupsExist, References
  <2> QED
    BY <1>a, <1>6, <1>7, <2>1 DEF DeleteAccountGroup
<1>8. CASE ImportReadsGroups
  <2>1. ReferredGroupsExist'
    BY <1>a, <1>8 DEF ImportReadsGroups, ReferredGroupsExist
  <2>2. importing' \in References \cup {NothingRead}
    BY <1>a, <1>8 DEF ImportReadsGroups, Owners
  <2> QED
    BY <1>a, <1>6, <1>8, <2>1, <2>2 DEF ImportReadsGroups
<1>9. CASE ImportWritesGroups
  <2>1. importing \in References /\ refs' = [refs EXCEPT !["account group"] = importing]
    BY <1>a, <1>9 DEF ImportWritesGroups
  <2>2. refs' \in [Owners -> References]
    BY <1>a, <2>1
  <2>3. ReferredGroupsExist'
    <3>1. CASE importing = refs["account group"]
      BY <1>a, <1>9, <2>1, <3>1 DEF ImportWritesGroups, ReferredGroupsExist
    <3>2. CASE importing # refs["account group"]
      BY <1>9, <3>2 DEF ImportWritesGroups, ReferredGroupsExist
    <3> QED
      BY <3>1, <3>2
  <2> QED
    BY <1>6, <1>9, <2>2, <2>3 DEF ImportWritesGroups
<1> QED
  BY <1>1, <1>2, <1>5, <1>7, <1>8, <1>9

\* A request moves without taking or giving back a slot.
LEMMA RequestKeepsRoutes ==
  ASSUME RoutesInv, UNCHANGED <<groups, refs, importing, overwrote, widest, egressInflight, leaked>>,
         NEW r \in Requests, NEW made \in RequestRow, attempts' = [attempts EXCEPT ![r] = made],
         made.at = "waiting" => made.group \in Groups /\ Within(made.nodes, made.group),
         attempts[r].limit > 0
           => made.group = attempts[r].group /\ made.node = attempts[r].node
              /\ made.at \in {"building", "streaming"},
         made.limit = attempts[r].limit
  PROVE  RoutesInv'
<1>1. attempts'[r] = made /\ \A q \in Requests \ {r} : attempts'[q] = attempts[q]
  BY DEF RoutesInv, RoutesTypeOK
<1>2. RoutesTypeOK'
  BY DEF RoutesInv, RoutesTypeOK
<1>3. ASSUME NEW q \in Requests PROVE RequestIsRouted(q)'
  BY <1>1 DEF RoutesInv, RequestIsRouted, Within
<1>4. ASSUME NEW g \in Groups, NEW n \in Nodes PROVE NodeIsCounted(g, n)'
  <2>1. attempts[r].limit \in Nat
    BY DEF RoutesInv, RoutesTypeOK, RequestRow
  <2>2. \A q \in Requests :
          (attempts'[q].group = g /\ attempts'[q].node = n /\ attempts'[q].limit > 0)
            <=> (attempts[q].group = g /\ attempts[q].node = n /\ attempts[q].limit > 0)
    BY <1>1, <2>1
  <2>3. Holders(g, n)' = Holders(g, n)
    BY <2>2 DEF Holders
  <2> QED
    BY <2>3 DEF RoutesInv, NodeIsCounted
<1>5. \A g \in Groups : Within(groups[g], g)'
  BY DEF RoutesInv, Within
<1>6. ReferredGroupsExist'
  BY DEF RoutesInv, ReferredGroupsExist
<1> QED
  BY <1>2, <1>3, <1>4, <1>5, <1>6 DEF RoutesInv

\* A request takes a slot of node n of group g, gives back the one it has or leaks
\* it: the set of the holders and a counter change together.
LEMMA SlotKeepsRoutes ==
  ASSUME RoutesInv, UNCHANGED <<groups, refs, importing, overwrote, widest>>,
         NEW r \in Requests, NEW made \in RequestRow, attempts' = [attempts EXCEPT ![r] = made],
         NEW g \in Groups, NEW n \in Nodes,
         \/ /\ attempts[r].limit = 0 /\ made.limit > 0 /\ made.group = g /\ made.node = n
            /\ made.at = "building" /\ egressInflight[g][n] < widest[g][n]
            /\ egressInflight' = [egressInflight EXCEPT ![g][n] = @ + 1] /\ leaked' = leaked
         \/ /\ attempts[r].limit > 0 /\ attempts[r].group = g /\ attempts[r].node = n
            /\ made.limit = 0 /\ made.at # "waiting"
            /\ \/ egressInflight' = [egressInflight EXCEPT ![g][n] = @ - 1] /\ leaked' = leaked
               \/ leaked' = [leaked EXCEPT ![g][n] = @ + 1] /\ egressInflight' = egressInflight
  PROVE  RoutesInv'
<1>1. attempts'[r] = made /\ \A q \in Requests \ {r} : attempts'[q] = attempts[q]
  BY DEF RoutesInv, RoutesTypeOK
<1>2. /\ egressInflight \in [Groups -> [Nodes -> Nat]] /\ leaked \in [Groups -> [Nodes -> Nat]]
      /\ widest \in [Groups -> [Nodes -> Nat]]
      /\ IsFiniteSet(Holders(g, n))
      /\ egressInflight[g][n] = leaked[g][n] + Cardinality(Holders(g, n))
      /\ egressInflight[g][n] <= widest[g][n]
  BY DEF RoutesInv, RoutesTypeOK, NodeIsCounted
<1>3. ASSUME NEW h \in Groups, NEW m \in Nodes, h # g \/ m # n
      PROVE  NodeIsCounted(h, m)'
  <2>1. \A q \in Requests :
          (attempts'[q].group = h /\ attempts'[q].node = m /\ attempts'[q].limit > 0)
            <=> (attempts[q].group = h /\ attempts[q].node = m /\ attempts[q].limit > 0)
    BY <1>1, <1>3
  <2>2. Holders(h, m)' = Holders(h, m)
    BY <2>1 DEF Holders
  <2>3. egressInflight'[h][m] = egressInflight[h][m] /\ leaked'[h][m] = leaked[h][m]
    BY <1>2, <1>3
  <2> QED
    BY <2>2, <2>3 DEF RoutesInv, NodeIsCounted
<1>4. /\ NodeIsCounted(g, n)' /\ egressInflight'[g][n] \in Nat
      /\ egressInflight' \in [Groups -> [Nodes -> Int]] /\ leaked' \in [Groups -> [Nodes -> Nat]]
  <2>0. Cardinality(Holders(g, n)) \in Nat /\ leaked[g][n] \in Nat
    BY <1>2, FS_CardinalityType
  <2>1. CASE made.limit > 0
    <3>0. attempts[r].limit = 0 /\ ~(attempts[r].limit > 0)
      BY <2>1
    <3>1. Holders(g, n)' = Holders(g, n) \cup {r} /\ r \notin Holders(g, n)
      BY <1>1, <2>1, <3>0 DEF Holders
    <3>2. /\ IsFiniteSet(Holders(g, n)') /\ Cardinality(Holders(g, n)') = Cardinality(Holders(g, n)) + 1
      BY <1>2, <3>1, FS_AddElement
    <3>3. egressInflight' = [egressInflight EXCEPT ![g][n] = @ + 1] /\ leaked' = leaked
      BY <2>1, <3>0
    <3>4. egressInflight'[g][n] = egressInflight[g][n] + 1
      BY <1>2, <3>3
    <3> QED
      BY <1>2, <2>0, <2>1, <3>0, <3>2, <3>3, <3>4 DEF NodeIsCounted
  <2>2. CASE ~(made.limit > 0)
    <3>1. Holders(g, n)' = Holders(g, n) \ {r} /\ r \in Holders(g, n)
      BY <1>1, <2>2 DEF Holders
    <3>2. /\ IsFiniteSet(Holders(g, n)') /\ Cardinality(Holders(g, n)') = Cardinality(Holders(g, n)) - 1
          /\ Cardinality(Holders(g, n)') \in Nat
      BY <1>2, <3>1, FS_RemoveElement, FS_CardinalityType
    <3>3. CASE egressInflight' = [egressInflight EXCEPT ![g][n] = @ - 1] /\ leaked' = leaked
      <4>1. egressInflight'[g][n] = egressInflight[g][n] - 1
        BY <1>2, <3>3
      <4> QED
        BY <1>2, <2>0, <3>2, <3>3, <4>1 DEF NodeIsCounted
    <3>4. CASE leaked' = [leaked EXCEPT ![g][n] = @ + 1] /\ egressInflight' = egressInflight
      <4>1. leaked'[g][n] = leaked[g][n] + 1
        BY <1>2, <3>4
      <4>2. leaked' \in [Groups -> [Nodes -> Nat]]
        BY <1>2, <3>4
      <4>3. egressInflight' \in [Groups -> [Nodes -> Int]] /\ egressInflight'[g][n] \in Nat
        BY <1>2, <3>4
      <4>4. widest'[g][n] = widest[g][n] /\ egressInflight'[g][n] = egressInflight[g][n]
        BY <3>4
      <4>5. egressInflight'[g][n] = leaked'[g][n] + Cardinality(Holders(g, n)')
        BY <1>2, <2>0, <3>2, <4>1, <4>4
      <4>6. egressInflight'[g][n] <= widest'[g][n]
        BY <1>2, <4>4
      <4>7. NodeIsCounted(g, n)'
        BY <3>2, <4>5, <4>6 DEF NodeIsCounted
      <4> QED
        BY <4>2, <4>3, <4>7
    <3> QED
      BY <2>2, <3>3, <3>4
  <2> QED
    BY <2>1, <2>2
<1>5. RoutesTypeOK'
  <2>1. egressInflight' \in [Groups -> [Nodes -> Nat]]
    <3>1. \A h \in Groups, m \in Nodes : egressInflight'[h][m] \in Nat
      <4> SUFFICES ASSUME NEW h \in Groups, NEW m \in Nodes PROVE egressInflight'[h][m] \in Nat
        OBVIOUS
      <4>1. CASE h = g /\ m = n
        BY <1>4, <4>1
      <4>2. CASE h # g \/ m # n
        BY <1>2, <4>2
      <4> QED
        BY <4>1, <4>2
    <3> QED
      BY <1>4, <3>1
  <2>2. attempts' \in [Requests -> RequestRow]
    BY DEF RoutesInv, RoutesTypeOK
  <2> QED
    BY <1>4, <2>1, <2>2 DEF RoutesInv, RoutesTypeOK
<1>6. ASSUME NEW q \in Requests PROVE RequestIsRouted(q)'
  BY <1>1 DEF RoutesInv, RequestIsRouted, Within
<1>7. \A h \in Groups : Within(groups[h], h)'
  BY DEF RoutesInv, Within
<1>8. ReferredGroupsExist'
  BY DEF RoutesInv, ReferredGroupsExist
<1> QED
  BY <1>3, <1>4, <1>5, <1>6, <1>7, <1>8 DEF RoutesInv

\* A request waits for a node, streams through it and gives it back.
LEMMA RequestStepKeepsRoutes ==
  ASSUME RoutesInv, NEW r \in Requests,
         \/ BeginAttempt(r) \/ TakeNode(r) \/ WaitExpires(r) \/ BuildBackend(r)
         \/ SessionFails(r) \/ ClearanceFails(r) \/ AttemptEnds(r)
  PROVE  RoutesInv'
<1> DEFINE a == attempts[r]
<1>a. /\ a \in RequestRow /\ RequestIsRouted(r)
      /\ \A g \in Groups : Within(groups[g], g) /\ groups[g] \in AllLayouts
      /\ egressInflight \in [Groups -> [Nodes -> Nat]] /\ widest \in [Groups -> [Nodes -> Nat]]
      /\ refs \in [Owners -> References]
  <2>1. a \in RequestRow
    BY DEF RoutesInv, RoutesTypeOK
  <2>2. RequestIsRouted(r)
    BY DEF RoutesInv
  <2>3. ASSUME NEW g \in Groups PROVE Within(groups[g], g) /\ groups[g] \in AllLayouts
    BY DEF RoutesInv, RoutesTypeOK
  <2>4. /\ egressInflight \in [Groups -> [Nodes -> Nat]] /\ widest \in [Groups -> [Nodes -> Nat]]
        /\ refs \in [Owners -> References]
    BY DEF RoutesInv, RoutesTypeOK
  <2> QED
    BY <2>1, <2>2, <2>3, <2>4
<1>b. UNCHANGED <<groups, refs, importing, overwrote, widest>>
  BY DEF BeginAttempt, TakeNode, WaitExpires, BuildBackend, SessionFails, ClearanceFails,
         AttemptEnds, configuration
<1>n. NoRequest \in RequestRow /\ NoRequest.limit = 0
  BY EmptyLayout DEF NoRequest, RequestRow, References
<1>l. /\ a.limit \in Nat /\ (~(a.limit > 0) => a.limit = 0)
      /\ a.at \in {"idle", "waiting"} => a.limit = 0 /\ ~(attempts[r].limit > 0)
  BY <1>a DEF RequestRow, RequestIsRouted
<1>1. CASE BeginAttempt(r)
  <2> DEFINE anew == Begun(a)
             route == Route(anew)
  <2>a. a.at = "idle" /\ attempts[r].limit = 0 /\ ~(attempts[r].limit > 0)
    BY <1>1, <1>l DEF BeginAttempt
  <2>1. anew \in RequestRow /\ anew.limit = 0
    <3>1. [a EXCEPT !.tries = @ + 1] \in RequestRow
      <4>1. a.tries + 1 \in Nat
        BY <1>a DEF RequestRow
      <4> QED
        BY <1>a, <4>1 DEF RequestRow
    <3>2. \A b \in RequestRow, ref \in References :
            [b EXCEPT !.fallback = FALSE, !.account = ref] \in RequestRow
      BY DEF RequestRow
    <3>3. refs["account"] \in References
      BY <1>a DEF Owners
    <3>4. anew = [[a EXCEPT !.tries = @ + 1] EXCEPT !.fallback = FALSE, !.account = refs["account"]]
      BY DEF Begun
    <3>5. anew \in RequestRow
      BY <3>1, <3>2, <3>3, <3>4
    <3>6. anew.limit = a.limit
      BY <1>a DEF Begun, RequestRow
    <3> QED
      BY <2>a, <3>5, <3>6
  <2>0. egressInflight' = egressInflight /\ leaked' = leaked
    BY <1>1 DEF BeginAttempt
  <2>5. \/ attempts' = [attempts EXCEPT ![r] = [anew EXCEPT !.at = "building"]]
        \/ /\ route \in Groups
           /\ attempts' = [attempts EXCEPT ![r] = [anew EXCEPT !.at = "waiting",
                                             !.group = route, !.nodes = groups[route]]]
        \/ attempts' = [attempts EXCEPT ![r] = [NoRequest EXCEPT !.at = "ended"]]
    BY <1>1 DEF BeginAttempt, Becomes
  <2> HIDE DEF anew, route
  <2>2. CASE attempts' = [attempts EXCEPT ![r] = [anew EXCEPT !.at = "building"]]
    <3> DEFINE made == [anew EXCEPT !.at = "building"]
    <3>1. made \in RequestRow /\ made.at = "building" /\ made.limit = 0
      BY <2>1 DEF RequestRow
    <3> HIDE DEF made
    <3> QED
      BY <1>b, <2>0, <2>a, <2>2, <3>1, RequestKeepsRoutes DEF made
  <2>3. CASE /\ route \in Groups
             /\ attempts' = [attempts EXCEPT ![r] = [anew EXCEPT !.at = "waiting",
                                               !.group = route, !.nodes = groups[route]]]
    <3> DEFINE made == [anew EXCEPT !.at = "waiting", !.group = route, !.nodes = groups[route]]
    <3>1. /\ made \in RequestRow /\ made.at = "waiting" /\ made.limit = 0
          /\ made.group = route /\ made.nodes = groups[route]
      BY <1>a, <2>1, <2>3 DEF RequestRow
    <3>2. attempts' = [attempts EXCEPT ![r] = made]
      BY <2>3
    <3> HIDE DEF made
    <3>3. made.group \in Groups /\ Within(made.nodes, made.group)
      BY <1>a, <2>3, <3>1
    <3>4. made.limit = attempts[r].limit
      BY <2>a, <3>1
    <3> QED
      BY <1>b, <2>0, <2>a, <3>1, <3>2, <3>3, <3>4, RequestKeepsRoutes
  <2>4. CASE attempts' = [attempts EXCEPT ![r] = [NoRequest EXCEPT !.at = "ended"]]
    <3> DEFINE made == [NoRequest EXCEPT !.at = "ended"]
    <3>1. made \in RequestRow /\ made.at = "ended" /\ made.limit = 0
      BY <1>n DEF RequestRow
    <3> HIDE DEF made
    <3> QED
      BY <1>b, <2>0, <2>a, <2>4, <3>1, RequestKeepsRoutes DEF made
  <2> QED
    BY <2>2, <2>3, <2>4, <2>5
<1>2. CASE TakeNode(r)
  <2>1. PICK n \in DOMAIN a.nodes :
          /\ HasCapacity(r, n)
          /\ attempts' = [attempts EXCEPT ![r] =
               [a EXCEPT !.at = "building", !.node = n, !.limit = a.nodes[n], !.nodes = NoNodes]]
          /\ egressInflight' = IF a.nodes[n] = 0 THEN egressInflight
                               ELSE [egressInflight EXCEPT ![a.group][n] = @ + 1]
          /\ leaked' = leaked
    BY <1>2 DEF TakeNode, Becomes
  <2> DEFINE made == [a EXCEPT !.at = "building", !.node = n, !.limit = a.nodes[n], !.nodes = NoNodes]
  <2>2. /\ a.at = "waiting" /\ a.group \in Groups /\ n \in Nodes
        /\ a.nodes[n] \in Nat /\ a.nodes[n] <= widest[a.group][n]
    BY <1>2, <1>a DEF TakeNode, RequestIsRouted, Within
  <2>3. /\ made \in RequestRow /\ made.at = "building" /\ made.limit = a.nodes[n]
        /\ made.group = a.group /\ made.node = n
    BY <1>a, <2>2, EmptyLayout DEF RequestRow
  <2>4. attempts' = [attempts EXCEPT ![r] = made]
    BY <2>1
  <2> HIDE DEF made
  <2>5. CASE a.nodes[n] = 0
    <3>1. /\ made.limit = attempts[r].limit /\ ~(attempts[r].limit > 0)
          /\ made.at # "waiting" /\ egressInflight' = egressInflight /\ leaked' = leaked
      BY <1>l, <2>1, <2>2, <2>3, <2>5
    <3> QED
      BY <1>b, <2>3, <2>4, <3>1, RequestKeepsRoutes
  <2>6. CASE a.nodes[n] # 0
    <3>1. egressInflight[a.group][n] < widest[a.group][n]
      BY <1>a, <2>1, <2>2, <2>6 DEF HasCapacity
    <3>2. /\ attempts[r].limit = 0 /\ made.limit > 0 /\ leaked' = leaked
          /\ egressInflight' = [egressInflight EXCEPT ![a.group][n] = @ + 1]
      BY <1>l, <2>1, <2>2, <2>3, <2>6
    <3> QED
      BY <1>b, <2>2, <2>3, <2>4, <3>1, <3>2, SlotKeepsRoutes
  <2> QED
    BY <2>5, <2>6
<1>3. CASE WaitExpires(r)
  <2> DEFINE made == [NoRequest EXCEPT !.at = "ended"]
  <2>1. made \in RequestRow /\ made.at = "ended" /\ made.limit = 0
    BY <1>n DEF RequestRow
  <2>2. /\ attempts' = [attempts EXCEPT ![r] = made] /\ a.at = "waiting"
        /\ egressInflight' = egressInflight /\ leaked' = leaked
    BY <1>3 DEF WaitExpires, Becomes
  <2> HIDE DEF made
  <2> QED
    BY <1>b, <1>l, <2>1, <2>2, RequestKeepsRoutes
<1>4. CASE BuildBackend(r)
  <2> DEFINE made == [a EXCEPT !.at = "streaming"]
  <2>1. /\ made \in RequestRow /\ made.at = "streaming" /\ made.limit = a.limit
        /\ made.group = a.group /\ made.node = a.node
    BY <1>a DEF RequestRow
  <2>2. /\ attempts' = [attempts EXCEPT ![r] = made]
        /\ egressInflight' = egressInflight /\ leaked' = leaked
    BY <1>4 DEF BuildBackend, Becomes
  <2> HIDE DEF made
  <2> QED
    BY <1>b, <2>1, <2>2, RequestKeepsRoutes
<1>5. CASE SessionFails(r) \/ AttemptEnds(r)
  <2>1. PICK made \in {[NoRequest EXCEPT !.at = "ended"],
                       [NoRequest EXCEPT !.tries = a.tries, !.fallback = TRUE]} :
          attempts' = [attempts EXCEPT ![r] = made]
    BY <1>5 DEF SessionFails, AttemptEnds, Leaves, Becomes
  <2>2. made \in RequestRow /\ made.at # "waiting" /\ made.limit = 0
    BY <1>a, <1>n, <2>1 DEF NoRequest, RequestRow
  <2>3. /\ egressInflight' = IF a.limit > 0 THEN [egressInflight EXCEPT ![a.group][a.node] = @ - 1]
                             ELSE egressInflight
        /\ leaked' = leaked
    BY <1>5 DEF SessionFails, AttemptEnds, Released
  <2>4. CASE a.limit > 0
    BY <1>a, <1>b, <2>1, <2>2, <2>3, <2>4, SlotKeepsRoutes DEF RequestIsRouted
  <2>5. CASE ~(a.limit > 0)
    BY <1>b, <1>l, <2>1, <2>2, <2>3, <2>5, RequestKeepsRoutes
  <2> QED
    BY <2>4, <2>5
<1>6. CASE ClearanceFails(r)
  <2> DEFINE made == [NoRequest EXCEPT !.at = "ended"]
  <2>1. made \in RequestRow /\ made.at # "waiting" /\ made.limit = 0
    BY <1>n DEF RequestRow
  <2>2. /\ attempts' = [attempts EXCEPT ![r] = made] /\ egressInflight' = egressInflight
        /\ leaked' = IF a.limit = 0 THEN leaked ELSE [leaked EXCEPT ![a.group][a.node] = @ + 1]
    BY <1>6 DEF ClearanceFails, Becomes
  <2> HIDE DEF made
  <2>3. CASE a.limit > 0
    <3>1. leaked' = [leaked EXCEPT ![a.group][a.node] = @ + 1]
      BY <1>l, <2>2, <2>3
    <3>2. PICK g \in Groups, n \in Nodes : attempts[r].group = g /\ attempts[r].node = n
      BY <1>a, <2>3 DEF RequestIsRouted
    <3>3. leaked' = [leaked EXCEPT ![g][n] = @ + 1]
      BY <3>1, <3>2
    <3>4. /\ attempts[r].limit > 0 /\ attempts[r].group = g /\ attempts[r].node = n
          /\ made.limit = 0 /\ made.at # "waiting"
          /\ leaked' = [leaked EXCEPT ![g][n] = @ + 1] /\ egressInflight' = egressInflight
      BY <2>1, <2>2, <2>3, <3>2, <3>3
    <3>5. made \in RequestRow /\ attempts' = [attempts EXCEPT ![r] = made]
      BY <2>1, <2>2
    <3> HIDE DEF a
    <3> QED
      BY <1>b, <3>4, <3>5, SlotKeepsRoutes
  <2>4. CASE ~(a.limit > 0)
    BY <1>b, <1>l, <2>1, <2>2, <2>4, RequestKeepsRoutes
  <2> QED
    BY <2>3, <2>4
<1> QED
  BY <1>1, <1>2, <1>3, <1>4, <1>5, <1>6

\* One edit or one step of a request.
LEMMA StepKeepsRoutes == RoutesInv /\ [ProxyNext]_proxyVars => RoutesInv'
<1> SUFFICES ASSUME RoutesInv, [ProxyNext]_proxyVars PROVE RoutesInv'
  OBVIOUS
<1>1. CASE UNCHANGED proxyVars
  <2>1. \A g \in Groups : Within(groups[g], g)'
    BY <1>1 DEF proxyVars, RoutesInv, Within
  <2>2. ReferredGroupsExist'
    BY <1>1 DEF proxyVars, RoutesInv, ReferredGroupsExist
  <2> QED
    BY <1>1, <2>1, <2>2, ConfigurationKeepsRoutes DEF proxyVars, slots, RoutesInv, RoutesTypeOK
<1> QED
  BY <1>1, EditKeepsRoutes, RequestStepKeepsRoutes DEF ProxyNext

\* The slots taken of a node are those of the requests that hold one and of those
\* whose clearance found its group gone, and what refers to a group refers to one
\* that exists, for any number of groups, nodes, requests and changes of the
\* configuration in between (openai_backend_api.py:436, conversation.py:3006).
THEOREM RoutesHold == ProxySpec => []ProxyRoutesHold
<1>1. RoutesInv => ProxyRoutesHold
  BY DEF RoutesInv, NodeIsCounted, Holders, ProxyRoutesHold, SlotsAreThoseHeld
<1> QED
  BY <1>1, InitRoutes, StepKeepsRoutes, PTL DEF ProxySpec

-----------------------------------------------------------------------------
(* Batch operations on accounts *)

Stages == {"idle", "queued", "mutating", "publishing", "looking", "working", "failed", "done"}
Running == {"queued", "mutating", "publishing", "looking", "working"}
OpRow == [kind : {"none"} \cup Mutations \cup Remote, stage : Stages,
          wanted : SUBSET Accounts, targets : SUBSET Accounts, todo : SUBSET Accounts,
          busy : SUBSET Accounts, updated : SUBSET Accounts, removed : SUBSET Accounts,
          errors : SUBSET Accounts, skipped : SUBSET Accounts]
EntryRow == [state : {"none", "open", "done", "error"}, total : Nat, processed : Nat]

OpTypes ==
  /\ poolIds \subseteq Accounts
  /\ op \in [Operations -> OpRow]
  /\ entry \in [Operations -> EntryRow]
  /\ left \in [Operations -> SUBSET Accounts]

\* Which accounts an operation has still to work on, at each of its stages.
WorkLeft(r) ==
  /\ r.stage \in Running => r.todo \subseteq r.targets /\ r.busy \subseteq r.targets
                            /\ r.todo \cap r.busy = {}
  /\ r.stage \in {"queued", "mutating", "looking"} => r.todo = r.targets
  /\ r.stage = "done" => r.todo = {}
  /\ r.busy # {} => r.stage = "working"

\* What it has to report of the accounts it was asked for.
ToReport(r) ==
  /\ r.stage \in {"queued", "mutating", "looking", "working"} =>
       r.wanted = r.targets \cup r.errors /\ r.removed = {}
  /\ r.stage \in {"queued", "mutating", "looking"} => r.updated = {} /\ r.skipped = {}
  /\ r.stage = "working" =>
       /\ r.updated \cup r.skipped \subseteq r.targets
       /\ r.targets \subseteq r.todo \cup r.busy \cup r.updated \cup r.errors \cup r.skipped
  /\ r.stage \in {"publishing", "done"} =>
       r.wanted = r.updated \cup r.removed \cup r.errors \cup r.skipped

\* An entry that is kept counts all but the work that is left.
Counts(r, e) ==
  /\ r.stage \in Running => e.state \in {"none", "open"}
  /\ r.stage \in Running \cup {"done"} /\ e.state # "none" =>
       e.processed + Cardinality(r.todo) + Cardinality(r.busy) = e.total

\* A target that is not in the pool has left it since.
Lefts(r, L) ==
  /\ r.stage \in Running => r.targets \subseteq poolIds \cup L
  /\ r.stage \in {"publishing", "done"} => r.removed \subseteq L

OpSound(o) ==
  WorkLeft(op[o]) /\ ToReport(op[o]) /\ Counts(op[o], entry[o]) /\ Lefts(op[o], left[o])

OpInv == OpTypes /\ \A o \in Operations : OpSound(o)

\* What every step does to the pool: an operation under way hears of all that
\* leave.
PoolMoves ==
  /\ poolIds' \subseteq Accounts
  /\ left' \in [Operations -> SUBSET Accounts]
  /\ \A p \in Operations :
       /\ left[p] \subseteq left'[p]
       /\ op[p].stage \in Running => poolIds \ poolIds' \subseteq left'[p]

\* What the row of an operation is, and the row of none.
LEMMA OpRows ==
  /\ NoOperation \in OpRow
  /\ \A r \in OpRow : /\ r.wanted \subseteq Accounts /\ r.targets \subseteq Accounts
                      /\ r.todo \subseteq Accounts /\ r.busy \subseteq Accounts
                      /\ r.updated \subseteq Accounts /\ r.removed \subseteq Accounts
                      /\ r.errors \subseteq Accounts /\ r.skipped \subseteq Accounts
                      /\ r.stage \in Stages
BY DEF OpRow, NoOperation, Stages

\* The fields of two rows that agree but for what a step writes.
SameRow(z, r) ==
  /\ z \in OpRow /\ z.targets = r.targets /\ z.wanted = r.wanted

\* An operation goes to another stage and keeps the rest of its row.
LEMMA StageChanges ==
  ASSUME NEW r \in OpRow, NEW s \in Stages
  PROVE  LET z == [r EXCEPT !.stage = s] IN
         SameRow(z, r) /\ z.stage = s /\ z.todo = r.todo /\ z.busy = r.busy
         /\ z.updated = r.updated /\ z.removed = r.removed /\ z.errors = r.errors /\ z.skipped = r.skipped
BY DEF OpRow, SameRow

\* Entries.
LEMMA EntryChanges ==
  /\ NoEntry \in EntryRow /\ NoEntry.state = "none"
  /\ \A e \in EntryRow, how \in {"done", "error"} :
       /\ Finished(e, how) \in EntryRow
       /\ Finished(e, how).state = "none" <=> e.state = "none"
       /\ Finished(e, how).total = e.total /\ Finished(e, how).processed = e.processed
BY DEF EntryRow, NoEntry, Finished

\* What counting does to an entry: only one that is open counts.
LEMMA CountedEntries ==
  ASSUME NEW e \in EntryRow, NEW n \in Nat
  PROVE  /\ Counted(e, n) \in EntryRow /\ Counted(e, n).state = e.state
         /\ Counted(e, n).total = e.total /\ e.processed \in Nat /\ e.total \in Nat
         /\ e.state = "open" => Counted(e, n).processed = e.processed + n
BY DEF EntryRow, Counted

\* An entry as it is opened.
LEMMA OpenEntries ==
  \A t \in Nat, p \in Nat :
    LET e == [state |-> "open", total |-> t, processed |-> p] IN
    e \in EntryRow /\ e.state = "open" /\ e.total = t /\ e.processed = p
BY DEF EntryRow

\* One operation moves, with or without the pool.
LEMMA OneOperation ==
  ASSUME OpInv, NEW o \in Operations, NEW r \in OpRow, NEW e \in EntryRow,
         op' = [op EXCEPT ![o] = r], entry' = [entry EXCEPT ![o] = e], PoolMoves,
         WorkLeft(r), ToReport(r), Counts(r, e), Lefts(r, left[o])'
  PROVE  OpInv'
<1>1. op' \in [Operations -> OpRow] /\ op'[o] = r
      /\ \A p \in Operations \ {o} : op'[p] = op[p]
  BY DEF OpInv, OpTypes
<1>2. entry' \in [Operations -> EntryRow] /\ entry'[o] = e
      /\ \A p \in Operations \ {o} : entry'[p] = entry[p]
  BY DEF OpInv, OpTypes
<1>3. OpTypes'
  BY <1>1, <1>2 DEF OpTypes, PoolMoves
<1>4. OpSound(o)'
  BY <1>1, <1>2 DEF OpSound, Lefts
<1>5. ASSUME NEW p \in Operations \ {o} PROVE OpSound(p)'
  <2>1. Lefts(op[p], left[p])'
    BY <1>1 DEF Lefts, PoolMoves, OpInv, OpSound
  <2> QED
    BY <1>1, <1>2, <2>1 DEF OpInv, OpSound
<1> QED
  BY <1>3, <1>4, <1>5 DEF OpInv

\* The pool stands still, or some of it leaves.
LEMMA StillPool == OpInv /\ UNCHANGED poolVars => PoolMoves
BY DEF OpInv, OpTypes, poolVars, PoolMoves

\* Accounts that are taken out of the pool are told to every operation under way.
LEMMA RemovingMoves ==
  ASSUME OpInv, NEW S, Removes(S)
  PROVE  PoolMoves
BY DEF Removes, PoolMoves, OpInv, OpTypes, Running

\* What is counted: sets of accounts are finite.
LEMMA Sizes ==
  /\ \A S \in SUBSET Accounts : Cardinality(S) \in Nat /\ IsFiniteSet(S)
  /\ Cardinality({}) = 0
  /\ \A S \in SUBSET Accounts : \A a \in S : Cardinality(S \ {a}) + 1 = Cardinality(S)
  /\ \A S \in SUBSET Accounts, a \in Accounts : a \notin S => Cardinality(S \cup {a}) = Cardinality(S) + 1
  /\ \A S \in SUBSET Accounts, T \in SUBSET Accounts :
       Cardinality(S \cap T) + Cardinality(S \ T) = Cardinality(S)
<1>1. \A S \in SUBSET Accounts : Cardinality(S) \in Nat /\ IsFiniteSet(S)
  BY OperationsAssumption, FS_Subset, FS_CardinalityType
<1>2. Cardinality({}) = 0
  BY FS_EmptySet
<1>3. \A S \in SUBSET Accounts : \A a \in S : Cardinality(S \ {a}) + 1 = Cardinality(S)
  <2>1. ASSUME NEW S \in SUBSET Accounts, NEW a \in S
        PROVE  Cardinality(S \ {a}) + 1 = Cardinality(S)
    <3>1. Cardinality(S \ {a}) = Cardinality(S) - 1
      BY <1>1, FS_RemoveElement
    <3>2. Cardinality(S) \in Nat
      BY <1>1
    <3> QED
      BY <3>1, <3>2
  <2> QED
    BY <2>1
<1>4. \A S \in SUBSET Accounts, a \in Accounts : a \notin S => Cardinality(S \cup {a}) = Cardinality(S) + 1
  BY <1>1, FS_AddElement
<1>5. \A S \in SUBSET Accounts, T \in SUBSET Accounts :
        Cardinality(S \cap T) + Cardinality(S \ T) = Cardinality(S)
  <2>1. ASSUME NEW S \in SUBSET Accounts, NEW T \in SUBSET Accounts
        PROVE  Cardinality(S \cap T) + Cardinality(S \ T) = Cardinality(S)
    <3>1. Cardinality(S \ T) = Cardinality(S) - Cardinality(S \cap T)
      BY <1>1, FS_Difference
    <3>2. S \cap T \in SUBSET Accounts
      OBVIOUS
    <3>3. Cardinality(S) \in Nat /\ Cardinality(S \cap T) \in Nat
      BY <1>1, <3>2
    <3> QED
      BY <3>1, <3>3
  <2> QED
    BY <2>1
<1> QED
  BY <1>1, <1>2, <1>3, <1>4, <1>5

\* A request opens its entry.
LEMMA AskKeeps ==
  ASSUME OpInv, NEW o \in Operations, NEW k \in Mutations \cup Remote, NEW ids \in Selections,
         AskFor(o, k, ids)
  PROVE  OpInv'
<1>1. ids \in SUBSET Accounts /\ poolIds \in SUBSET Accounts
  BY OperationsAssumption DEF OpInv, OpTypes
<1>2. PICK s \in Stages : s = IF k \in Mutations THEN "queued" ELSE "looking"
  BY DEF Stages
<1>3. PICK T \in SUBSET Accounts : T = ids \cap poolIds
  BY <1>1
<1>4. PICK E \in SUBSET Accounts : E = ids \ poolIds
  BY <1>1
<1>5. PICK r : r = [NoOperation EXCEPT !.kind = k, !.stage = s, !.wanted = ids, !.targets = T,
                                       !.todo = T, !.errors = E]
  OBVIOUS
<1>6. r \in OpRow /\ r.stage = s /\ r.wanted = ids /\ r.targets = T /\ r.todo = T /\ r.busy = {}
      /\ r.updated = {} /\ r.removed = {} /\ r.errors = E /\ r.skipped = {}
  BY <1>1, <1>5 DEF NoOperation, OpRow
<1>7. PICK e : e = [state |-> "open", total |-> Cardinality(ids), processed |-> Cardinality(E)]
  OBVIOUS
<1>8. e \in EntryRow /\ e.state = "open" /\ e.processed + Cardinality(T) + Cardinality({}) = e.total
  <2>1. Cardinality(ids) \in Nat /\ Cardinality(E) \in Nat /\ Cardinality(T) \in Nat
    BY <1>1, Sizes
  <2>2. Cardinality(T) + Cardinality(E) = Cardinality(ids) /\ Cardinality({}) = 0
    BY <1>1, <1>3, <1>4, Sizes
  <2> QED
    BY <1>7, <2>1, <2>2, OpenEntries
<1>9. op' = [op EXCEPT ![o] = r] /\ entry' = [entry EXCEPT ![o] = e] /\ PoolMoves
      /\ poolIds' = poolIds /\ left' = left
  BY <1>2, <1>3, <1>4, <1>5, <1>7, StillPool DEF AskFor, poolVars
<1>10. s \in {"queued", "looking"}
  BY <1>2
<1>11. WorkLeft(r) /\ ToReport(r)
  BY <1>3, <1>4, <1>6, <1>10 DEF WorkLeft, ToReport, Running
<1>12. Counts(r, e)
  BY <1>6, <1>8, <1>10 DEF Counts
<1>13. Lefts(r, left[o])'
  BY <1>3, <1>6, <1>9, <1>10 DEF Lefts
<1> QED
  BY <1>6, <1>8, <1>9, <1>11, <1>12, <1>13, OneOperation

\* The stage changes and no more.
LEMMA OneStage ==
  ASSUME OpInv, NEW o \in Operations, NEW s \in Stages, NEW e \in EntryRow,
         op' = [op EXCEPT ![o].stage = s], entry' = [entry EXCEPT ![o] = e], UNCHANGED poolVars,
         \/ op[o].stage = "queued" /\ s = "mutating" /\ e = entry[o]
         \/ op[o].stage = "mutating" /\ s = "failed"
         \/ op[o].stage = "publishing" /\ op[o].todo = {} /\ s = "done"
            /\ e = Finished(entry[o], "done")
         \/ op[o].stage = "looking" /\ s = "working" /\ e = Reopened(o)
  PROVE  OpInv'
<1>1. PICK q : q = op[o]
  OBVIOUS
<1>2. PICK r : r = [q EXCEPT !.stage = s]
  OBVIOUS
<1>3. q \in OpRow /\ WorkLeft(q) /\ ToReport(q) /\ Counts(q, entry[o]) /\ Lefts(q, left[o])
      /\ entry[o] \in EntryRow
  BY <1>1 DEF OpInv, OpTypes, OpSound
<1>4. r \in OpRow /\ r.stage = s /\ r.todo = q.todo /\ r.busy = q.busy /\ r.wanted = q.wanted
      /\ r.targets = q.targets /\ r.updated = q.updated /\ r.removed = q.removed
      /\ r.errors = q.errors /\ r.skipped = q.skipped
  BY <1>2, <1>3, StageChanges DEF SameRow
<1>5. op' = [op EXCEPT ![o] = r] /\ PoolMoves /\ poolIds' = poolIds /\ left' = left
  BY <1>1, <1>2, StillPool DEF OpInv, OpTypes, poolVars
<1>6. WorkLeft(r) /\ ToReport(r) /\ Lefts(r, left[o])'
  BY <1>1, <1>3, <1>4, <1>5 DEF WorkLeft, ToReport, Lefts, Running
<1>7. Counts(r, e)
  <2>1. CASE q.stage = "queued" /\ s = "mutating" /\ e = entry[o]
    BY <1>3, <1>4, <2>1 DEF Counts, Running
  <2>2. CASE s = "failed"
    BY <1>4, <2>2 DEF Counts, Running
  <2>3. CASE q.stage = "publishing" /\ s = "done" /\ e = Finished(entry[o], "done")
    BY <1>3, <1>4, <2>3, EntryChanges DEF Counts, Running
  <2>4. CASE q.stage = "looking" /\ s = "working" /\ e = Reopened(o)
    <3>1. CASE entry[o].state # "none"
      BY <1>3, <1>4, <2>4, <3>1 DEF Counts, Running, Reopened
    <3>2. CASE entry[o].state = "none"
      <4>1. q.todo = q.targets /\ q.busy = {} /\ q.todo \in SUBSET Accounts
        BY <1>3, <2>4, OpRows DEF WorkLeft
      <4>2. Cardinality(q.todo) \in Nat /\ Cardinality({}) = 0
        BY <4>1, Sizes
      <4>3. e = [state |-> "open", total |-> Cardinality(q.targets), processed |-> 0]
        BY <1>1, <2>4, <3>2 DEF Reopened
      <4>4. e.state = "open" /\ e.total = Cardinality(q.todo) /\ e.processed = 0
        BY <4>1, <4>2, <4>3, OpenEntries
      <4> QED
        BY <1>4, <2>4, <4>1, <4>2, <4>4 DEF Counts, Running
    <3> QED
      BY <3>1, <3>2
  <2> QED
    BY <1>1, <2>1, <2>2, <2>3, <2>4
<1> QED
  BY <1>4, <1>5, <1>6, <1>7, OneOperation

\* An operation goes on to its next stage.
LEMMA StageKeeps ==
  ASSUME OpInv, NEW o \in Operations,
         TakeOperationSlot(o) \/ MutationFails(o) \/ FinishMutation(o) \/ StartSync(o)
  PROVE  OpInv'
<1>1. entry[o] \in EntryRow /\ op[o] \in OpRow
  BY DEF OpInv, OpTypes
<1>2. CASE TakeOperationSlot(o)
  <2>1. entry' = [entry EXCEPT ![o] = entry[o]]
    BY <1>2 DEF TakeOperationSlot, OpInv, OpTypes
  <2> QED
    BY <1>1, <1>2, <2>1, OneStage DEF TakeOperationSlot, Stages
<1>3. CASE MutationFails(o)
  BY <1>1, <1>3, OneStage, EntryChanges DEF MutationFails, Stages
<1>4. CASE FinishMutation(o)
  BY <1>1, <1>4, OneStage, EntryChanges DEF FinishMutation, Stages
<1>5. CASE StartSync(o)
  <2>1. Reopened(o) \in EntryRow
    BY <1>1, OpRows, Sizes, OpenEntries DEF Reopened
  <2> QED
    BY <1>5, <2>1, OneStage DEF StartSync, Stages
<1> QED
  BY <1>2, <1>3, <1>4, <1>5

\* The targets leave the pool together.
LEMMA DeleteKeeps ==
  ASSUME OpInv, NEW o \in Operations, DeleteTargets(o)
  PROVE  OpInv'
<1>1. PICK q : q = op[o]
  OBVIOUS
<1>2. q \in OpRow /\ WorkLeft(q) /\ ToReport(q) /\ Counts(q, entry[o]) /\ Lefts(q, left[o])
      /\ entry[o] \in EntryRow /\ poolIds \subseteq Accounts
  BY <1>1 DEF OpInv, OpTypes, OpSound
<1>3. /\ q.targets \in SUBSET Accounts /\ q.todo \in SUBSET Accounts /\ q.busy \in SUBSET Accounts
      /\ q.updated \in SUBSET Accounts /\ q.removed \in SUBSET Accounts
      /\ q.errors \in SUBSET Accounts /\ q.skipped \in SUBSET Accounts
  BY <1>2, OpRows
<1>4. PICK M \in SUBSET Accounts : M = q.removed \cup (q.targets \cap poolIds)
  BY <1>3
<1>5. PICK E \in SUBSET Accounts : E = q.errors \cup (q.targets \ poolIds)
  BY <1>3
<1>6. PICK r : r = [q EXCEPT !.stage = "publishing", !.removed = M, !.errors = E]
  OBVIOUS
<1>7. r \in OpRow /\ r.targets = q.targets /\ r.wanted = q.wanted /\ r.stage = "publishing"
      /\ r.todo = q.todo /\ r.busy = q.busy /\ r.updated = q.updated /\ r.removed = M
      /\ r.errors = E /\ r.skipped = q.skipped
  BY <1>2, <1>6 DEF OpRow, Stages
<1>8. q.stage = "mutating" /\ op' = [op EXCEPT ![o] = r] /\ entry' = [entry EXCEPT ![o] = entry[o]]
  BY <1>1, <1>2, <1>4, <1>5, <1>6 DEF DeleteTargets, OpInv, OpTypes
<1>9. PoolMoves
  BY RemovingMoves DEF DeleteTargets
<1>10. WorkLeft(r)
  BY <1>2, <1>7, <1>8 DEF WorkLeft, Running
<1>11. ToReport(r)
  BY <1>2, <1>4, <1>5, <1>7, <1>8 DEF ToReport
<1>12. Counts(r, entry[o])
  BY <1>2, <1>7, <1>8 DEF Counts, Running
<1>13. Lefts(r, left[o])'
  <2>1. q.targets \cap poolIds \subseteq left'[o] /\ poolIds' = poolIds \ q.targets
        /\ left[o] \subseteq left'[o]
    BY <1>1, <1>8 DEF DeleteTargets, Removes, OpInv, OpTypes
  <2>2. q.removed = {} /\ q.targets \subseteq poolIds \cup left[o]
    BY <1>2, <1>8 DEF ToReport, Lefts, Running
  <2> QED
    BY <1>4, <1>7, <2>1, <2>2 DEF Lefts
<1> QED
  BY <1>2, <1>7, <1>8, <1>9, <1>10, <1>11, <1>12, <1>13, OneOperation

\* The targets get another status, and may leave for it.
LEMMA UpdateKeeps ==
  ASSUME OpInv, NEW o \in Operations, NEW status \in {"normal", "abnormal", "removed"},
         Update(o, status)
  PROVE  OpInv'
<1>1. PICK q : q = op[o]
  OBVIOUS
<1>2. q \in OpRow /\ WorkLeft(q) /\ ToReport(q) /\ Counts(q, entry[o]) /\ Lefts(q, left[o])
      /\ entry[o] \in EntryRow /\ poolIds \subseteq Accounts
  BY <1>1 DEF OpInv, OpTypes, OpSound
<1>3. /\ q.targets \in SUBSET Accounts /\ q.todo \in SUBSET Accounts /\ q.busy \in SUBSET Accounts
      /\ q.updated \in SUBSET Accounts /\ q.removed \in SUBSET Accounts
      /\ q.errors \in SUBSET Accounts /\ q.skipped \in SUBSET Accounts
  BY <1>2, OpRows
<1>4. PICK F \in SUBSET Accounts : F = q.targets \cap poolIds
  BY <1>3
<1>5. PICK D \in SUBSET Accounts : D = IF status = "removed" THEN F ELSE {}
  BY <1>3
<1>6. PICK M \in SUBSET Accounts : M = D \cup (q.targets \ poolIds)
  BY <1>3
<1>7. PICK U \in SUBSET Accounts : U = F \ D
  OBVIOUS
<1>8. PICK E \in SUBSET Accounts : E = q.errors \cup M
  BY <1>3
<1>9. PICK r : r = [q EXCEPT !.stage = "publishing", !.updated = U, !.removed = M, !.errors = E]
  OBVIOUS
<1>10. r \in OpRow /\ r.targets = q.targets /\ r.wanted = q.wanted /\ r.stage = "publishing"
      /\ r.todo = q.todo /\ r.busy = q.busy /\ r.updated = U /\ r.removed = M
      /\ r.errors = E /\ r.skipped = q.skipped
  BY <1>2, <1>9 DEF OpRow, Stages
<1>11. q.stage = "mutating" /\ op' = [op EXCEPT ![o] = r] /\ entry' = [entry EXCEPT ![o] = entry[o]]
  BY <1>1, <1>2, <1>4, <1>5, <1>6, <1>7, <1>8, <1>9 DEF Update, OpInv, OpTypes
<1>12. poolIds' = poolIds \ D /\ left \in [Operations -> SUBSET Accounts] /\ D \subseteq poolIds
       /\ left' = [p \in Operations |->
                     IF op[p].stage \in {"idle", "done"} THEN left[p] ELSE left[p] \cup D]
  BY <1>1, <1>4, <1>5 DEF Update, OpInv, OpTypes
<1>13. PoolMoves
  BY <1>2, <1>12 DEF PoolMoves, Running
<1>14. WorkLeft(r)
  BY <1>2, <1>10, <1>11 DEF WorkLeft, Running
<1>15. ToReport(r)
  BY <1>2, <1>4, <1>5, <1>6, <1>7, <1>8, <1>10, <1>11 DEF ToReport
<1>16. Counts(r, entry[o])
  BY <1>2, <1>10, <1>11 DEF Counts, Running
<1>17. Lefts(r, left[o])'
  <2>1. left'[o] = left[o] \cup D
    BY <1>1, <1>11, <1>12
  <2>2. q.targets \subseteq poolIds \cup left[o]
    BY <1>2, <1>11 DEF Lefts, Running
  <2> QED
    BY <1>6, <1>10, <1>12, <2>1, <2>2 DEF Lefts
<1> QED
  BY <1>2, <1>10, <1>11, <1>13, <1>14, <1>15, <1>16, <1>17, OneOperation

\* One target is counted.
LEMMA PublishKeeps ==
  ASSUME OpInv, NEW o \in Operations, NEW a \in Accounts, Publish(o, a)
  PROVE  OpInv'
<1>1. PICK q : q = op[o]
  OBVIOUS
<1>2. q \in OpRow /\ WorkLeft(q) /\ ToReport(q) /\ Counts(q, entry[o]) /\ Lefts(q, left[o])
      /\ entry[o] \in EntryRow /\ poolIds \subseteq Accounts
  BY <1>1 DEF OpInv, OpTypes, OpSound
<1>3. /\ q.targets \in SUBSET Accounts /\ q.todo \in SUBSET Accounts /\ q.busy \in SUBSET Accounts
      /\ q.updated \in SUBSET Accounts /\ q.removed \in SUBSET Accounts
      /\ q.errors \in SUBSET Accounts /\ q.skipped \in SUBSET Accounts
  BY <1>2, OpRows
<1>4. PICK T \in SUBSET Accounts : T = q.todo \ {a}
  BY <1>3
<1>5. PICK r : r = [q EXCEPT !.todo = T]
  OBVIOUS
<1>6. r \in OpRow /\ r.targets = q.targets /\ r.wanted = q.wanted /\ r.stage = q.stage
      /\ r.todo = T /\ r.busy = q.busy /\ r.updated = q.updated /\ r.removed = q.removed
      /\ r.errors = q.errors /\ r.skipped = q.skipped
  BY <1>2, <1>5 DEF OpRow, Stages
<1>7. PICK e : e = Counted(entry[o], 1)
  OBVIOUS
<1>8. q.stage = "publishing" /\ a \in q.todo /\ op' = [op EXCEPT ![o] = r]
      /\ entry' = [entry EXCEPT ![o] = e] /\ poolIds' = poolIds /\ left' = left /\ PoolMoves
  BY <1>1, <1>2, <1>4, <1>5, <1>7, StillPool DEF Publish, OpInv, OpTypes, poolVars
<1>9. e \in EntryRow
  BY <1>2, <1>7, CountedEntries
<1>10. WorkLeft(r) /\ ToReport(r)
  BY <1>2, <1>4, <1>6, <1>8 DEF WorkLeft, ToReport, Running
<1>11. Counts(r, e)
  <2>1. Cardinality(q.todo) = Cardinality(T) + 1 /\ Cardinality(T) \in Nat
        /\ Cardinality(q.busy) \in Nat
    BY <1>3, <1>4, <1>8, Sizes
  <2>2. e.state = entry[o].state /\ e.total = entry[o].total /\ entry[o].processed \in Nat
        /\ (e.state = "open" => e.processed = entry[o].processed + 1)
    BY <1>2, <1>7, CountedEntries
  <2> QED
    BY <1>2, <1>6, <1>8, <2>1, <2>2 DEF Counts, Running
<1>12. Lefts(r, left[o])'
  BY <1>2, <1>6, <1>8 DEF Lefts
<1> QED
  BY <1>6, <1>8, <1>9, <1>10, <1>11, <1>12, OneOperation

\* The exchange looks its accounts up.
LEMMA LookKeeps ==
  ASSUME OpInv, NEW o \in Operations, LookUp(o)
  PROVE  OpInv'
<1>1. PICK q : q = op[o]
  OBVIOUS
<1>2. q \in OpRow /\ WorkLeft(q) /\ ToReport(q) /\ Counts(q, entry[o]) /\ Lefts(q, left[o])
      /\ entry[o] \in EntryRow /\ poolIds \subseteq Accounts
  BY <1>1 DEF OpInv, OpTypes, OpSound
<1>3. /\ q.targets \in SUBSET Accounts /\ q.todo \in SUBSET Accounts /\ q.busy \in SUBSET Accounts
      /\ q.updated \in SUBSET Accounts /\ q.removed \in SUBSET Accounts
      /\ q.errors \in SUBSET Accounts /\ q.skipped \in SUBSET Accounts
  BY <1>2, OpRows
<1>4. PICK T \in SUBSET Accounts : T = q.todo \cap poolIds
  BY <1>3
<1>5. PICK G \in SUBSET Accounts : G = q.targets \ poolIds
  BY <1>3
<1>6. PICK E \in SUBSET Accounts : E = q.errors \cup G
  BY <1>3
<1>7. PICK r : r = [q EXCEPT !.stage = "working", !.todo = T, !.errors = E]
  OBVIOUS
<1>8. r \in OpRow /\ r.targets = q.targets /\ r.wanted = q.wanted /\ r.stage = "working"
      /\ r.todo = T /\ r.busy = q.busy /\ r.updated = q.updated /\ r.removed = q.removed
      /\ r.errors = E /\ r.skipped = q.skipped
  BY <1>2, <1>7 DEF OpRow, Stages
<1>9. PICK f : f = Reopened(o)
  OBVIOUS
<1>10. PICK e : e = Counted(f, Cardinality(G))
  OBVIOUS
<1>11. q.stage = "looking" /\ op' = [op EXCEPT ![o] = r]
      /\ entry' = [entry EXCEPT ![o] = e] /\ poolIds' = poolIds /\ left' = left /\ PoolMoves
  BY <1>1, <1>2, <1>4, <1>5, <1>6, <1>7, <1>9, <1>10, StillPool DEF LookUp, OpInv, OpTypes, poolVars
<1>12. q.todo = q.targets /\ q.busy = {}
  BY <1>2, <1>11 DEF WorkLeft
<1>13. /\ Cardinality(q.targets) \in Nat /\ Cardinality(T) \in Nat /\ Cardinality(G) \in Nat
       /\ Cardinality(T) + Cardinality(G) = Cardinality(q.targets) /\ Cardinality({}) = 0
  BY <1>2, <1>3, <1>4, <1>5, <1>12, Sizes
<1>14. f \in EntryRow /\ f.state = "open" /\ f.processed + Cardinality(q.targets) = f.total
  <2>1. CASE entry[o].state = "none"
    <3>1. f = [state |-> "open", total |-> Cardinality(q.targets), processed |-> 0]
      BY <1>1, <1>9, <2>1 DEF Reopened
    <3> QED
      BY <1>13, <3>1, OpenEntries
  <2>2. CASE entry[o].state # "none"
    <3>1. f = entry[o]
      BY <1>9, <2>2 DEF Reopened
    <3>2. f.processed \in Nat /\ f.total \in Nat
      BY <1>2, <3>1 DEF EntryRow
    <3> QED
      BY <1>2, <1>11, <1>12, <1>13, <2>2, <3>1, <3>2 DEF Counts, Running
  <2> QED
    BY <2>1, <2>2
<1>15. e \in EntryRow /\ e.state = "open" /\ e.processed + Cardinality(T) + Cardinality({}) = e.total
  <2>1. /\ e \in EntryRow /\ e.state = "open" /\ e.total = f.total /\ f.processed \in Nat
        /\ e.processed = f.processed + Cardinality(G) /\ f.total \in Nat
    BY <1>10, <1>13, <1>14, CountedEntries
  <2> QED
    BY <1>13, <1>14, <2>1
<1>16. WorkLeft(r) /\ ToReport(r)
  BY <1>2, <1>4, <1>5, <1>6, <1>8, <1>11, <1>12 DEF WorkLeft, ToReport, Running
<1>17. Counts(r, e)
  BY <1>8, <1>12, <1>15 DEF Counts
<1>18. Lefts(r, left[o])'
  BY <1>2, <1>8, <1>11 DEF Lefts, Running
<1> QED
  BY <1>8, <1>11, <1>15, <1>16, <1>17, <1>18, OneOperation

\* A request is made for one account.
LEMMA RequestKeepsOps ==
  ASSUME OpInv, NEW o \in Operations, NEW a \in Accounts, Request(o, a)
  PROVE  OpInv'
<1>1. PICK q : q = op[o]
  OBVIOUS
<1>2. q \in OpRow /\ WorkLeft(q) /\ ToReport(q) /\ Counts(q, entry[o]) /\ Lefts(q, left[o])
      /\ entry[o] \in EntryRow /\ poolIds \subseteq Accounts
  BY <1>1 DEF OpInv, OpTypes, OpSound
<1>3. /\ q.targets \in SUBSET Accounts /\ q.todo \in SUBSET Accounts /\ q.busy \in SUBSET Accounts
      /\ q.updated \in SUBSET Accounts /\ q.removed \in SUBSET Accounts
      /\ q.errors \in SUBSET Accounts /\ q.skipped \in SUBSET Accounts
  BY <1>2, OpRows
<1>4. PICK T \in SUBSET Accounts : T = q.todo \ {a}
  BY <1>3
<1>5. PICK B \in SUBSET Accounts : B = q.busy \cup {a}
  BY <1>3
<1>6. PICK r : r = [q EXCEPT !.todo = T, !.busy = B]
  OBVIOUS
<1>7. r \in OpRow /\ r.targets = q.targets /\ r.wanted = q.wanted /\ r.stage = q.stage
      /\ r.todo = T /\ r.busy = B /\ r.updated = q.updated /\ r.removed = q.removed
      /\ r.errors = q.errors /\ r.skipped = q.skipped
  BY <1>2, <1>6 DEF OpRow
<1>8. q.stage = "working" /\ a \in q.todo /\ op' = [op EXCEPT ![o] = r]
      /\ entry' = [entry EXCEPT ![o] = entry[o]] /\ poolIds' = poolIds /\ left' = left /\ PoolMoves
  BY <1>1, <1>4, <1>5, <1>6, StillPool DEF Request, OpInv, OpTypes, poolVars
<1>9. a \notin q.busy
  BY <1>2, <1>8 DEF WorkLeft, Running
<1>10. WorkLeft(r) /\ ToReport(r)
  BY <1>2, <1>4, <1>5, <1>7, <1>8, <1>9 DEF WorkLeft, ToReport, Running
<1>11. Counts(r, entry[o])
  <2>1. Cardinality(q.todo) = Cardinality(T) + 1 /\ Cardinality(T) \in Nat
        /\ Cardinality(q.busy) \in Nat /\ Cardinality(B) = Cardinality(q.busy) + 1
    BY <1>3, <1>4, <1>5, <1>8, <1>9, Sizes
  <2>2. entry[o].processed \in Nat /\ entry[o].total \in Nat
    BY <1>2 DEF EntryRow
  <2> QED
    BY <1>2, <1>7, <1>8, <2>1, <2>2 DEF Counts, Running
<1>12. Lefts(r, left[o])'
  BY <1>2, <1>7, <1>8 DEF Lefts
<1> QED
  BY <1>2, <1>7, <1>8, <1>10, <1>11, <1>12, OneOperation

\* One account more is counted, and no longer waits or is asked for.
LEMMA CountsOne ==
  ASSUME NEW q \in OpRow, NEW r \in OpRow, NEW f \in EntryRow, NEW e \in EntryRow, NEW a \in Accounts,
         q.stage = "working", r.stage = "working", Counts(q, f), e = Counted(f, 1),
         \/ a \in q.todo /\ r.todo = q.todo \ {a} /\ r.busy = q.busy
         \/ a \in q.busy /\ r.busy = q.busy \ {a} /\ r.todo = q.todo
  PROVE  Counts(r, e)
<1>1. q.todo \in SUBSET Accounts /\ q.busy \in SUBSET Accounts /\ r.todo \in SUBSET Accounts
      /\ r.busy \in SUBSET Accounts
  BY OpRows
<1>2. /\ Cardinality(q.todo) \in Nat /\ Cardinality(q.busy) \in Nat
      /\ Cardinality(r.todo) \in Nat /\ Cardinality(r.busy) \in Nat
      /\ Cardinality(q.todo) + Cardinality(q.busy) = Cardinality(r.todo) + Cardinality(r.busy) + 1
  BY <1>1, Sizes
<1>3. e.state = f.state /\ e.total = f.total /\ f.processed \in Nat /\ f.total \in Nat
      /\ (e.state = "open" => e.processed = f.processed + 1)
  BY DEF EntryRow, Counted
<1> QED
  BY <1>2, <1>3 DEF Counts, Running

\* An account is passed over.
LEMMA PassKeeps ==
  ASSUME OpInv, NEW o \in Operations, NEW a \in Accounts, PassOver(o, a)
  PROVE  OpInv'
<1>1. PICK q : q = op[o]
  OBVIOUS
<1>2. q \in OpRow /\ WorkLeft(q) /\ ToReport(q) /\ Counts(q, entry[o]) /\ Lefts(q, left[o])
      /\ entry[o] \in EntryRow /\ poolIds \subseteq Accounts
  BY <1>1 DEF OpInv, OpTypes, OpSound
<1>3. /\ q.targets \in SUBSET Accounts /\ q.todo \in SUBSET Accounts /\ q.busy \in SUBSET Accounts
      /\ q.updated \in SUBSET Accounts /\ q.removed \in SUBSET Accounts
      /\ q.errors \in SUBSET Accounts /\ q.skipped \in SUBSET Accounts
  BY <1>2, OpRows
<1>4. PICK T \in SUBSET Accounts : T = q.todo \ {a}
  BY <1>3
<1>5. PICK E \in SUBSET Accounts : E = q.errors \cup {a}
  BY <1>3
<1>6. PICK r : r = [q EXCEPT !.todo = T, !.errors = E]
  OBVIOUS
<1>7. r \in OpRow /\ r.targets = q.targets /\ r.wanted = q.wanted /\ r.stage = q.stage
      /\ r.todo = T /\ r.busy = q.busy /\ r.updated = q.updated /\ r.removed = q.removed
      /\ r.errors = E /\ r.skipped = q.skipped
  BY <1>2, <1>6 DEF OpRow
<1>8. PICK e : e = Counted(entry[o], 1)
  OBVIOUS
<1>9. q.stage = "working" /\ a \in q.todo /\ op' = [op EXCEPT ![o] = r]
      /\ entry' = [entry EXCEPT ![o] = e] /\ poolIds' = poolIds /\ left' = left /\ PoolMoves
  BY <1>1, <1>4, <1>5, <1>6, <1>8, StillPool DEF PassOver, OpInv, OpTypes, poolVars
<1>10. WorkLeft(r) /\ ToReport(r)
  BY <1>2, <1>4, <1>5, <1>7, <1>9 DEF WorkLeft, ToReport, Running
<1>11. e \in EntryRow
  BY <1>2, <1>8, CountedEntries
<1>12. Counts(r, e)
  BY <1>2, <1>4, <1>7, <1>8, <1>9, <1>11, CountsOne
<1>13. Lefts(r, left[o])'
  BY <1>2, <1>7, <1>9 DEF Lefts
<1> QED
  BY <1>7, <1>9, <1>10, <1>11, <1>12, <1>13, OneOperation

\* An account is exchanged, or not.
LEMMA ExchangeKeeps ==
  ASSUME OpInv, NEW o \in Operations, NEW a \in Accounts,
         NEW outcome \in {"updated", "skipped", "errors"}, TargetExchanged(o, a, outcome)
  PROVE  OpInv'
<1>1. PICK q : q = op[o]
  OBVIOUS
<1>2. q \in OpRow /\ WorkLeft(q) /\ ToReport(q) /\ Counts(q, entry[o]) /\ Lefts(q, left[o])
      /\ entry[o] \in EntryRow /\ poolIds \subseteq Accounts
  BY <1>1 DEF OpInv, OpTypes, OpSound
<1>3. /\ q.targets \in SUBSET Accounts /\ q.todo \in SUBSET Accounts /\ q.busy \in SUBSET Accounts
      /\ q.updated \in SUBSET Accounts /\ q.removed \in SUBSET Accounts
      /\ q.errors \in SUBSET Accounts /\ q.skipped \in SUBSET Accounts
  BY <1>2, OpRows
<1>4. PICK B \in SUBSET Accounts : B = q.busy \ {a}
  BY <1>3
<1>5. PICK r : r = [[q EXCEPT !.busy = B] EXCEPT ![outcome] = @ \cup {a}]
  OBVIOUS
<1>6. r \in OpRow /\ r.targets = q.targets /\ r.wanted = q.wanted /\ r.stage = q.stage
      /\ r.todo = q.todo /\ r.busy = B /\ r.removed = q.removed
      /\ q.updated \subseteq r.updated /\ q.errors \subseteq r.errors /\ q.skipped \subseteq r.skipped
      /\ r.updated \subseteq q.updated \cup {a} /\ r.errors \subseteq q.errors \cup {a}
      /\ r.skipped \subseteq q.skipped \cup {a}
      /\ a \in r.updated \cup r.errors \cup r.skipped
  <2>1. CASE outcome = "updated"
    BY <1>2, <1>3, <1>5, <2>1 DEF OpRow
  <2>2. CASE outcome = "skipped"
    BY <1>2, <1>3, <1>5, <2>2 DEF OpRow
  <2>3. CASE outcome = "errors"
    BY <1>2, <1>3, <1>5, <2>3 DEF OpRow
  <2> QED
    BY <2>1, <2>2, <2>3
<1>7. PICK e : e = Counted(entry[o], 1)
  OBVIOUS
<1>8. a \in q.busy /\ op' = [op EXCEPT ![o] = r]
      /\ entry' = [entry EXCEPT ![o] = e] /\ poolIds' = poolIds /\ left' = left /\ PoolMoves
  BY <1>1, <1>4, <1>5, <1>7, StillPool DEF TargetExchanged, OpInv, OpTypes, poolVars
<1>9. q.stage = "working"
  BY <1>2, <1>8 DEF WorkLeft
<1>10. a \in q.targets
  BY <1>2, <1>8, <1>9 DEF WorkLeft, Running
<1>11. WorkLeft(r)
  BY <1>2, <1>4, <1>6, <1>9 DEF WorkLeft, Running
<1>12. ToReport(r)
  BY <1>2, <1>4, <1>6, <1>9, <1>10 DEF ToReport
<1>13. e \in EntryRow
  BY <1>2, <1>7, CountedEntries
<1>14. Counts(r, e)
  BY <1>2, <1>4, <1>6, <1>7, <1>8, <1>9, <1>13, CountsOne
<1>15. Lefts(r, left[o])'
  BY <1>2, <1>6, <1>8, <1>9 DEF Lefts
<1> QED
  BY <1>6, <1>8, <1>11, <1>12, <1>13, <1>14, <1>15, OneOperation

\* An account is synchronised, and may leave for what it turned out to be.
LEMMA SyncKeeps ==
  ASSUME OpInv, NEW o \in Operations, NEW a \in Accounts,
         NEW outcome \in {"updated", "errors"}, NEW fate \in {"kept", "abnormal", "removed"},
         Synced(o, a, outcome, fate)
  PROVE  OpInv'
<1>1. PICK q : q = op[o]
  OBVIOUS
<1>2. q \in OpRow /\ WorkLeft(q) /\ ToReport(q) /\ Counts(q, entry[o]) /\ Lefts(q, left[o])
      /\ entry[o] \in EntryRow /\ poolIds \subseteq Accounts
  BY <1>1 DEF OpInv, OpTypes, OpSound
<1>3. /\ q.targets \in SUBSET Accounts /\ q.todo \in SUBSET Accounts /\ q.busy \in SUBSET Accounts
      /\ q.updated \in SUBSET Accounts /\ q.removed \in SUBSET Accounts
      /\ q.errors \in SUBSET Accounts /\ q.skipped \in SUBSET Accounts
  BY <1>2, OpRows
<1>4. PICK B \in SUBSET Accounts : B = q.busy \ {a}
  BY <1>3
<1>5. PICK E \in SUBSET Accounts : E = IF outcome = "errors" THEN q.errors \cup {a} ELSE q.errors
  BY <1>3
<1>6. PICK U \in SUBSET Accounts : U = IF outcome = "updated" THEN q.updated \cup {a} ELSE q.updated
  BY <1>3
<1>7. PICK r : r = [q EXCEPT !.busy = B, !.errors = E, !.updated = U]
  OBVIOUS
<1>8. r \in OpRow /\ r.targets = q.targets /\ r.wanted = q.wanted /\ r.stage = q.stage
      /\ r.todo = q.todo /\ r.busy = B /\ r.removed = q.removed
      /\ r.updated = U /\ r.errors = E /\ r.skipped = q.skipped
  BY <1>2, <1>7 DEF OpRow
<1>9. PICK e : e = Counted(entry[o], 1)
  OBVIOUS
<1>10. a \in q.busy /\ op' = [op EXCEPT ![o] = r] /\ entry' = [entry EXCEPT ![o] = e]
  BY <1>1, <1>4, <1>5, <1>6, <1>7, <1>9 DEF Synced, OpInv, OpTypes
<1>11. q.stage = "working"
  BY <1>2, <1>10 DEF WorkLeft
<1>12. PoolMoves
  <2>1. CASE fate = "removed"
    BY <2>1, RemovingMoves DEF Synced
  <2>2. CASE fate # "removed"
    BY <2>2 DEF Synced, OpInv, OpTypes, PoolMoves
  <2> QED
    BY <2>1, <2>2
<1>13. a \in q.targets
  BY <1>2, <1>10, <1>11 DEF WorkLeft, Running
<1>14. WorkLeft(r)
  BY <1>2, <1>4, <1>8, <1>11 DEF WorkLeft, Running
<1>15. ToReport(r)
  BY <1>2, <1>4, <1>5, <1>6, <1>8, <1>11, <1>13 DEF ToReport
<1>16. e \in EntryRow
  BY <1>2, <1>9, CountedEntries
<1>17. Counts(r, e)
  BY <1>2, <1>4, <1>8, <1>9, <1>10, <1>11, <1>16, CountsOne
<1>18. Lefts(r, left[o])'
  BY <1>1, <1>2, <1>8, <1>11, <1>12 DEF Lefts, Running, PoolMoves
<1> QED
  BY <1>8, <1>10, <1>12, <1>14, <1>15, <1>16, <1>17, <1>18, OneOperation

\* The result is sorted by what the pool holds.
LEMMA FinishKeeps ==
  ASSUME OpInv, NEW o \in Operations, FinishRemote(o)
  PROVE  OpInv'
<1>1. PICK q : q = op[o]
  OBVIOUS
<1>2. q \in OpRow /\ WorkLeft(q) /\ ToReport(q) /\ Counts(q, entry[o]) /\ Lefts(q, left[o])
      /\ entry[o] \in EntryRow /\ poolIds \subseteq Accounts
  BY <1>1 DEF OpInv, OpTypes, OpSound
<1>3. /\ q.targets \in SUBSET Accounts /\ q.todo \in SUBSET Accounts /\ q.busy \in SUBSET Accounts
      /\ q.updated \in SUBSET Accounts /\ q.removed \in SUBSET Accounts
      /\ q.errors \in SUBSET Accounts /\ q.skipped \in SUBSET Accounts
  BY <1>2, OpRows
<1>4. PICK U \in SUBSET Accounts :
        U = IF q.kind = "sync" THEN q.targets \cap poolIds ELSE q.updated \cap poolIds
  BY <1>3
<1>5. PICK M \in SUBSET Accounts : M = q.targets \ poolIds
  BY <1>3
<1>6. PICK r : r = [q EXCEPT !.stage = "done", !.updated = U, !.removed = M]
  OBVIOUS
<1>7. r \in OpRow /\ r.targets = q.targets /\ r.wanted = q.wanted /\ r.stage = "done"
      /\ r.todo = q.todo /\ r.busy = q.busy /\ r.removed = M
      /\ r.updated = U /\ r.errors = q.errors /\ r.skipped = q.skipped
  BY <1>2, <1>6 DEF OpRow, Stages
<1>8. PICK e : e = Finished(entry[o], "done")
  OBVIOUS
<1>9. q.stage = "working" /\ q.todo = {} /\ q.busy = {} /\ op' = [op EXCEPT ![o] = r]
      /\ entry' = [entry EXCEPT ![o] = e] /\ poolIds' = poolIds /\ left' = left /\ PoolMoves
  BY <1>1, <1>4, <1>5, <1>6, <1>8, StillPool DEF FinishRemote, OpInv, OpTypes, poolVars
<1>10. WorkLeft(r)
  BY <1>7, <1>9 DEF WorkLeft, Running
<1>11. ToReport(r)
  <2>1. q.wanted = q.targets \cup q.errors /\ q.updated \cup q.skipped \subseteq q.targets
        /\ q.targets \subseteq q.updated \cup q.errors \cup q.skipped
    BY <1>2, <1>9 DEF ToReport
  <2>2. U \subseteq q.targets /\ q.updated \subseteq U \cup M
    BY <1>4, <1>5, <2>1
  <2>3. q.targets \cup q.errors = U \cup M \cup q.errors \cup q.skipped
    BY <1>5, <2>1, <2>2
  <2> QED
    BY <1>7, <2>1, <2>3 DEF ToReport
<1>12. e \in EntryRow /\ Counts(r, e)
  BY <1>2, <1>7, <1>8, <1>9, EntryChanges DEF Counts, Running
<1>13. Lefts(r, left[o])'
  BY <1>2, <1>5, <1>7, <1>9 DEF Lefts, Running
<1> QED
  BY <1>7, <1>9, <1>10, <1>11, <1>12, <1>13, OneOperation

\* The pool changes beside the operations, or an entry is dropped.
LEMMA BesideKeepsOps ==
  ASSUME OpInv, (\E a \in Accounts : Import(a)) \/ Scan \/ Sweep \/ UNCHANGED operationVars
  PROVE  OpInv'
<1>1. PoolMoves /\ UNCHANGED <<op, entry>>
  <2>1. CASE \E a \in Accounts : Import(a)
    BY <2>1 DEF Import, Added, OpInv, OpTypes, PoolMoves
  <2>2. CASE Scan \/ UNCHANGED operationVars
    BY <2>2, StillPool DEF Scan, operationVars, poolVars
  <2>3. CASE Sweep
    BY <2>3, RemovingMoves DEF Sweep
  <2> QED
    BY <2>1, <2>2, <2>3
<1>2. ASSUME NEW p \in Operations PROVE OpSound(p)'
  <2>1. Lefts(op[p], left[p])'
    BY <1>1 DEF Lefts, PoolMoves, OpInv, OpSound
  <2> QED
    BY <1>1, <2>1 DEF OpInv, OpSound
<1> QED
  BY <1>1, <1>2 DEF OpInv, OpTypes, PoolMoves

\* The entry of an operation lapses and is forgotten.
LEMMA LapseKeeps ==
  ASSUME OpInv, NEW o \in Operations, Lapse(o)
  PROVE  OpInv'
<1>1. entry' = [entry EXCEPT ![o] = NoEntry] /\ UNCHANGED <<poolIds, left, op>>
  BY DEF Lapse, poolVars
<1>2. OpTypes'
  BY <1>1, EntryChanges DEF OpInv, OpTypes
<1>3. ASSUME NEW p \in Operations PROVE OpSound(p)'
  <2>1. WorkLeft(op[p])' /\ ToReport(op[p])' /\ Lefts(op[p], left[p])'
    BY <1>1 DEF OpInv, OpSound, Lefts
  <2>2. entry'[p] \in {entry[p], NoEntry}
    BY <1>1 DEF OpInv, OpTypes
  <2>3. Counts(op[p], entry[p])'
    BY <1>1, <2>2, EntryChanges DEF OpInv, OpSound, Counts
  <2> QED
    BY <2>1, <2>3 DEF OpSound
<1> QED
  BY <1>2, <1>3 DEF OpInv

\* No operation has been asked for.
LEMMA InitOps == OperationsInit => OpInv
<1> SUFFICES ASSUME OperationsInit PROVE OpInv
  OBVIOUS
<1>1. OpTypes
  BY OpRows, EntryChanges DEF OperationsInit, OpTypes
<1>2. ASSUME NEW o \in Operations PROVE OpSound(o)
  <2>1. op[o] = NoOperation /\ entry[o] = NoEntry /\ left[o] = {}
    BY DEF OperationsInit
  <2>2. NoOperation.stage = "idle" /\ NoOperation.busy = {}
    BY DEF NoOperation
  <2> QED
    BY <2>1, <2>2 DEF OpSound, WorkLeft, ToReport, Counts, Lefts, Running
<1> QED
  BY <1>1, <1>2 DEF OpInv

\* Every step keeps the reports sound.
LEMMA OperationStepKeeps == OpInv /\ [OperationsNext]_operationVars => OpInv'
<1> SUFFICES ASSUME OpInv, [OperationsNext]_operationVars PROVE OpInv'
  OBVIOUS
<1>1. CASE UNCHANGED operationVars \/ (\E a \in Accounts : Import(a)) \/ Scan \/ Sweep
  BY <1>1, BesideKeepsOps
<1>2. ASSUME NEW o \in Operations, NEW ids \in Selections,
             AskDeletion(o, ids) \/ AskUpdate(o, ids) \/ AskExchange(o, ids) \/ AskSync(o, ids)
      PROVE  OpInv'
  BY <1>2, AskKeeps DEF AskDeletion, AskUpdate, AskExchange, AskSync, Mutations, Remote
<1>3. ASSUME NEW o \in Operations, Lapse(o) PROVE OpInv'
  BY <1>3, LapseKeeps
<1>4. ASSUME NEW o \in Operations, Work(o) PROVE OpInv'
  <2>1. CASE TakeOperationSlot(o) \/ MutationFails(o) \/ FinishMutation(o) \/ StartSync(o)
    BY <2>1, StageKeeps
  <2>2. CASE DeleteTargets(o) \/ LookUp(o) \/ FinishRemote(o)
    BY <2>2, DeleteKeeps, LookKeeps, FinishKeeps
  <2>3. CASE \E status \in {"normal", "abnormal", "removed"} : Update(o, status)
    BY <2>3, UpdateKeeps
  <2>4. CASE \E a \in Accounts : Publish(o, a) \/ Request(o, a) \/ PassOver(o, a)
    BY <2>4, PublishKeeps, RequestKeepsOps, PassKeeps
  <2>5. CASE \E a \in Accounts, outcome \in {"updated", "skipped", "errors"} :
               TargetExchanged(o, a, outcome)
    BY <2>5, ExchangeKeeps
  <2>6. CASE \E a \in Accounts, outcome \in {"updated", "errors"},
                fate \in {"kept", "abnormal", "removed"} : Synced(o, a, outcome, fate)
    BY <2>6, SyncKeeps
  <2> QED
    BY <1>4, <2>1, <2>2, <2>3, <2>4, <2>5, <2>6 DEF Work
<1> QED
  BY <1>1, <1>2, <1>3, <1>4 DEF OperationsNext

\* Whatever else happens to the pool and to the entry of a batch operation: the
\* report of one that is done names every account it was asked for, its counter
\* agrees, and what it says has left the pool has left it since the request
\* (_do_delete_accounts and its like).
THEOREM ReportsAreTrue == OperationsSpec => []OperationsReport
<1>1. ASSUME OpInv PROVE OperationsReport
  <2>1. ASSUME NEW o \in Operations, op[o].stage = "done"
        PROVE  /\ op[o].wanted = UNION {Reported(o)[f] : f \in DOMAIN Reported(o)}
               /\ entry[o].state = "done" => entry[o].processed = entry[o].total
               /\ op[o].removed \subseteq left[o]
    <3>1. PICK q : q = op[o]
      OBVIOUS
    <3>2. q \in OpRow /\ WorkLeft(q) /\ ToReport(q) /\ Counts(q, entry[o]) /\ Lefts(q, left[o])
          /\ entry[o] \in EntryRow /\ q.stage = "done"
      BY <1>1, <2>1, <3>1 DEF OpInv, OpTypes, OpSound
    <3>3. q.todo = {} /\ q.busy = {}
      BY <3>2 DEF WorkLeft
    <3>4. entry[o].state = "done" => entry[o].processed = entry[o].total
      BY <3>2, <3>3, Sizes DEF Counts, EntryRow
    <3>5. q.removed \subseteq left[o]
      BY <3>2 DEF Lefts
    <3>6. q.wanted = q.updated \cup q.removed \cup q.errors \cup q.skipped
      BY <3>2 DEF ToReport
    <3>7. UNION {Reported(o)[f] : f \in DOMAIN Reported(o)}
            = (q.updated \ q.removed) \cup q.removed \cup q.errors \cup q.skipped
      BY <3>1 DEF Reported
    <3>8. (q.updated \ q.removed) \cup q.removed = q.updated \cup q.removed
      OBVIOUS
    <3> QED
      BY <3>1, <3>4, <3>5, <3>6, <3>7, <3>8
  <2> QED
    BY <2>1 DEF OperationsReport, EveryTargetReported, RemovedHadLeft
<1> QED
  BY <1>1, InitOps, OperationStepKeeps, PTL DEF OperationsSpec

-----------------------------------------------------------------------------
(* Registrations and the mailboxes they use *)

MailStates == {"free", "in_use", "used", "failed", "invalid"}
TaskRow == [at : Places, box : Boxes, token : Nat]
PendingRow == [token : Nat, tries : Nat]

RegTypes ==
  /\ mail \in [Boxes -> MailStates]
  /\ task \in [Tasks -> TaskRow]
  /\ minted \in [Boxes -> Nat]
  /\ row \in [Boxes -> PendingRow]
  /\ reconciler.rows \subseteq Boxes \X Nat \X Nat
  /\ disturbed \in BOOLEAN

Holds(t) == task[t].at \in Holding

\* A mailbox that is held is in use, by one registration, and one that is in
\* use is held or its end was not reported.
HoldersAreApart ==
  /\ \A t, u \in Tasks : Holds(t) /\ Holds(u) /\ task[t].box = task[u].box => t = u
  /\ \A t \in Tasks : Holds(t) => mail[task[t].box] = "in_use"
  /\ \A m \in Boxes : mail[m] = "in_use" => m \in excused \/ \E t \in Tasks : Holds(t) /\ task[t].box = m

\* What a registration is about to record are the newest tokens of its mailbox.
RecordsAreNewest ==
  \A t \in Tasks : task[t].at = "record" => task[t].token = minted[task[t].box]

\* What a registration is about to forget has reached the pool.
ForgetsWhatArrived ==
  \A t \in Tasks : task[t].at = "forget" => <<task[t].box, task[t].token>> \in outlookPool

\* Where the newest tokens of a mailbox are.
NewestIsKept(m) ==
  \/ minted[m] = 0 \/ minted[m] = row[m].token \/ <<m, minted[m]>> \in outlookPool
  \/ m \in unrecorded
  \/ \E t \in Tasks : task[t].at = "record" /\ task[t].box = m

RegInv ==
  /\ RegTypes
  /\ ForgetsWhatArrived
  /\ ~disturbed => HoldersAreApart /\ RecordsAreNewest /\ \A m \in Boxes : NewestIsKept(m)

\* What the row of a registration is.
LEMMA TaskRows ==
  /\ NoTask \in TaskRow /\ NoTask.at = "none" /\ NoTask.token = 0
  /\ \A r \in TaskRow : r.at \in Places /\ r.box \in Boxes /\ r.token \in Nat
  /\ \A m \in Boxes : LET z == [NoTask EXCEPT !.at = "authorize", !.box = m] IN
       z \in TaskRow /\ z.at = "authorize" /\ z.box = m /\ z.token = 0
  /\ \A r \in TaskRow, s \in Places : LET z == [r EXCEPT !.at = s] IN
       z \in TaskRow /\ z.at = s /\ z.box = r.box /\ z.token = r.token
BY RegistrationAssumption DEF TaskRow, NoTask, Places, Boxes

\* A registration goes on with its mailbox and its tokens.
LEMMA Going ==
  ASSUME RegTypes, NEW t \in Tasks, NEW s \in Places, Go(t, s)
  PROVE  /\ task' \in [Tasks -> TaskRow]
         /\ task'[t].at = s /\ task'[t].box = task[t].box /\ task'[t].token = task[t].token
         /\ \A u \in Tasks \ {t} : task'[u] = task[u]
<1>1. PICK r : r = task[t]
  OBVIOUS
<1>2. r \in TaskRow
  BY <1>1 DEF RegTypes
<1>3. PICK z : z = [r EXCEPT !.at = s]
  OBVIOUS
<1>4. z \in TaskRow /\ z.at = s /\ z.box = r.box /\ z.token = r.token
  BY <1>2, <1>3 DEF TaskRow
<1>5. task' = [task EXCEPT ![t] = z]
  BY <1>1, <1>3 DEF Go, RegTypes
<1> QED
  BY <1>1, <1>4, <1>5 DEF RegTypes

\* A registration goes on and nothing else changes.
LEMMA GoingKeeps ==
  ASSUME RegInv, NEW t \in Tasks, NEW s \in Places, Go(t, s),
         UNCHANGED <<mailVars, minted, row, outlookPool, unrecorded>>,
         reconciler' = reconciler \/ reconciler'.rows = {},
         \/ s \notin Holding \cup {"forget"} /\ ~Holds(t)
         \/ s \in Holding \ {"record"} /\ task[t].at \in Holding \ {"record"}
  PROVE  RegInv'
<1>1. /\ task' \in [Tasks -> TaskRow]
      /\ task'[t].at = s /\ task'[t].box = task[t].box /\ task'[t].token = task[t].token
      /\ \A u \in Tasks \ {t} : task'[u] = task[u]
  BY Going DEF RegInv
<1>2. UNCHANGED <<mail, excused, disturbed, minted, row, outlookPool, unrecorded>>
  BY DEF mailVars
<1>3. RegTypes'
  BY <1>1, <1>2 DEF RegInv, RegTypes
<1>4. ForgetsWhatArrived'
  BY <1>1, <1>2 DEF RegInv, ForgetsWhatArrived, Holding
<1>5. \A u \in Tasks : /\ (Holds(u)' <=> Holds(u)) /\ task'[u].box = task[u].box
                       /\ (task'[u].at = "record" <=> task[u].at = "record")
                       /\ task'[u].token = task[u].token
  BY <1>1 DEF Holds, Holding, Places
<1>6. ASSUME ~disturbed PROVE HoldersAreApart' /\ RecordsAreNewest' /\ \A m \in Boxes : NewestIsKept(m)'
  <2>1. HoldersAreApart'
    BY <1>2, <1>5, <1>6 DEF RegInv, HoldersAreApart
  <2>2. RecordsAreNewest'
    BY <1>2, <1>5, <1>6 DEF RegInv, RecordsAreNewest
  <2>3. \A m \in Boxes : NewestIsKept(m)'
    BY <1>2, <1>5, <1>6 DEF RegInv, NewestIsKept
  <2> QED
    BY <2>1, <2>2, <2>3
<1> QED
  BY <1>2, <1>3, <1>4, <1>6 DEF RegInv

\* A free mailbox is taken.
LEMMA ClaimKeeps ==
  ASSUME RegInv, NEW t \in Tasks, NEW m \in Boxes, task[t].at = "claim",
         mail[m] = "free" \/ (mail[m] = "in_use" /\ HolderOf(m) = {}), Claimed(t, m)
  PROVE  RegInv'
<1>1. PICK z : z = [NoTask EXCEPT !.at = "authorize", !.box = m]
  OBVIOUS
<1>2. z \in TaskRow /\ z.at = "authorize" /\ z.box = m
  BY <1>1, RegistrationAssumption DEF TaskRow, NoTask, Places, Boxes
<1>3. /\ task' = [task EXCEPT ![t] = z] /\ mail' = [mail EXCEPT ![m] = "in_use"]
      /\ excused' = excused \ {m}
      /\ UNCHANGED <<disturbed, minted, row, outlookPool, reconciler, unrecorded>>
  BY <1>1 DEF Claimed, rowVars
<1>4. RegTypes'
  BY <1>2, <1>3 DEF RegInv, RegTypes, MailStates
<1>5. /\ task'[t] = z /\ \A u \in Tasks \ {t} : task'[u] = task[u]
      /\ mail'[m] = "in_use" /\ \A n \in Boxes \ {m} : mail'[n] = mail[n]
      /\ ~Holds(t)
  BY <1>3 DEF RegInv, RegTypes, Holds, Holding
<1>6. ForgetsWhatArrived'
  BY <1>2, <1>3, <1>5 DEF RegInv, ForgetsWhatArrived
<1>7. ASSUME ~disturbed PROVE HoldersAreApart' /\ RecordsAreNewest' /\ \A n \in Boxes : NewestIsKept(n)'
  <2>1. \A u \in Tasks : Holds(u) => task[u].box # m
    BY <1>7 DEF RegInv, HoldersAreApart, HolderOf, Holds
  <2>2. Holds(t)' /\ task'[t].box = m /\ task'[t].at # "record"
    BY <1>2, <1>5 DEF Holds, Holding, Places
  <2>3. \A u \in Tasks \ {t} : (Holds(u)' <=> Holds(u)) /\ task'[u] = task[u]
    BY <1>5 DEF Holds
  <2>4. \A u \in Tasks : Holds(u) => task[u].box \in Boxes
    BY TaskRows DEF RegInv, RegTypes
  <2>5. HoldersAreApart'
    <3>1. \A u, v \in Tasks : Holds(u)' /\ Holds(v)' /\ task'[u].box = task'[v].box => u = v
      BY <1>7, <2>1, <2>2, <2>3 DEF RegInv, HoldersAreApart
    <3>2. \A u \in Tasks : Holds(u)' => mail'[task'[u].box] = "in_use"
      BY <1>5, <1>7, <2>2, <2>3, <2>4 DEF RegInv, HoldersAreApart
    <3>3. ASSUME NEW n \in Boxes, mail'[n] = "in_use"
          PROVE  n \in excused' \/ \E u \in Tasks : Holds(u)' /\ task'[u].box = n
      BY <1>3, <1>5, <1>7, <2>2, <2>3, <3>3 DEF RegInv, HoldersAreApart
    <3> QED
      BY <3>1, <3>2, <3>3 DEF HoldersAreApart
  <2>6. RecordsAreNewest'
    BY <1>3, <1>7, <2>2, <2>3 DEF RegInv, RecordsAreNewest
  <2>7. \A n \in Boxes : NewestIsKept(n)'
    BY <1>3, <1>5, <1>7, <2>3 DEF RegInv, NewestIsKept
  <2> QED
    BY <2>5, <2>6, <2>7
<1> QED
  BY <1>3, <1>4, <1>6, <1>7 DEF RegInv

\* What a report does to the states of the mailboxes.
MailReported(m) ==
  /\ mail' \in [Boxes -> MailStates]
  /\ disturbed' \in BOOLEAN /\ (disturbed => disturbed')
  /\ excused \subseteq excused' /\ (mail'[m] = "in_use" => m \in excused')
  /\ \A n \in Boxes \ {m} :
       mail'[n] = mail[n] \/ (mail'[n] # "in_use" /\ (mail[n] = "in_use" => disturbed'))

\* What the report of a failure may do to a mailbox.
LEMMA Reporting ==
  ASSUME RegTypes, NEW m \in Boxes, NEW seen \in BOOLEAN, ReportFailure(m, seen)
  PROVE  MailReported(m)
<1>1. CASE m \in RemoteBoxes /\ mail' = [mail EXCEPT ![m] = IF seen THEN "failed" ELSE "free"]
           /\ UNCHANGED <<excused, disturbed>>
  BY <1>1 DEF MailReported, RegTypes, MailStates
<1>2. CASE m \in PoolBoxes /\ mail' = [mail EXCEPT ![m] = "failed"] /\ UNCHANGED <<excused, disturbed>>
  BY <1>2 DEF MailReported, RegTypes, MailStates
<1>3. CASE /\ m \in PoolBoxes /\ mail' = [mail EXCEPT ![m] = "invalid", ![Login] = "invalid"]
           /\ disturbed' = (disturbed \/ (m # Login /\ mail[Login] \in {"in_use", "used"}))
           /\ UNCHANGED excused
  <2>1. mail' \in [Boxes -> MailStates] /\ mail'[m] = "invalid"
        /\ \A n \in Boxes \ {m} : mail'[n] = IF n = Login THEN "invalid" ELSE mail[n]
    BY <1>3, RegistrationAssumption DEF RegTypes, MailStates, Boxes
  <2>2. disturbed' \in BOOLEAN /\ (disturbed => disturbed')
    BY <1>3 DEF RegTypes
  <2>3. \A n \in Boxes \ {m} : n = Login /\ mail[n] = "in_use" => disturbed'
    BY <1>3
  <2> QED
    BY <1>3, <2>1, <2>2, <2>3 DEF MailReported
<1>4. CASE ReportFails(m)
  BY <1>4 DEF ReportFails, MailReported, RegTypes
<1> QED
  BY <1>1, <1>2, <1>3, <1>4 DEF ReportFailure

\* A registration gives its mailbox up, reported as it may be.
LEMMA GivingUp ==
  ASSUME RegInv, NEW t \in Tasks, NEW r \in TaskRow, r.at \in {"none", "handoff"},
         task' = [task EXCEPT ![t] = r], task[t].at \in Holding \ {"record"}, MailReported(task[t].box),
         UNCHANGED rowVars
  PROVE  RegInv'
<1>1. PICK m \in Boxes : m = task[t].box
  BY TaskRows DEF RegInv, RegTypes
<1>2. UNCHANGED <<minted, row, outlookPool, reconciler, unrecorded>>
  BY DEF rowVars
<1>3. RegTypes'
  BY <1>2 DEF RegInv, RegTypes, MailReported
<1>4. task'[t] = r /\ \A u \in Tasks \ {t} : task'[u] = task[u]
  BY DEF RegInv, RegTypes
<1>5. ForgetsWhatArrived'
  BY <1>2, <1>4 DEF RegInv, ForgetsWhatArrived
<1>6. ASSUME ~disturbed' PROVE HoldersAreApart' /\ RecordsAreNewest' /\ \A n \in Boxes : NewestIsKept(n)'
  <2>1. ~disturbed /\ HoldersAreApart /\ RecordsAreNewest /\ \A n \in Boxes : NewestIsKept(n)
    BY <1>6 DEF RegInv, MailReported
  <2>2. Holds(t) /\ ~Holds(t)' /\ \A u \in Tasks \ {t} : (Holds(u)' <=> Holds(u)) /\ task'[u] = task[u]
    BY <1>4 DEF Holds, Holding
  <2>3. \A u \in Tasks \ {t} : Holds(u) => task[u].box \in Boxes \ {m}
    BY <1>1, <2>1, <2>2, TaskRows DEF RegInv, RegTypes, HoldersAreApart
  <2>4. HoldersAreApart'
    <3>1. \A u, v \in Tasks : Holds(u)' /\ Holds(v)' /\ task'[u].box = task'[v].box => u = v
      BY <2>1, <2>2 DEF HoldersAreApart
    <3>2. \A u \in Tasks : Holds(u)' => mail'[task'[u].box] = "in_use"
      BY <1>1, <1>6, <2>1, <2>2, <2>3 DEF HoldersAreApart, MailReported
    <3>3. ASSUME NEW n \in Boxes, mail'[n] = "in_use"
          PROVE  n \in excused' \/ \E u \in Tasks : Holds(u)' /\ task'[u].box = n
      <4>1. CASE n = m
        BY <1>1, <3>3, <4>1 DEF MailReported
      <4>2. CASE n # m
        BY <1>1, <2>1, <2>2, <3>3, <4>2 DEF HoldersAreApart, MailReported
      <4> QED
        BY <4>1, <4>2
    <3> QED
      BY <3>1, <3>2, <3>3 DEF HoldersAreApart
  <2>5. RecordsAreNewest'
    BY <1>2, <1>4, <2>1 DEF RecordsAreNewest
  <2>6. \A n \in Boxes : NewestIsKept(n)'
    BY <1>2, <1>4, <2>1 DEF NewestIsKept
  <2> QED
    BY <2>4, <2>5, <2>6
<1> QED
  BY <1>3, <1>5, <1>6 DEF RegInv

\* Tokens are obtained with the mailbox a registration holds.
LEMMA MintKeeps ==
  ASSUME RegInv, NEW t \in Tasks, task[t].at \in {"exchange", "consent"}, Minted(t, task[t].box)
  PROVE  RegInv'
<1>1. PICK q : q = task[t]
  OBVIOUS
<1>2. q \in TaskRow /\ q.box \in Boxes /\ minted[q.box] \in Nat
  BY <1>1, TaskRows DEF RegInv, RegTypes
<1>3. PICK k \in Nat : k = minted[q.box] + 1
  BY <1>2
<1>4. PICK z : z = [q EXCEPT !.at = "record", !.token = k]
  OBVIOUS
<1>5. z \in TaskRow /\ z.at = "record" /\ z.box = q.box /\ z.token = k
  BY <1>2, <1>4 DEF TaskRow, Places
<1>6. /\ task' = [task EXCEPT ![t] = z] /\ minted' = [minted EXCEPT ![q.box] = k]
      /\ UNCHANGED <<mail, excused, disturbed, row, outlookPool, reconciler, unrecorded>>
  BY <1>1, <1>3, <1>4 DEF Minted, mailVars, RegInv, RegTypes
<1>7. RegTypes'
  BY <1>5, <1>6 DEF RegInv, RegTypes
<1>8. task'[t] = z /\ \A u \in Tasks \ {t} : task'[u] = task[u]
  BY <1>6 DEF RegInv, RegTypes
<1>9. minted'[q.box] = k /\ \A n \in Boxes \ {q.box} : minted'[n] = minted[n]
  BY <1>2, <1>6 DEF RegInv, RegTypes
<1>10. ForgetsWhatArrived'
  BY <1>5, <1>6, <1>8 DEF RegInv, ForgetsWhatArrived
<1>11. ASSUME ~disturbed PROVE HoldersAreApart' /\ RecordsAreNewest' /\ \A n \in Boxes : NewestIsKept(n)'
  <2>1. HoldersAreApart /\ RecordsAreNewest /\ \A n \in Boxes : NewestIsKept(n)
    BY <1>11 DEF RegInv
  <2>2. \A u \in Tasks : (Holds(u)' <=> Holds(u)) /\ task'[u].box = task[u].box
    BY <1>1, <1>5, <1>8 DEF Holds, Holding, Places
  <2>3. HoldersAreApart'
    BY <1>6, <2>1, <2>2 DEF HoldersAreApart
  <2>4. ASSUME NEW u \in Tasks \ {t}, task[u].at = "record" PROVE task[u].box \in Boxes \ {q.box}
    <3>1. Holds(t) /\ Holds(u)
      BY <2>4 DEF Holds, Holding, Places
    <3>2. task[u].box \in Boxes
      BY TaskRows DEF RegInv, RegTypes
    <3> QED
      BY <1>1, <2>1, <3>1, <3>2 DEF HoldersAreApart
  <2>5. RecordsAreNewest'
    BY <1>5, <1>8, <1>9, <2>1, <2>4 DEF RecordsAreNewest
  <2>6. NewestIsKept(q.box)'
    BY <1>5, <1>8 DEF NewestIsKept
  <2>7. ASSUME NEW n \in Boxes \ {q.box} PROVE NewestIsKept(n)'
    BY <1>1, <1>6, <1>8, <1>9, <2>1 DEF NewestIsKept
  <2> QED
    BY <2>3, <2>5, <2>6, <2>7
<1> QED
  BY <1>6, <1>7, <1>10, <1>11 DEF RegInv

\* A registration records its tokens, or that fails.
LEMMA RecordKeeps ==
  ASSUME RegInv, NEW t \in Tasks, RecordPending(t)
  PROVE  RegInv'
<1>1. PICK m \in Boxes : m = task[t].box
  BY TaskRows DEF RegInv, RegTypes
<1>2. PICK k \in Nat : k = task[t].token
  BY TaskRows DEF RegInv, RegTypes
<1>3. PICK z : z = [token |-> k, tries |-> 0]
  OBVIOUS
<1>4. z \in PendingRow /\ z.token = k
  BY <1>3 DEF PendingRow
<1>5. /\ task[t].at = "record" /\ Go(t, "mark")
      /\ UNCHANGED <<mail, excused, disturbed, minted, outlookPool, reconciler>>
      /\ \/ row' = [row EXCEPT ![m] = z] /\ unrecorded' = unrecorded \ {m}
         \/ row' = row /\ unrecorded' = unrecorded \cup {m}
  BY <1>1, <1>2, <1>3 DEF RecordPending, mailVars
<1>6. /\ task' \in [Tasks -> TaskRow]
      /\ task'[t].at = "mark" /\ task'[t].box = m /\ task'[t].token = k
      /\ \A u \in Tasks \ {t} : task'[u] = task[u]
  BY <1>1, <1>2, <1>5, Going DEF RegInv, Places
<1>7. RegTypes'
  BY <1>4, <1>5, <1>6 DEF RegInv, RegTypes
<1>8. ForgetsWhatArrived'
  BY <1>5, <1>6 DEF RegInv, ForgetsWhatArrived
<1>9. ASSUME ~disturbed PROVE HoldersAreApart' /\ RecordsAreNewest' /\ \A n \in Boxes : NewestIsKept(n)'
  <2>1. HoldersAreApart /\ RecordsAreNewest /\ \A n \in Boxes : NewestIsKept(n)
    BY <1>9 DEF RegInv
  <2>2. \A u \in Tasks : (Holds(u)' <=> Holds(u)) /\ task'[u].box = task[u].box
    BY <1>1, <1>5, <1>6 DEF Holds, Holding, Places
  <2>3. HoldersAreApart'
    BY <1>5, <2>1, <2>2 DEF HoldersAreApart
  <2>4. RecordsAreNewest'
    BY <1>5, <1>6, <2>1 DEF RecordsAreNewest
  <2>5. NewestIsKept(m)'
    <3>1. k = minted[m]
      BY <1>1, <1>2, <1>5, <2>1 DEF RecordsAreNewest
    <3>2. row'[m].token = k \/ m \in unrecorded'
      BY <1>4, <1>5 DEF RegInv, RegTypes
    <3> QED
      BY <1>5, <3>1, <3>2 DEF NewestIsKept
  <2>6. ASSUME NEW n \in Boxes \ {m} PROVE NewestIsKept(n)'
    <3>1. row'[n] = row[n] /\ (n \in unrecorded => n \in unrecorded')
      BY <1>5 DEF RegInv, RegTypes
    <3> QED
      BY <1>1, <1>5, <1>6, <2>1, <3>1 DEF NewestIsKept
  <2> QED
    BY <2>3, <2>4, <2>5, <2>6
<1> QED
  BY <1>5, <1>7, <1>8, <1>9 DEF RegInv

\* The mailbox is reported as used, or not.
LEMMA MarkKeeps ==
  ASSUME RegInv, NEW t \in Tasks, MarkSuccess(t)
  PROVE  RegInv'
<1>1. PICK m \in Boxes : m = task[t].box
  BY TaskRows DEF RegInv, RegTypes
<1>2. PICK r : r = [task[t] EXCEPT !.at = "handoff"]
  OBVIOUS
<1>3. r \in TaskRow /\ r.at = "handoff"
  BY <1>2 DEF RegInv, RegTypes, TaskRow, Places
<1>4. task' = [task EXCEPT ![t] = r] /\ task[t].at \in Holding \ {"record"} /\ UNCHANGED rowVars
  BY <1>2 DEF MarkSuccess, Go, RegInv, RegTypes, Holding, Places
<1>5. MailReported(m)
  <2>1. CASE mail' = [mail EXCEPT ![m] = "used"] /\ UNCHANGED <<excused, disturbed>>
    BY <2>1 DEF MailReported, RegInv, RegTypes, MailStates
  <2>2. CASE ReportFailure(m, TRUE)
    BY <2>2, Reporting DEF RegInv
  <2> QED
    BY <1>1, <2>1, <2>2 DEF MarkSuccess
<1> QED
  BY <1>1, <1>3, <1>4, <1>5, GivingUp

\* A registration fails, and says so of its mailbox.
LEMMA FailureKeeps ==
  ASSUME RegInv, NEW t \in Tasks, RegistrationFails(t)
  PROVE  RegInv'
<1>1. PICK m \in Boxes : m = task[t].box
  BY TaskRows DEF RegInv, RegTypes
<1>2. ReportFailure(m, TRUE) \/ ReportFailure(m, FALSE)
  BY <1>1 DEF RegistrationFails, ReportFailure
<1>3. MailReported(m)
  BY <1>2, Reporting DEF RegInv
<1>4. task[t].at \in Holding \ {"record"} /\ task' = [task EXCEPT ![t] = NoTask] /\ UNCHANGED rowVars
  BY DEF RegistrationFails, Holding, Places
<1> QED
  BY <1>1, <1>3, <1>4, GivingUp, TaskRows

\* What the hand-over does to the rows and the pool of one mailbox: the pool has
\* the tokens of a row that is dropped.
HandedOver(m) ==
  /\ row' \in [Boxes -> PendingRow]
  /\ outlookPool \subseteq outlookPool'
  /\ row'[m].token = row[m].token \/ <<m, row[m].token>> \in outlookPool'
  /\ \A n \in Boxes \ {m} : row'[n] = row[n]

\* A pending account is dropped once it is in the pool.
LEMMA Dropping ==
  ASSUME RegTypes, NEW m \in Boxes, NEW k \in Nat, <<m, k>> \in outlookPool',
         outlookPool \subseteq outlookPool', row' \in {row, Without(m, k)}
  PROVE  HandedOver(m)
<1>1. NoRow \in PendingRow
  BY DEF NoRow, PendingRow
<1>2. CASE row' = row
  BY <1>2 DEF HandedOver, RegTypes
<1>3. CASE row' = [row EXCEPT ![m] = NoRow] /\ row[m].token = k
  BY <1>1, <1>3 DEF HandedOver, RegTypes
<1> QED
  BY <1>2, <1>3 DEF Without

\* A row is handed over while registrations go on, or one of them ends.
LEMMA HandingOver ==
  ASSUME RegInv, NEW m \in Boxes, HandedOver(m), task' \in [Tasks -> TaskRow],
         \A u \in Tasks : \/ task'[u] = task[u]
                          \/ /\ ~Holds(u) /\ task'[u].at \notin Holding
                             /\ task'[u].at = "forget" =>
                                  <<task'[u].box, task'[u].token>> \in outlookPool',
         UNCHANGED <<mail, excused, disturbed, minted, unrecorded>>,
         reconciler'.rows \subseteq Boxes \X Nat \X Nat
  PROVE  RegInv'
<1>1. RegTypes'
  BY DEF RegInv, RegTypes, HandedOver
<1>2. ForgetsWhatArrived'
  BY DEF RegInv, ForgetsWhatArrived, HandedOver
<1>3. ASSUME ~disturbed PROVE HoldersAreApart' /\ RecordsAreNewest' /\ \A n \in Boxes : NewestIsKept(n)'
  <2>1. HoldersAreApart /\ RecordsAreNewest /\ \A n \in Boxes : NewestIsKept(n)
    BY <1>3 DEF RegInv
  <2>2. \A u \in Tasks : (Holds(u)' <=> Holds(u)) /\ (Holds(u) => task'[u] = task[u])
                         /\ (task'[u].at = "record" => task'[u] = task[u])
    BY DEF Holds, Holding, Places
  <2>3. HoldersAreApart'
    BY <2>1, <2>2 DEF HoldersAreApart
  <2>4. RecordsAreNewest'
    BY <2>1, <2>2 DEF RecordsAreNewest
  <2>5. ASSUME NEW n \in Boxes PROVE NewestIsKept(n)'
    <3>1. \A u \in Tasks : task[u].at = "record" => task'[u] = task[u]
      BY <2>2 DEF Holds, Holding, Places
    <3>2. minted[n] = row[n].token =>
            minted'[n] = row'[n].token \/ <<n, minted'[n]>> \in outlookPool'
      BY DEF HandedOver
    <3> QED
      BY <2>1, <3>1, <3>2 DEF NewestIsKept, HandedOver
  <2> QED
    BY <2>3, <2>4, <2>5
<1> QED
  BY <1>1, <1>2, <1>3 DEF RegInv

\* A step that takes no account from the pending file.
LEMMA NothingDropped ==
  ASSUME RegTypes, row' = row, outlookPool \subseteq outlookPool'
  PROVE  Login \in Boxes /\ HandedOver(Login)
BY RegistrationAssumption DEF RegTypes, HandedOver, Boxes

\* The hand-over by the registration itself.
LEMMA HandOverKeeps ==
  ASSUME RegInv, NEW t \in Tasks, VerifyAccount(t) \/ AddAccount(t) \/ ForgetPending(t)
  PROVE  RegInv'
<1>1. PICK m \in Boxes : m = task[t].box
  BY TaskRows DEF RegInv, RegTypes
<1>2. PICK k \in Nat : k = task[t].token
  BY TaskRows DEF RegInv, RegTypes
<1>3. task[t].at \in {"handoff", "add", "forget"} => ~Holds(t)
  BY DEF Holds, Holding, Places
<1>4. ASSUME task' = [task EXCEPT ![t] = NoTask] \/ task' = task
      PROVE  /\ task' \in [Tasks -> TaskRow]
             /\ \A u \in Tasks : task'[u] = task[u] \/ (u = t /\ task'[u].at = "none")
  BY <1>4, TaskRows, ZenonT(60) DEF RegInv, RegTypes
<1>5. NoOne.rows = {}
  BY DEF NoOne
<1>6. CASE VerifyAccount(t)
  <2>1. /\ task' \in [Tasks -> TaskRow] /\ task'[t].at = "add"
        /\ \A u \in Tasks \ {t} : task'[u] = task[u]
    BY <1>6, Going DEF VerifyAccount, RegInv, Places
  <2>2. reconciler'.rows = {}
    BY <1>6, <1>5 DEF VerifyAccount, NoOne
  <2>3. UNCHANGED <<mail, excused, disturbed, minted, row, outlookPool, unrecorded>>
    BY <1>6 DEF VerifyAccount, mailVars
  <2>4. "add" \notin Holding /\ "add" # "forget" /\ ~Holds(t)
    BY <1>3, <1>6 DEF VerifyAccount, Holding
  <2> QED
    BY <2>1, <2>2, <2>3, <2>4, NothingDropped, HandingOver DEF RegInv
<1>7. CASE AddAccount(t)
  <2>1. CASE outlookPool' = outlookPool \cup {<<task[t].box, task[t].token>>} /\ Go(t, "forget")
             /\ UNCHANGED reconciler
    <3>1. /\ task' \in [Tasks -> TaskRow] /\ task'[t].at = "forget"
          /\ task'[t].box = m /\ task'[t].token = k
          /\ \A u \in Tasks \ {t} : task'[u] = task[u]
      BY <1>1, <1>2, <2>1, Going DEF RegInv, Places
    <3>2. UNCHANGED <<mail, excused, disturbed, minted, row, unrecorded>>
          /\ outlookPool \subseteq outlookPool' /\ <<m, k>> \in outlookPool'
          /\ reconciler'.rows \subseteq Boxes \X Nat \X Nat
      BY <1>1, <1>2, <1>7, <2>1 DEF AddAccount, mailVars, RegInv, RegTypes
    <3>3. "forget" \notin Holding /\ ~Holds(t)
      BY <1>3, <1>7 DEF AddAccount, Holding
    <3> QED
      BY <3>1, <3>2, <3>3, NothingDropped, HandingOver DEF RegInv
  <2>2. CASE task' = [task EXCEPT ![t] = NoTask] /\ reconciler' = NoOne /\ UNCHANGED outlookPool
    <3>1. UNCHANGED <<mail, excused, disturbed, minted, row, unrecorded, outlookPool>>
      BY <1>7, <2>2 DEF AddAccount, mailVars
    <3>2. "none" \notin Holding /\ "none" # "forget" /\ ~Holds(t)
      BY <1>3, <1>7 DEF AddAccount, Holding
    <3> QED
      BY <1>4, <1>5, <2>2, <3>1, <3>2, NothingDropped, HandingOver DEF RegInv
  <2> QED
    BY <1>7, <2>1, <2>2 DEF AddAccount
<1>8. CASE ForgetPending(t)
  <2>1. /\ task[t].at = "forget" /\ row' \in {row, Without(m, k)} /\ reconciler' = NoOne
        /\ task' = [task EXCEPT ![t] = NoTask]
        /\ UNCHANGED <<mail, excused, disturbed, minted, unrecorded, outlookPool>>
    BY <1>1, <1>2, <1>8 DEF ForgetPending, mailVars
  <2>2. <<m, k>> \in outlookPool'
    BY <1>1, <1>2, <2>1 DEF RegInv, ForgetsWhatArrived
  <2>3. HandedOver(m)
    BY <2>1, <2>2, Dropping DEF RegInv
  <2>4. "none" \notin Holding /\ "none" # "forget" /\ ~Holds(t)
    BY <1>3, <2>1 DEF Holding
  <2> QED
    BY <1>4, <1>5, <2>1, <2>3, <2>4, HandingOver
<1> QED
  BY <1>6, <1>7, <1>8

\* The hand-over of the rows that were left, by the scheduler.
LEMMA ReconcileKeeps ==
  ASSUME RegInv, ReconcileBegins \/ ReconcileRow \/ ReconcileEnds
  PROVE  RegInv'
<1>1. task' = task /\ task \in [Tasks -> TaskRow] /\ UNCHANGED <<mail, excused, disturbed, minted, unrecorded>>
  BY DEF ReconcileBegins, ReconcileRow, ReconcileEnds, mailVars, RegInv, RegTypes
<1>2. CASE ReconcileBegins
  <2>1. reconciler'.rows \subseteq Boxes \X Nat \X Nat
    <3>1. PICK rows \in SUBSET Boxes :
            reconciler' = [who |-> "scheduler",
                           rows |-> {<<m, row[m].token, row[m].tries>> : m \in rows}]
      BY <1>2 DEF ReconcileBegins
    <3>2. \A m \in Boxes : row[m].token \in Nat /\ row[m].tries \in Nat
      BY DEF RegInv, RegTypes, PendingRow
    <3> QED
      BY <3>1, <3>2
  <2> QED
    BY <1>1, <1>2, <2>1, NothingDropped, HandingOver DEF ReconcileBegins, RegInv
<1>3. CASE ReconcileEnds
  BY <1>1, <1>3, NothingDropped, HandingOver DEF ReconcileEnds, RegInv, NoOne
<1>4. CASE ReconcileRow
  <2>1. PICK r \in reconciler.rows :
          /\ \/ outlookPool' = outlookPool \cup {<<r[1], r[2]>>} /\ row' \in {row, Without(r[1], r[2])}
             \/ /\ UNCHANGED outlookPool
                /\ row' = IF row[r[1]].token # r[2] THEN row
                          ELSE [row EXCEPT ![r[1]].tries = IF r[3] < MaxRetries THEN r[3] + 1
                                                           ELSE MaxRetries]
          /\ reconciler' = [reconciler EXCEPT !.rows = @ \ {r}]
    BY <1>4 DEF ReconcileRow
  <2>2. r[1] \in Boxes /\ r[2] \in Nat /\ r[3] \in Nat
    BY DEF RegInv, RegTypes
  <2>3. PICK m \in Boxes, k \in Nat, n \in Nat :
          m = r[1] /\ k = r[2] /\ n = IF r[3] < MaxRetries THEN r[3] + 1 ELSE MaxRetries
    BY <2>2, RegistrationAssumption
  <2>4. HandedOver(m)
    <3>1. CASE outlookPool' = outlookPool \cup {<<m, k>>} /\ row' \in {row, Without(m, k)}
      BY <3>1, Dropping DEF RegInv
    <3>2. CASE row' = row /\ UNCHANGED outlookPool
      BY <3>2 DEF RegInv, RegTypes, HandedOver
    <3>3. CASE row' = [row EXCEPT ![m].tries = n] /\ UNCHANGED outlookPool
      <4>1. PICK q : q = row[m]
        OBVIOUS
      <4>2. PICK z : z = [q EXCEPT !.tries = n]
        OBVIOUS
      <4>3. z \in PendingRow /\ z.token = q.token
        BY <4>1, <4>2 DEF RegInv, RegTypes, PendingRow
      <4>4. row' = [row EXCEPT ![m] = z]
        BY <3>3, <4>1, <4>2 DEF RegInv, RegTypes
      <4> QED
        BY <3>3, <4>1, <4>3, <4>4 DEF RegInv, RegTypes, HandedOver
    <3> QED
      BY <2>1, <2>3, <3>1, <3>2, <3>3
  <2>5. reconciler'.rows \subseteq Boxes \X Nat \X Nat
    BY <2>1 DEF RegInv, RegTypes
  <2> QED
    BY <1>1, <2>4, <2>5, HandingOver
<1> QED
  BY <1>2, <1>3, <1>4

\* The process ends.
LEMMA CrashKeeps ==
  ASSUME RegInv, ProcessCrashes
  PROVE  RegInv'
<1>1. /\ \A t \in Tasks : task'[t] = NoTask
      /\ task' \in [Tasks -> TaskRow] /\ reconciler'.rows = {}
      /\ UNCHANGED <<mail, disturbed, minted, row, outlookPool>>
      /\ excused' = excused \cup {m \in Boxes : HolderOf(m) # {}}
      /\ unrecorded' = unrecorded \cup {task[t].box : t \in {u \in Tasks : task[u].at = "record"}}
  BY TaskRows DEF ProcessCrashes, NoOne
<1>2. \A t \in Tasks : task'[t].at = "none" /\ ~Holds(t)'
  BY <1>1, TaskRows DEF Holds, Holding
<1>3. RegTypes' /\ ForgetsWhatArrived'
  BY <1>1, <1>2 DEF RegInv, RegTypes, ForgetsWhatArrived
<1>4. ASSUME ~disturbed PROVE HoldersAreApart' /\ RecordsAreNewest' /\ \A n \in Boxes : NewestIsKept(n)'
  <2>1. HoldersAreApart /\ \A n \in Boxes : NewestIsKept(n)
    BY <1>4 DEF RegInv
  <2>2. ASSUME NEW n \in Boxes, mail'[n] = "in_use" PROVE n \in excused'
    BY <1>1, <2>1, <2>2 DEF HoldersAreApart, HolderOf, Holds
  <2>3. ASSUME NEW n \in Boxes PROVE NewestIsKept(n)'
    BY <1>1, <2>1 DEF NewestIsKept
  <2> QED
    BY <1>2, <2>2, <2>3 DEF HoldersAreApart, RecordsAreNewest
<1> QED
  BY <1>1, <1>3, <1>4 DEF RegInv

\* The pool of addresses is reset, or its credentials are imported.
LEMMA PoolKeeps ==
  ASSUME RegInv, ResetLooks \/ ResetClears \/ ImportCredentials \/ UNCHANGED registrationVars
  PROVE  RegInv'
<1>1. UNCHANGED <<task, minted, row, outlookPool, reconciler, unrecorded>>
  BY DEF ResetLooks, ResetClears, ImportCredentials, registrationVars, rowVars
<1>2. /\ mail' \in [Boxes -> MailStates] /\ disturbed' \in BOOLEAN /\ (disturbed => disturbed')
      /\ ~disturbed' => \A m \in Boxes :
           /\ mail'[m] = "in_use" => mail[m] = "in_use" /\ (m \in excused => m \in excused')
           /\ mail[m] = "in_use" => mail'[m] = "in_use" \/ \A t \in Tasks : ~Live(t)
  <2>1. CASE ResetLooks \/ UNCHANGED registrationVars
    BY <2>1 DEF ResetLooks, registrationVars, mailVars, RegInv, RegTypes
  <2>2. CASE ResetClears
    <3>1. PICK cleared :
            mail' = [m \in Boxes |->
                       IF m \in PoolBoxes /\ mail[m] \in cleared THEN "free" ELSE mail[m]]
      BY <2>2 DEF ResetClears
    <3>2. mail' \in [Boxes -> MailStates]
      BY <3>1 DEF RegInv, RegTypes, MailStates
    <3>3. disturbed' \in BOOLEAN /\ (disturbed => disturbed')
          /\ (~disturbed' => \A t \in Tasks : ~Live(t))
      BY <2>2 DEF ResetClears, RegInv, RegTypes
    <3>4. excused' = {m \in excused : mail'[m] = "in_use"}
      BY <2>2 DEF ResetClears
    <3> QED
      BY <3>1, <3>2, <3>3, <3>4
  <2>3. CASE ImportCredentials
    <3>1. mail' = [m \in Boxes |-> IF m \in PoolBoxes /\ mail[m] \in {"failed", "invalid"}
                                   THEN "free" ELSE mail[m]]
          /\ UNCHANGED <<excused, disturbed>>
      BY <2>3 DEF ImportCredentials
    <3> QED
      BY <3>1 DEF RegInv, RegTypes, MailStates
  <2> QED
    BY <2>1, <2>2, <2>3
<1>3. RegTypes' /\ ForgetsWhatArrived'
  BY <1>1, <1>2 DEF RegInv, RegTypes, ForgetsWhatArrived
<1>4. ASSUME ~disturbed' PROVE HoldersAreApart' /\ RecordsAreNewest' /\ \A n \in Boxes : NewestIsKept(n)'
  <2>1. HoldersAreApart /\ RecordsAreNewest /\ \A n \in Boxes : NewestIsKept(n)
    BY <1>2, <1>4 DEF RegInv
  <2>2. \A t \in Tasks : (Holds(t)' <=> Holds(t)) /\ (Holds(t) => Live(t) /\ task[t].box \in Boxes)
    BY <1>1, TaskRows DEF Holds, Live, Holding, RegInv, RegTypes
  <2>3. HoldersAreApart'
    BY <1>1, <1>2, <1>4, <2>1, <2>2 DEF HoldersAreApart
  <2> QED
    BY <1>1, <2>1, <2>3 DEF RecordsAreNewest, NewestIsKept
<1> QED
  BY <1>3, <1>4 DEF RegInv

\* No registration has begun.
LEMMA InitRegistration == RegistrationInit => RegInv
<1> SUFFICES ASSUME RegistrationInit PROVE RegInv
  OBVIOUS
<1>1. /\ \A t \in Tasks : task[t] = NoTask /\ ~Holds(t)
      /\ \A m \in Boxes : mail[m] = "free" /\ minted[m] = 0
  BY TaskRows DEF RegistrationInit, Holds, Holding
<1>2. RegTypes
  BY TaskRows DEF RegistrationInit, RegTypes, MailStates, PendingRow, NoRow, NoOne
<1>3. ForgetsWhatArrived /\ HoldersAreApart /\ RecordsAreNewest /\ \A m \in Boxes : NewestIsKept(m)
  BY <1>1, TaskRows DEF ForgetsWhatArrived, HoldersAreApart, RecordsAreNewest, NewestIsKept
<1> QED
  BY <1>2, <1>3 DEF RegInv

\* Every step keeps the mailboxes apart and the tokens.
LEMMA RegistrationStepKeeps == RegInv /\ [RegistrationNext]_registrationVars => RegInv'
<1> SUFFICES ASSUME RegInv, [RegistrationNext]_registrationVars PROVE RegInv'
  OBVIOUS
<1>1. CASE ReconcileBegins \/ ReconcileRow \/ ReconcileEnds
  BY <1>1, ReconcileKeeps
<1>2. CASE ProcessCrashes
  BY <1>2, CrashKeeps
<1>3. CASE ResetLooks \/ ResetClears \/ ImportCredentials \/ UNCHANGED registrationVars
  BY <1>3, PoolKeeps
<1>4. ASSUME NEW t \in Tasks, VerifyAccount(t) \/ AddAccount(t) \/ ForgetPending(t) PROVE RegInv'
  BY <1>4, HandOverKeeps
<1>5. ASSUME NEW t \in Tasks,
             RecordPending(t) \/ MarkSuccess(t) \/ RegistrationFails(t)
             \/ ExchangeTokens(t) \/ ExchangeAfterLogin(t)
      PROVE  RegInv'
  BY <1>5, RecordKeeps, MarkKeeps, FailureKeeps, MintKeeps DEF ExchangeTokens, ExchangeAfterLogin
<1>6. ASSUME NEW t \in Tasks, ClaimPoolMailbox(t) \/ ClaimRemoteMailbox(t) PROVE RegInv'
  BY <1>6, ClaimKeeps DEF ClaimPoolMailbox, ClaimRemoteMailbox, Available, Boxes
<1>7. ASSUME NEW t \in Tasks,
             BeginRegistration(t) \/ NoMailbox(t) \/ Authorize(t) \/ ReceiveCode(t)
             \/ PasswordlessLogin(t) \/ CreateAccount(t)
      PROVE  RegInv'
  <2>1. UNCHANGED <<mailVars, minted, row, outlookPool, unrecorded, reconciler>>
    BY <1>7 DEF BeginRegistration, NoMailbox, Authorize, ReceiveCode, PasswordlessLogin,
                CreateAccount, rowVars
  <2>2. CASE BeginRegistration(t) \/ NoMailbox(t)
    <3>1. PICK s \in {"claim", "none"} : Go(t, s)
      BY <2>2 DEF BeginRegistration, NoMailbox
    <3>2. s \in Places /\ s \notin Holding \cup {"forget"} /\ ~Holds(t)
      BY <2>2 DEF BeginRegistration, NoMailbox, Places, Holding, Holds
    <3> QED
      BY <2>1, <3>1, <3>2, GoingKeeps
  <2>3. CASE Authorize(t) \/ ReceiveCode(t) \/ PasswordlessLogin(t) \/ CreateAccount(t)
    <3>1. PICK s \in {"code", "login", "create", "consent", "exchange"} : Go(t, s)
      BY <2>3 DEF Authorize, ReceiveCode, PasswordlessLogin, CreateAccount
    <3>2. s \in Places /\ s \in Holding \ {"record"} /\ task[t].at \in Holding \ {"record"}
      BY <2>3 DEF Authorize, ReceiveCode, PasswordlessLogin, CreateAccount, Places, Holding
    <3> QED
      BY <2>1, <3>1, <3>2, GoingKeeps
  <2> QED
    BY <1>7, <2>2, <2>3
<1> QED
  BY <1>1, <1>2, <1>3, <1>4, <1>5, <1>6, <1>7 DEF RegistrationNext

\* However registrations fail, crash, are reset and handed over: the newest
\* tokens of an account are recorded or in the pool, and a mailbox that is in use
\* is held by one registration, or its report is known to have failed
\* (record_pending_core_result, create_mailbox, mark_mailbox_result).
THEOREM RegistrationsHold == RegistrationSpec => []RegistrationHolds
<1>1. ASSUME RegInv PROVE RegistrationHolds
  <2>1. ASSUME NEW m \in Boxes, ~disturbed
        PROVE  /\ Cardinality(HolderOf(m)) <= 1
               /\ mail[m] = "in_use" => HolderOf(m) # {} \/ m \in excused
               /\ \/ minted[m] \in {0, row[m].token} \/ <<m, minted[m]>> \in outlookPool
                  \/ m \in unrecorded \/ \E t \in HolderOf(m) : task[t].at = "record"
    <3>1. HoldersAreApart /\ NewestIsKept(m)
      BY <1>1, <2>1 DEF RegInv
    <3>2. \A t \in Tasks : t \in HolderOf(m) <=> Holds(t) /\ task[t].box = m
      BY DEF HolderOf, Holds
    <3>3. HolderOf(m) = {} \/ \E t \in Tasks : HolderOf(m) = {t}
      <4>1. \A t, u \in HolderOf(m) : t = u /\ t \in Tasks
        BY <3>1, <3>2 DEF HoldersAreApart, HolderOf
      <4>2. CASE HolderOf(m) # {}
        <5>1. PICK t \in HolderOf(m) : TRUE
          BY <4>2
        <5>2. HolderOf(m) = {t} /\ t \in Tasks
          BY <4>1, <5>1
        <5> QED
          BY <5>2
      <4> QED
        BY <4>2
    <3>4. Cardinality(HolderOf(m)) <= 1
      <4>1. CASE HolderOf(m) = {}
        <5>1. Cardinality(HolderOf(m)) = 0
          BY <4>1, FS_EmptySet
        <5> QED
          BY <5>1
      <4>2. ASSUME NEW t \in Tasks, HolderOf(m) = {t} PROVE Cardinality(HolderOf(m)) <= 1
        <5>1. Cardinality(HolderOf(m)) = 1
          BY <4>2, FS_Singleton
        <5> QED
          BY <5>1
      <4> QED
        BY <3>3, <4>1, <4>2
    <3>5. mail[m] = "in_use" => HolderOf(m) # {} \/ m \in excused
      BY <3>1, <3>2 DEF HoldersAreApart
    <3>6. \A t \in Tasks : task[t].at = "record" => Holds(t)
      BY DEF Holds, Holding, Places
    <3> QED
      BY <3>1, <3>2, <3>4, <3>5, <3>6 DEF NewestIsKept
  <2> QED
    BY <2>1 DEF RegistrationHolds, CreatedAreKept, MailboxesHaveOneUser
<1> QED
  BY <1>1, InitRegistration, RegistrationStepKeeps, PTL DEF RegistrationSpec

-----------------------------------------------------------------------------
(* Checks of an account *)

PoolRow == [present: BOOLEAN, status: {"normal", "abnormal", "disabled"},
            result: Results, scope: {"none", "image", "account"}, remove: BOOLEAN,
            gen: Generations, mark: Nat]
CheckRow == [at: CheckSteps, path: {"image", "account"}, gen: Generations,
             mark: Nat, final: BOOLEAN, verdict: Results]
ReportRow == [at: {"idle", "using", "marked", "done"}, gen: Generations]

VerTypes ==
  /\ pool \in PoolRow
  /\ accepts \in SUBSET Generations /\ rejected \in SUBSET Generations
  /\ reporter \in [Reporters -> ReportRow]
  /\ checker \in [Checkers -> CheckRow]
  /\ queued \in BOOLEAN /\ rerun \in BOOLEAN
  /\ reported \in Nat

\* A check that turns to an exchange, or is about to condemn the account, has
\* had the credentials it holds rejected.
Grounded(r, R) ==
  /\ r.at \in {"again", "exchange"} => r.gen \in R
  /\ r.at = "write" => r.verdict \in {"ok", "error", "invalid"}
  /\ r.at = "write" /\ r.verdict = "invalid" => r.gen \in R

VerInv ==
  /\ VerTypes
  /\ CondemnedWereRejected
  /\ \A c \in Checkers : Grounded(checker[c], rejected)
  /\ reported <= pool.mark

\* What every step does to the row: a generation once rejected stays rejected,
\* and a row that is invalid after it holds one.
RowMoves ==
  /\ pool' \in PoolRow
  /\ pool'.result = "invalid" => pool'.gen \in rejected'
  /\ pool.mark <= pool'.mark

\* The three things a step may never do to the row.
RowPromises ==
  /\ Pending /\ pool'.result # "pending" /\ pool.gen = pool'.gen =>
       \/ \E c \in Checkers : At(c, "write") /\ checker[c].mark >= reported
       \/ queued /\ ~queued'
       \/ reboots' # reboots
  /\ Pending /\ pool'.present /\ pool'.result = "pending" =>
       /\ (pool.scope = "account" => pool'.scope = "account")
       /\ (pool.remove => pool'.remove)
  /\ pool.status = "disabled" => pool'.status = "disabled"

\* What the row of the account is.
LEMMA PoolRows ==
  \A p \in PoolRow : /\ p.present \in BOOLEAN /\ p.status \in {"normal", "abnormal", "disabled"}
                     /\ p.result \in Results /\ p.scope \in {"none", "image", "account"}
                     /\ p.remove \in BOOLEAN /\ p.gen \in Generations /\ p.mark \in Nat
BY DEF PoolRow

\* What the row of a check is.
LEMMA CheckRows ==
  /\ NoCheck \in CheckRow /\ NoCheck.at = "idle"
  /\ \A r \in CheckRow : r.at \in CheckSteps /\ r.gen \in Generations /\ r.mark \in Nat
                         /\ r.verdict \in Results
  /\ \A r \in CheckRow, s \in CheckSteps : LET z == [r EXCEPT !.at = s] IN
       z \in CheckRow /\ z.at = s /\ z.gen = r.gen /\ z.verdict = r.verdict
  /\ \A r \in CheckRow, v \in Results : LET z == [r EXCEPT !.at = "write", !.verdict = v] IN
       z \in CheckRow /\ z.at = "write" /\ z.gen = r.gen /\ z.verdict = v
<1>1. NoCheck \in CheckRow /\ NoCheck.at = "idle"
  BY VerificationAssumption DEF CheckRow, NoCheck, CheckSteps, Generations, Results
<1>2. \A r \in CheckRow : r.at \in CheckSteps /\ r.gen \in Generations /\ r.mark \in Nat
                         /\ r.verdict \in Results
  BY DEF CheckRow
<1>3. ASSUME NEW r \in CheckRow, NEW s \in CheckSteps
      PROVE  LET z == [r EXCEPT !.at = s] IN
             z \in CheckRow /\ z.at = s /\ z.gen = r.gen /\ z.verdict = r.verdict
  BY DEF CheckRow
<1>4. ASSUME NEW r \in CheckRow, NEW v \in Results
      PROVE  LET z == [r EXCEPT !.at = "write", !.verdict = v] IN
             z \in CheckRow /\ z.at = "write" /\ z.gen = r.gen /\ z.verdict = v
  BY DEF CheckRow, CheckSteps
<1> QED
  BY <1>1, <1>2, <1>3, <1>4

\* What a verdict, a report and an exchange make of a row.
LEMMA Verdicts ==
  ASSUME NEW p \in PoolRow
  PROVE  /\ WriteError(p) \in PoolRow /\ WriteError(p).gen = p.gen
         /\ WriteError(p).mark >= p.mark /\ WriteError(p).result # "pending"
         /\ (WriteError(p).result = "invalid" => p.result = "invalid")
         /\ (p.status = "disabled" => WriteError(p).status = "disabled")
         /\ WriteSuccess(p) \in PoolRow /\ WriteSuccess(p).gen = p.gen
         /\ WriteSuccess(p).mark >= p.mark /\ WriteSuccess(p).result = "ok"
         /\ (p.status = "disabled" => WriteSuccess(p).status = "disabled")
         /\ WriteInvalid(p) \in PoolRow /\ WriteInvalid(p).gen = p.gen
         /\ WriteInvalid(p).mark >= p.mark /\ WriteInvalid(p).result = "invalid"
         /\ (p.status = "disabled" => WriteInvalid(p).status = "disabled")
<1>a. /\ p.status \in {"normal", "abnormal", "disabled"} /\ p.gen \in Generations
      /\ p.mark \in Nat /\ p.mark + 1 \in Nat /\ p.mark + 1 >= p.mark
  BY PoolRows
<1>1. /\ WriteError(p) \in PoolRow /\ WriteError(p).gen = p.gen
      /\ WriteError(p).mark >= p.mark /\ WriteError(p).result # "pending"
      /\ (WriteError(p).result = "invalid" => p.result = "invalid")
      /\ (p.status = "disabled" => WriteError(p).status = "disabled")
  <2>1. PICK v : v \in {"error", "invalid"} /\ (v = "invalid" => p.result = "invalid")
                 /\ WriteError(p) = [p EXCEPT !.mark = @ + 1, !.scope = "none", !.remove = FALSE,
                                              !.result = v]
    BY DEF WriteError
  <2>2. PICK q : q = [p EXCEPT !.mark = @ + 1, !.scope = "none", !.remove = FALSE, !.result = v]
    OBVIOUS
  <2>3. q \in PoolRow /\ q.gen = p.gen /\ q.mark = p.mark + 1 /\ q.result = v /\ q.status = p.status
    BY <2>1, <2>2, <1>a DEF PoolRow, Results
  <2> QED
    BY <2>1, <2>2, <2>3, <1>a
<1>2. /\ WriteSuccess(p) \in PoolRow /\ WriteSuccess(p).gen = p.gen
      /\ WriteSuccess(p).mark >= p.mark /\ WriteSuccess(p).result = "ok"
      /\ (p.status = "disabled" => WriteSuccess(p).status = "disabled")
  <2>1. PICK v : v \in {"disabled", "normal"} /\ (p.status = "disabled" => v = "disabled")
                 /\ WriteSuccess(p) = [p EXCEPT !.mark = @ + 1, !.scope = "none", !.remove = FALSE,
                                              !.result = "ok", !.status = v]
    <3>1. CASE p.status = "disabled"
      BY <3>1 DEF WriteSuccess, PoolRow
    <3>2. CASE p.status # "disabled"
      BY <3>2 DEF WriteSuccess, PoolRow
    <3> QED
      BY <3>1, <3>2
  <2>2. PICK q : q = [p EXCEPT !.mark = @ + 1, !.scope = "none", !.remove = FALSE,
                               !.result = "ok", !.status = v]
    OBVIOUS
  <2>3. q \in PoolRow /\ q.gen = p.gen /\ q.mark = p.mark + 1 /\ q.result = "ok" /\ q.status = v
    BY <2>1, <2>2, <1>a DEF PoolRow, Results
  <2> QED
    BY <2>1, <2>2, <2>3, <1>a
<1>3. /\ WriteInvalid(p) \in PoolRow /\ WriteInvalid(p).gen = p.gen
      /\ WriteInvalid(p).mark >= p.mark /\ WriteInvalid(p).result = "invalid"
      /\ (p.status = "disabled" => WriteInvalid(p).status = "disabled")
  <2>1. CASE p.remove /\ p.status # "disabled"
    <3>1. PICK q : q = [p EXCEPT !.present = FALSE, !.result = "invalid", !.status = "abnormal"]
      OBVIOUS
    <3>2. q \in PoolRow /\ q.gen = p.gen /\ q.mark = p.mark /\ q.result = "invalid"
      BY <3>1 DEF PoolRow, Results
    <3>3. WriteInvalid(p) = q
      BY <2>1, <3>1 DEF WriteInvalid
    <3> QED
      BY <2>1, <3>2, <3>3, <1>a
  <2>2. CASE ~(p.remove /\ p.status # "disabled")
    <3>1. PICK v : v \in {"disabled", "abnormal"} /\ (p.status = "disabled" => v = "disabled")
                   /\ WriteInvalid(p) = [p EXCEPT !.mark = @ + 1, !.scope = "none", !.remove = FALSE,
                                                !.result = "invalid", !.status = v]
      <4>1. CASE p.status = "disabled"
        BY <2>2, <4>1 DEF WriteInvalid, PoolRow
      <4>2. CASE p.status # "disabled"
        BY <2>2, <4>2 DEF WriteInvalid, PoolRow
      <4> QED
        BY <4>1, <4>2
    <3>2. PICK q : q = [p EXCEPT !.mark = @ + 1, !.scope = "none", !.remove = FALSE,
                                 !.result = "invalid", !.status = v]
      OBVIOUS
    <3>3. q \in PoolRow /\ q.gen = p.gen /\ q.mark = p.mark + 1 /\ q.result = "invalid" /\ q.status = v
      BY <3>1, <3>2, <1>a DEF PoolRow, Results
    <3> QED
      BY <3>1, <3>2, <3>3, <1>a
  <2> QED
    BY <2>1, <2>2
<1> QED
  BY <1>1, <1>2, <1>3

\* A step that changes the row keeps the invariant if it keeps the checks.
LEMMA RowKeeps ==
  ASSUME VerInv, VerTypes', RowMoves, reported' <= pool'.mark, rejected \subseteq rejected',
         \A c \in Checkers : checker'[c] \in {checker[c], NoCheck}
  PROVE  VerInv'
<1>1. ASSUME NEW c \in Checkers PROVE Grounded(checker'[c], rejected')
  BY CheckRows DEF VerInv, Grounded
<1>2. CondemnedWereRejected'
  BY DEF RowMoves, CondemnedWereRejected
<1> QED
  BY <1>1, <1>2 DEF VerInv

\* A step that changes one check keeps the invariant if it leaves the row.
LEMMA CheckKeeps ==
  ASSUME VerInv, NEW c \in Checkers, NEW r \in CheckRow, checker' = [checker EXCEPT ![c] = r],
         rejected \subseteq rejected', rejected' \subseteq Generations, Grounded(r, rejected'),
         RowMoves, accepts' \subseteq Generations, queued' \in BOOLEAN, rerun' \in BOOLEAN,
         UNCHANGED <<reporter, reported>>
  PROVE  VerInv'
<1>1. VerTypes'
  BY DEF VerInv, VerTypes, RowMoves
<1>2. ASSUME NEW d \in Checkers PROVE Grounded(checker'[d], rejected')
  BY DEF VerInv, VerTypes, Grounded
<1>3. CondemnedWereRejected'
  BY DEF RowMoves, CondemnedWereRejected
<1>4. reported' <= pool'.mark
  BY PoolRows DEF VerInv, VerTypes, RowMoves
<1> QED
  BY <1>1, <1>2, <1>3, <1>4 DEF VerInv

\* A step that leaves the row alone.
LEMMA StillRow ==
  ASSUME VerInv, pool' = pool, rejected \subseteq rejected'
  PROVE  RowMoves /\ RowPromises
BY PoolRows DEF VerInv, VerTypes, RowMoves, RowPromises, CondemnedWereRejected, Pending

\* A row that is still pending and narrower, or no longer blocked, is not what
\* an exchange makes of it.
LEMMA ExchangeMoves ==
  ASSUME VerInv, NEW works \in BOOLEAN, Exchanged(works), pool.present,
         rejected \subseteq rejected'
  PROVE  RowMoves /\ RowPromises /\ accepts' \subseteq Generations
<1> PICK p \in PoolRow : p = pool
  BY DEF VerInv, VerTypes
<1>a. p.gen \in Generations /\ p.mark \in Nat /\ p.gen + 1 \in Generations /\ p.mark + 1 \in Nat
  BY PoolRows, VerificationAssumption DEF Exchanged, Generations
<1>0. PICK r, s, u, g, n :
        /\ r = IF p.result = "invalid" THEN "none" ELSE p.result
        /\ s = IF p.result = "invalid" THEN "none" ELSE p.scope
        /\ u = IF p.status = "abnormal" THEN "normal" ELSE p.status
        /\ g = p.gen + 1 /\ n = p.mark + 1
  OBVIOUS
<1>1. PICK q : q = [p EXCEPT !.gen = g, !.mark = n, !.result = r, !.scope = s,
                             !.remove = IF p.result = "invalid" THEN FALSE ELSE p.remove,
                             !.status = u]
  OBVIOUS
<1>2. pool' = q
  BY <1>0, <1>1 DEF Exchanged, PoolRow
<1>r. /\ g \in Generations /\ n \in Nat /\ r \in Results /\ s \in {"none", "image", "account"}
      /\ u \in {"normal", "abnormal", "disabled"}
  BY <1>0, <1>a, PoolRows DEF Results
<1>q. /\ q \in PoolRow /\ q.gen = p.gen + 1 /\ q.mark = p.mark + 1 /\ q.result = r
      /\ q.scope = s /\ (p.result = "pending" => q.remove = p.remove) /\ q.status = u
  <2>1. CASE p.result = "invalid"
    <3>1. (IF p.result = "invalid" THEN FALSE ELSE p.remove) = FALSE
      BY <2>1
    <3>2. q = [p EXCEPT !.gen = g, !.mark = n, !.result = r, !.scope = s, !.remove = FALSE,
                        !.status = u]
      BY <1>1, <3>1, Zenon
    <3>3. /\ q \in PoolRow /\ q.gen = g /\ q.mark = n /\ q.result = r
          /\ q.scope = s /\ q.remove = FALSE /\ q.status = u
      BY <3>2, <1>r DEF PoolRow
    <3> QED
      BY <3>3, <1>0, <1>a, <2>1
  <2>2. CASE p.result # "invalid" /\ p.remove = TRUE
    <3>1. (IF p.result = "invalid" THEN FALSE ELSE p.remove) = TRUE
      BY <2>2
    <3>2. q = [p EXCEPT !.gen = g, !.mark = n, !.result = r, !.scope = s, !.remove = TRUE,
                        !.status = u]
      BY <1>1, <3>1, Zenon
    <3>3. /\ q \in PoolRow /\ q.gen = g /\ q.mark = n /\ q.result = r
          /\ q.scope = s /\ q.remove = TRUE /\ q.status = u
      BY <3>2, <1>r DEF PoolRow
    <3> QED
      BY <3>3, <1>0, <1>a, <2>2
  <2>3. CASE p.result # "invalid" /\ p.remove = FALSE
    <3>1. (IF p.result = "invalid" THEN FALSE ELSE p.remove) = FALSE
      BY <2>3
    <3>2. q = [p EXCEPT !.gen = g, !.mark = n, !.result = r, !.scope = s, !.remove = FALSE,
                        !.status = u]
      BY <1>1, <3>1, Zenon
    <3>3. /\ q \in PoolRow /\ q.gen = g /\ q.mark = n /\ q.result = r
          /\ q.scope = s /\ q.remove = FALSE /\ q.status = u
      BY <3>2, <1>r DEF PoolRow
    <3> QED
      BY <3>3, <1>0, <1>a, <2>3
  <2> QED
    BY <2>1, <2>2, <2>3, PoolRows
<1>3. /\ q.result # "invalid"
      /\ (p.result = "pending" => q.scope = p.scope /\ q.remove = p.remove)
      /\ (p.status = "disabled" => q.status = "disabled")
  BY <1>q, <1>0
<1>4. RowMoves
  BY <1>2, <1>3, <1>q, <1>a DEF RowMoves
<1>5. RowPromises
  BY <1>2, <1>3, <1>q, <1>a DEF RowPromises, Pending, Generations
<1>6. accepts' \subseteq Generations
  BY <1>a DEF Exchanged, VerInv, VerTypes
<1> QED
  BY <1>4, <1>5, <1>6

\* A request uses the account and reports what came of it.
LEMMA ReporterKeeps ==
  ASSUME VerInv, NEW r \in Reporters, StartUse(r) \/ EndUse(r) \/ ReportResult(r) \/ Schedule(r)
  PROVE  VerInv' /\ RowPromises
<1>t. /\ pool \in PoolRow /\ reporter \in [Reporters -> ReportRow] /\ reported \in Nat
      /\ pool.gen \in Generations /\ pool.mark \in Nat /\ reporter[r].gen \in Generations
      /\ reported <= pool.mark
  BY PoolRows DEF VerInv, VerTypes, ReportRow
<1>o. Over \in ReportRow
  BY VerificationAssumption DEF Over, ReportRow, Generations
<1>1. CASE StartUse(r) \/ EndUse(r) \/ Schedule(r)
  <2>1. reporter' \in [Reporters -> ReportRow]
    <3>1. CASE StartUse(r)
      <4>1. [at |-> "using", gen |-> pool.gen] \in ReportRow
        BY <1>t DEF ReportRow
      <4> QED
        BY <3>1, <4>1, <1>t DEF StartUse
    <3>2. CASE EndUse(r)
      BY <3>2, <1>t, <1>o DEF EndUse
    <3>3. CASE Schedule(r)
      BY <3>3, <1>t, <1>o DEF Schedule
    <3> QED
      BY <1>1, <3>1, <3>2, <3>3
  <2>2. queued' \in BOOLEAN /\ rerun' \in BOOLEAN
    BY <1>1 DEF StartUse, EndUse, Schedule, Enqueue, Active, VerInv, VerTypes
  <2>3. UNCHANGED <<pool, accepts, rejected, checker, reported>>
    BY <1>1 DEF StartUse, EndUse, Schedule
  <2>4. VerTypes'
    BY <2>1, <2>2, <2>3 DEF VerInv, VerTypes
  <2>5. RowMoves /\ RowPromises
    BY <2>3, StillRow
  <2> QED
    BY <2>3, <2>4, <2>5, <1>t, RowKeeps
<1>2. CASE ReportResult(r)
  <2>0. /\ rejected' = rejected \cup {reporter[r].gen} /\ rejected' \subseteq Generations
        /\ UNCHANGED <<accepts, checker, queued, rerun, reboots>>
    BY <1>2, <1>t DEF ReportResult, VerInv, VerTypes
  <2>1. CASE UNCHANGED <<pool, reported>> /\ reporter' = [reporter EXCEPT ![r] = Over]
    <3>1. VerTypes'
      BY <2>0, <2>1, <1>t, <1>o DEF VerInv, VerTypes
    <3>2. RowMoves /\ RowPromises
      BY <2>0, <2>1, StillRow
    <3> QED
      BY <2>0, <2>1, <3>1, <3>2, <1>t, RowKeeps
  <2>2. CASE pool' = MarkedPending(r) /\ reported' = pool.mark + 1
             /\ reporter' = [reporter EXCEPT ![r].at = "marked"]
    <3> PICK p \in PoolRow : p = pool
      BY <1>t
    <3>1. PICK s, n : /\ s = IF Pending /\ p.scope = "account" THEN "account" ELSE ScopeOf[r]
                      /\ n = p.mark + 1
      OBVIOUS
    <3>2. n \in Nat /\ s \in {"none", "image", "account"} /\ n >= p.mark /\ p.mark \in Nat
      BY <3>1, <1>t, VerificationAssumption
    <3>3. /\ pool' \in PoolRow /\ pool'.gen = p.gen /\ pool'.mark = n /\ pool'.scope = s
          /\ pool'.result = "pending" /\ pool'.status = p.status /\ (p.remove => pool'.remove)
      <4>1. PICK q : q = [p EXCEPT !.result = "pending", !.mark = n, !.scope = s,
                                   !.remove = (p.remove \/ RemovesOf[r])]
        OBVIOUS
      <4>2. pool' = q
        BY <2>2, <3>1, <4>1 DEF MarkedPending
      <4>3. CASE (p.remove \/ RemovesOf[r]) = TRUE
        <5>1. q = [p EXCEPT !.result = "pending", !.mark = n, !.scope = s, !.remove = TRUE]
          BY <4>1, <4>3, Zenon
        <5> QED
          BY <4>2, <5>1, <3>2 DEF PoolRow, Results
      <4>4. CASE (p.remove \/ RemovesOf[r]) = FALSE
        <5>1. q = [p EXCEPT !.result = "pending", !.mark = n, !.scope = s, !.remove = FALSE]
          BY <4>1, <4>4, Zenon
        <5> QED
          BY <4>2, <4>4, <5>1, <3>2 DEF PoolRow, Results
      <4> QED
        BY <4>3, <4>4
    <3>4. RowMoves
      BY <3>2, <3>3 DEF RowMoves
    <3>5. RowPromises
      BY <3>1, <3>3 DEF RowPromises
    <3>6. reporter' \in [Reporters -> ReportRow] /\ reported' \in Nat /\ reported' <= pool'.mark
      <4>1. [reporter[r] EXCEPT !.at = "marked"] \in ReportRow
        BY <1>t DEF ReportRow
      <4> QED
        BY <2>2, <3>1, <3>2, <3>3, <4>1, <1>t
    <3>7. VerTypes'
      BY <2>0, <3>3, <3>6 DEF VerInv, VerTypes
    <3> QED
      BY <2>0, <3>4, <3>5, <3>6, <3>7, RowKeeps
  <2> QED
    BY <1>2, <2>1, <2>2 DEF ReportResult
<1> QED
  BY <1>1, <1>2

\* A step that changes the row as a verdict does, or an administrator.
LEMMA RowStepKeeps ==
  ASSUME VerInv, RowMoves, UNCHANGED <<accepts, rejected, reporter, reported>>,
         checker' \in [Checkers -> CheckRow], queued' \in BOOLEAN, rerun' \in BOOLEAN,
         \A c \in Checkers : checker'[c] \in {checker[c], NoCheck}
  PROVE  VerInv'
<1>1. VerTypes'
  BY DEF VerInv, VerTypes, RowMoves
<1>2. reported' <= pool'.mark
  BY PoolRows DEF VerInv, VerTypes, RowMoves
<1> QED
  BY <1>1, <1>2, RowKeeps

\* The watcher and the administrator.
LEMMA BesideKeepsChecks ==
  ASSUME VerInv, Watch \/ Revoke \/ Disable \/ DeleteRow \/ Replace
  PROVE  VerInv' /\ RowPromises
<1>t. /\ pool \in PoolRow /\ pool.mark \in Nat /\ reported <= pool.mark
      /\ queued \in BOOLEAN /\ rerun \in BOOLEAN /\ checker \in [Checkers -> CheckRow]
      /\ accepts \subseteq Generations
      /\ pool.result = "invalid" => pool.gen \in rejected
  BY PoolRows DEF VerInv, VerTypes, CondemnedWereRejected
<1>1. CASE Watch
  <2>1. /\ UNCHANGED <<pool, accepts, rejected, reporter, checker, rerun, reported>>
        /\ queued' = TRUE
    BY <1>1 DEF Watch
  <2>2. RowMoves /\ RowPromises
    BY <2>1, StillRow
  <2> QED
    BY <2>1, <2>2, <1>t, RowStepKeeps
<1>2. CASE Revoke
  <2>1. /\ UNCHANGED <<pool, rejected, reporter, checker, queued, rerun, reported>>
        /\ accepts' \subseteq Generations
    BY <1>2, <1>t DEF Revoke, Keep
  <2>2. RowMoves /\ RowPromises
    BY <2>1, StillRow
  <2>3. VerTypes'
    BY <2>1 DEF VerInv, VerTypes
  <2> QED
    BY <2>1, <2>2, <2>3, <1>t, RowKeeps
<1>3. CASE Disable
  <2>1. /\ UNCHANGED <<accepts, rejected, reporter, checker, queued, rerun, reported>>
        /\ pool' = [pool EXCEPT !.status = "disabled"]
    BY <1>3 DEF Disable, Keep
  <2>2. /\ pool' \in PoolRow /\ pool'.result = pool.result /\ pool'.gen = pool.gen
        /\ pool'.mark = pool.mark /\ pool'.scope = pool.scope /\ pool'.remove = pool.remove
        /\ pool'.status = "disabled"
    BY <2>1, <1>t DEF PoolRow
  <2>3. RowMoves /\ RowPromises
    BY <2>1, <2>2, <1>t DEF RowMoves, RowPromises, Pending
  <2> QED
    BY <2>1, <2>3, <1>t, RowStepKeeps
<1>4. CASE DeleteRow
  <2>1. /\ UNCHANGED <<accepts, rejected, reporter, checker, queued, rerun, reported>>
        /\ pool' = [pool EXCEPT !.present = FALSE]
    BY <1>4 DEF DeleteRow, Keep
  <2>2. /\ pool' \in PoolRow /\ pool'.result = pool.result /\ pool'.gen = pool.gen
        /\ pool'.mark = pool.mark /\ pool'.status = pool.status /\ ~pool'.present
    BY <2>1, <1>t DEF PoolRow
  <2>3. RowMoves /\ RowPromises
    BY <2>1, <2>2, <1>t DEF RowMoves, RowPromises, Pending
  <2> QED
    BY <2>1, <2>3, <1>t, RowStepKeeps
<1>5. CASE Replace
  <2>1. /\ UNCHANGED <<rejected, reporter, checker, queued, rerun, reported>>
        /\ pool.present
    BY <1>5 DEF Replace, Keep
  <2>2. PICK works \in BOOLEAN : Exchanged(works)
    BY <1>5 DEF Replace
  <2>3. RowMoves /\ RowPromises /\ accepts' \subseteq Generations
    BY <2>1, <2>2, ExchangeMoves
  <2>4. VerTypes'
    BY <2>1, <2>3 DEF VerInv, VerTypes, RowMoves
  <2>5. reported' <= pool'.mark
    BY <2>1, <2>3, <1>t, PoolRows DEF RowMoves, VerInv, VerTypes
  <2> QED
    BY <2>1, <2>3, <2>4, <2>5, <1>t, RowKeeps
<1> QED
  BY <1>1, <1>2, <1>3, <1>4, <1>5

\* A check begins, or its thread does not start.
LEMMA StartKeeps ==
  ASSUME VerInv, StartBackground \/ StartManual \/ Look
  PROVE  VerInv' /\ RowPromises
<1>t. /\ pool \in PoolRow /\ pool.mark \in Nat /\ reported <= pool.mark
      /\ queued \in BOOLEAN /\ rerun \in BOOLEAN /\ checker \in [Checkers -> CheckRow]
      /\ accepts \subseteq Generations /\ rejected \subseteq Generations
      /\ pool.result = "invalid" => pool.gen \in rejected
      /\ "background" \in Checkers /\ "manual" \in Checkers
  BY PoolRows DEF VerInv, VerTypes, CondemnedWereRejected, Checkers
<1>1. CASE StartBackground
  <2>1. /\ UNCHANGED <<accepts, rejected, rerun, reporter, reported>>
        /\ queued = TRUE /\ queued' = FALSE
    BY <1>1, <1>t DEF StartBackground, Keep
  <2>2. CASE checker' = [checker EXCEPT !["background"] = [NoCheck EXCEPT !.at = "look"]]
             /\ UNCHANGED pool
    <3>1. PICK z : z = [NoCheck EXCEPT !.at = "look"]
      OBVIOUS
    <3>2. z \in CheckRow /\ z.at = "look"
      BY <3>1, CheckRows DEF CheckSteps
    <3>3. RowMoves /\ RowPromises /\ Grounded(z, rejected')
      BY <2>1, <2>2, <3>2, StillRow DEF Grounded
    <3> QED
      BY <1>t, <2>1, <2>2, <3>1, <3>2, <3>3, CheckKeeps
  <2>3. CASE pool' = (IF pool.present THEN WriteError(pool) ELSE pool) /\ UNCHANGED checker
    <3>1. RowMoves /\ RowPromises
      BY <1>t, <2>1, <2>3, Verdicts DEF RowMoves, RowPromises, Pending
    <3> QED
      BY <1>t, <2>1, <2>3, <3>1, RowStepKeeps
  <2> QED
    BY <1>1, <2>2, <2>3 DEF StartBackground
<1>2. CASE StartManual
  <2>1. /\ UNCHANGED <<pool, accepts, rejected, queued, rerun, reporter, reported>>
        /\ checker' = [checker EXCEPT !["manual"] = [NoCheck EXCEPT !.at = "preflight"]]
    BY <1>2 DEF StartManual
  <2>2. PICK z : z = [NoCheck EXCEPT !.at = "preflight"]
    OBVIOUS
  <2>3. z \in CheckRow /\ z.at = "preflight"
    BY <2>2, CheckRows DEF CheckSteps
  <2>4. RowMoves /\ RowPromises /\ Grounded(z, rejected')
    BY <2>1, <2>3, StillRow DEF Grounded
  <2> QED
    BY <1>t, <2>1, <2>2, <2>3, <2>4, CheckKeeps
<1>3. CASE Look
  <2>1. /\ UNCHANGED <<pool, accepts, rejected, queued, rerun, reporter, reported>>
    BY <1>3 DEF Look, Keep
  <2>2. PICK b \in CheckRow : b = checker["background"]
    BY <1>t
  <2>3. PICK p, s : /\ p = IF Pending /\ pool.scope = "image" THEN "image" ELSE "account"
                    /\ s = IF Pending /\ pool.scope = "image" THEN "snapshot" ELSE "preflight"
    OBVIOUS
  <2>4. PICK z : z = [b EXCEPT !.path = p, !.at = s]
    OBVIOUS
  <2>5. z \in CheckRow /\ z.at = s /\ s \in {"snapshot", "preflight"}
    BY <2>3, <2>4 DEF CheckRow, CheckSteps
  <2>6. checker' = [checker EXCEPT !["background"] = z]
    BY <1>3, <1>t, <2>2, <2>3, <2>4 DEF Look
  <2>7. RowMoves /\ RowPromises /\ Grounded(z, rejected')
    BY <2>1, <2>5, StillRow DEF Grounded
  <2> QED
    BY <1>t, <2>1, <2>5, <2>6, <2>7, CheckKeeps
<1> QED
  BY <1>1, <1>2, <1>3

\* A check is over.
LEMMA RestKeeps ==
  ASSUME VerInv, NEW c \in Checkers, Rest(c), UNCHANGED <<pool, accepts, rejected, reporter, reported>>
  PROVE  VerInv' /\ RowPromises
<1>1. RowMoves /\ RowPromises /\ Grounded(NoCheck, rejected')
  BY StillRow, CheckRows DEF Grounded
<1>2. queued' \in BOOLEAN /\ rerun' \in BOOLEAN
  BY DEF Rest, VerInv, VerTypes
<1>3. /\ checker' = [checker EXCEPT ![c] = NoCheck] /\ accepts' \subseteq Generations
      /\ rejected' \subseteq Generations
  BY DEF Rest, VerInv, VerTypes
<1> QED
  BY <1>1, <1>2, <1>3, CheckRows, CheckKeeps

\* A check goes to another step, perhaps after it exchanged the credentials.
LEMMA MoveKeeps ==
  ASSUME VerInv, NEW c \in Checkers, NEW z \in CheckRow, checker' = [checker EXCEPT ![c] = z],
         rejected \subseteq rejected', rejected' \subseteq Generations, Grounded(z, rejected'),
         UNCHANGED <<queued, rerun, reporter, reported>>,
         \/ UNCHANGED <<pool, accepts>>
         \/ pool.present /\ \E works \in BOOLEAN : Exchanged(works)
  PROVE  VerInv' /\ RowPromises
<1>1. RowMoves /\ RowPromises /\ accepts' \subseteq Generations
  <2>1. CASE UNCHANGED <<pool, accepts>>
    BY <2>1, StillRow DEF VerInv, VerTypes
  <2>2. CASE pool.present /\ \E works \in BOOLEAN : Exchanged(works)
    BY <2>2, ExchangeMoves
  <2> QED
    BY <2>1, <2>2
<1>2. queued' \in BOOLEAN /\ rerun' \in BOOLEAN
  BY DEF VerInv, VerTypes
<1> QED
  BY <1>1, <1>2, CheckKeeps

\* What a check holds.
LEMMA ACheck ==
  ASSUME VerInv, NEW c \in Checkers
  PROVE  /\ checker[c] \in CheckRow /\ Grounded(checker[c], rejected)
         /\ checker[c].gen \in Generations /\ checker[c].mark \in Nat
         /\ pool \in PoolRow /\ pool.gen \in Generations /\ pool.mark \in Nat
         /\ rejected \subseteq Generations
BY PoolRows, CheckRows DEF VerInv, VerTypes

\* A check makes sure of its credentials and takes its snapshot.
LEMMA BeginningKeeps ==
  ASSUME VerInv, NEW c \in Checkers, Preflight(c) \/ Snapshot(c)
  PROVE  VerInv' /\ RowPromises
<1> PICK k \in CheckRow : k = checker[c]
  BY ACheck
<1>t. rejected \subseteq Generations /\ pool.gen \in Generations /\ pool.mark \in Nat
  BY ACheck
<1>1. CASE Preflight(c)
  <2>1. UNCHANGED <<rejected, reporter, reported>>
    BY <1>1 DEF Preflight, Keep
  <2>2. CASE Rest(c) /\ UNCHANGED <<pool, accepts>>
    BY <2>1, <2>2, RestKeeps
  <2>3. CASE /\ Move(c, "snapshot") /\ UNCHANGED <<queued, rerun>>
             /\ \/ UNCHANGED <<pool, accepts>>
                \/ pool.present /\ \E works \in BOOLEAN : Exchanged(works)
    <3>1. PICK z : z = [k EXCEPT !.at = "snapshot"]
      OBVIOUS
    <3>2. z \in CheckRow /\ z.at = "snapshot"
      BY <3>1, CheckRows DEF CheckSteps
    <3>3. checker' = [checker EXCEPT ![c] = z] /\ Grounded(z, rejected')
      BY <2>3, <3>1, <3>2 DEF Move, Grounded
    <3> QED
      BY <2>1, <2>3, <3>2, <3>3, <1>t, MoveKeeps
  <2> QED
    BY <1>1, <2>2, <2>3 DEF Preflight
<1>2. CASE Snapshot(c)
  <2>1. UNCHANGED <<pool, accepts, rejected, reporter, reported>>
    BY <1>2 DEF Snapshot, Keep
  <2>2. CASE Rest(c)
    BY <2>1, <2>2, RestKeeps
  <2>3. CASE /\ checker' = [checker EXCEPT ![c].at = "ask", ![c].gen = pool.gen,
                                          ![c].mark = pool.mark]
             /\ UNCHANGED <<queued, rerun>>
    <3>1. PICK z : z = [k EXCEPT !.at = "ask", !.gen = pool.gen, !.mark = pool.mark]
      OBVIOUS
    <3>2. z \in CheckRow /\ z.at = "ask"
      BY <3>1, <1>t DEF CheckRow, CheckSteps
    <3>3. checker' = [checker EXCEPT ![c] = z] /\ Grounded(z, rejected')
      BY <2>3, <3>1, <3>2, ACheck DEF Grounded, VerInv, VerTypes
    <3> QED
      BY <2>1, <2>3, <3>2, <3>3, <1>t, MoveKeeps
  <2> QED
    BY <1>2, <2>2, <2>3 DEF Snapshot
<1> QED
  BY <1>1, <1>2

\* A check settles on its verdict.
LEMMA DecideKeeps ==
  ASSUME VerInv, NEW c \in Checkers, NEW v \in {"ok", "error", "invalid"}, Decide(c, v),
         v = "invalid" => checker[c].gen \in rejected',
         rejected \subseteq rejected', rejected' \subseteq Generations,
         UNCHANGED <<pool, accepts, queued, rerun, reporter, reported>>
  PROVE  VerInv' /\ RowPromises
<1> PICK k \in CheckRow : k = checker[c]
  BY ACheck
<1>1. PICK z : z = [k EXCEPT !.at = "write", !.verdict = v]
  OBVIOUS
<1>2. z \in CheckRow /\ z.at = "write" /\ z.gen = k.gen /\ z.verdict = v
  BY <1>1 DEF CheckRow, CheckSteps, Results
<1>3. checker' = [checker EXCEPT ![c] = z]
  BY <1>1, ACheck DEF Decide, VerInv, VerTypes
<1>4. Grounded(z, rejected')
  BY <1>2 DEF Grounded
<1> QED
  BY <1>2, <1>3, <1>4, MoveKeeps

\* The upstream is asked about the credentials of the snapshot.
LEMMA AskKeepsChecks ==
  ASSUME VerInv, NEW c \in Checkers, Ask(c)
  PROVE  VerInv' /\ RowPromises
<1> PICK k \in CheckRow : k = checker[c]
  BY ACheck
<1>1. /\ UNCHANGED <<pool, accepts, queued, rerun, reporter, reported>>
      /\ rejected \subseteq rejected' /\ rejected' \subseteq Generations
      /\ rejected \subseteq Generations
  BY ACheck DEF Ask, Keep
<1>2. CASE Decide(c, "ok") \/ Decide(c, "error")
  <2>1. CASE Decide(c, "ok")
    BY <1>1, <2>1, DecideKeeps
  <2>2. CASE Decide(c, "error")
    BY <1>1, <2>2, DecideKeeps
  <2> QED
    BY <1>2, <2>1, <2>2
<1>3. CASE Decide(c, "invalid") /\ rejected' = rejected \cup {checker[c].gen}
  BY <1>1, <1>3, DecideKeeps
<1>4. CASE Move(c, "again") /\ rejected' = rejected \cup {checker[c].gen}
  <2>1. PICK z : z = [k EXCEPT !.at = "again"]
    OBVIOUS
  <2>2. z \in CheckRow /\ z.at = "again" /\ z.gen = k.gen
    BY <2>1, CheckRows DEF CheckSteps
  <2>3. checker' = [checker EXCEPT ![c] = z] /\ Grounded(z, rejected')
    BY <1>4, <2>1, <2>2 DEF Move, Grounded
  <2> QED
    BY <1>1, <2>2, <2>3, MoveKeeps
<1> QED
  BY <1>2, <1>3, <1>4 DEF Ask

\* A rejected check asks again with credentials that replaced its own.
LEMMA AgainKeeps ==
  ASSUME VerInv, NEW c \in Checkers, Again(c)
  PROVE  VerInv' /\ RowPromises
<1> PICK k \in CheckRow : k = checker[c]
  BY ACheck
<1>t. /\ pool.gen \in Generations /\ pool.mark \in Nat
      /\ checker[c].gen \in rejected /\ rejected \subseteq Generations
  BY ACheck DEF Again, At, Grounded
<1>1. UNCHANGED <<pool, accepts, queued, rerun, reporter, reported>>
  BY DEF Again, Keep
<1>2. CASE /\ checker' = [checker EXCEPT ![c].at = "write", ![c].verdict = "ok",
                               ![c].gen = pool.gen, ![c].mark = pool.mark]
           /\ UNCHANGED rejected
  <2>1. PICK z : z = [k EXCEPT !.at = "write", !.verdict = "ok", !.gen = pool.gen,
                               !.mark = pool.mark]
    OBVIOUS
  <2>2. z \in CheckRow /\ z.at = "write" /\ z.verdict = "ok"
    BY <2>1, <1>t DEF CheckRow, CheckSteps, Results
  <2>3. checker' = [checker EXCEPT ![c] = z] /\ Grounded(z, rejected')
    BY <1>2, <2>1, <2>2, ACheck DEF Grounded, VerInv, VerTypes
  <2> QED
    BY <1>1, <1>2, <1>t, <2>2, <2>3, MoveKeeps
<1>3. CASE /\ rejected' = rejected \cup {pool.gen}
           /\ checker' = [checker EXCEPT ![c].at = "exchange",
                               ![c].gen = pool.gen, ![c].mark = pool.mark]
  <2>1. PICK z : z = [k EXCEPT !.at = "exchange", !.gen = pool.gen, !.mark = pool.mark]
    OBVIOUS
  <2>2. z \in CheckRow /\ z.at = "exchange" /\ z.gen = pool.gen
    BY <2>1, <1>t DEF CheckRow, CheckSteps
  <2>3. checker' = [checker EXCEPT ![c] = z]
    BY <1>3, <2>1, ACheck DEF VerInv, VerTypes
  <2>5. Grounded(z, rejected')
    BY <1>3, <2>2 DEF Grounded
  <2>4. rejected \subseteq rejected' /\ rejected' \subseteq Generations
    BY <1>3, <1>t
  <2> QED
    BY <1>1, <2>2, <2>3, <2>4, <2>5, MoveKeeps
<1>4. CASE Move(c, "exchange") /\ UNCHANGED rejected
  <2>1. PICK z : z = [k EXCEPT !.at = "exchange"]
    OBVIOUS
  <2>2. z \in CheckRow /\ z.at = "exchange" /\ z.gen = k.gen
    BY <2>1, CheckRows DEF CheckSteps
  <2>3. checker' = [checker EXCEPT ![c] = z] /\ Grounded(z, rejected')
    BY <1>4, <1>t, <2>1, <2>2 DEF Move, Grounded
  <2> QED
    BY <1>1, <1>4, <1>t, <2>2, <2>3, MoveKeeps
<1> QED
  BY <1>2, <1>3, <1>4 DEF Again

\* A rejected check exchanges the refresh token, or finds the account changed.
LEMMA ExchangeKeepsChecks ==
  ASSUME VerInv, NEW c \in Checkers, CheckerExchange(c)
  PROVE  VerInv' /\ RowPromises
<1> PICK k \in CheckRow : k = checker[c]
  BY ACheck
<1>t. checker[c].gen \in rejected /\ rejected \subseteq Generations
  BY ACheck DEF CheckerExchange, At, Grounded
<1>1. UNCHANGED <<rejected, reporter, reported>>
  BY DEF CheckerExchange, Keep
<1>2. CASE /\ pool.present
           /\ \E works \in BOOLEAN : Exchanged(works)
           /\ checker' = [checker EXCEPT ![c].at = "snapshot", ![c].final = TRUE]
           /\ UNCHANGED <<queued, rerun>>
  <2>1. PICK z : z = [k EXCEPT !.at = "snapshot", !.final = TRUE]
    OBVIOUS
  <2>2. z \in CheckRow /\ z.at = "snapshot"
    BY <2>1 DEF CheckRow, CheckSteps
  <2>3. checker' = [checker EXCEPT ![c] = z] /\ Grounded(z, rejected')
    BY <1>2, <2>1, <2>2, ACheck DEF Grounded, VerInv, VerTypes
  <2> QED
    BY <1>1, <1>2, <1>t, <2>2, <2>3, MoveKeeps
<1>3. CASE /\ \E verdict \in {"invalid", "error"} : Decide(c, verdict)
           /\ UNCHANGED <<pool, accepts, queued, rerun>>
  BY <1>1, <1>3, <1>t, DecideKeeps
<1>4. CASE UNCHANGED <<pool, accepts>> /\ Rest(c)
  BY <1>1, <1>4, RestKeeps
<1> QED
  BY <1>2, <1>3, <1>4 DEF CheckerExchange

\* The verdict is written unless the row has changed: the report it clears is
\* not newer than the snapshot the check began with.
LEMMA WriteKeepsChecks ==
  ASSUME VerInv, NEW c \in Checkers, Write(c)
  PROVE  VerInv' /\ RowPromises
<1>t. /\ pool \in PoolRow /\ pool.mark \in Nat /\ reported <= pool.mark
      /\ checker \in [Checkers -> CheckRow] /\ checker[c] \in CheckRow
      /\ checker[c].mark \in Nat
      /\ checker[c].verdict \in {"ok", "error", "invalid"}
      /\ checker[c].verdict = "invalid" => checker[c].gen \in rejected
      /\ pool.result = "invalid" => pool.gen \in rejected
  BY ACheck DEF Write, At, Grounded, VerInv, VerTypes, CondemnedWereRejected
<1>1. /\ UNCHANGED <<accepts, rejected, reporter, reported>>
      /\ checker' = [checker EXCEPT ![c] = NoCheck] /\ At(c, "write")
      /\ queued' \in BOOLEAN /\ rerun' \in BOOLEAN
  BY DEF Write, Keep, VerInv, VerTypes
<1>2. RowMoves /\ RowPromises
  <2>1. CASE ~Unchanged(c)
    <3>1. pool' = pool
      BY <2>1 DEF Write
    <3> QED
      BY <1>1, <3>1, StillRow
  <2>2. CASE Unchanged(c)
    <3>1. /\ pool' = Verdict(pool, checker[c].verdict)
          /\ pool.gen = checker[c].gen /\ pool.mark = checker[c].mark
      BY <2>2 DEF Write, Unchanged
    <3>2. /\ pool' \in PoolRow /\ pool'.gen = pool.gen /\ pool'.mark >= pool.mark
          /\ pool'.result # "pending"
          /\ (pool.status = "disabled" => pool'.status = "disabled")
          /\ (pool'.result = "invalid" => pool.result = "invalid" \/ checker[c].verdict = "invalid")
      <4>1. CASE checker[c].verdict = "ok"
        BY <1>t, <3>1, <4>1, Verdicts DEF Verdict
      <4>2. CASE checker[c].verdict = "error"
        BY <1>t, <3>1, <4>2, Verdicts DEF Verdict
      <4>3. CASE checker[c].verdict = "invalid"
        BY <1>t, <3>1, <4>3, Verdicts DEF Verdict
      <4> QED
        BY <1>t, <4>1, <4>2, <4>3
    <3>3. RowMoves
      BY <1>t, <1>1, <3>1, <3>2 DEF RowMoves
    <3>4. RowPromises
      BY <1>t, <1>1, <3>1, <3>2 DEF RowPromises, Pending
    <3> QED
      BY <3>3, <3>4
  <2> QED
    BY <2>1, <2>2
<1>3. /\ checker' \in [Checkers -> CheckRow]
      /\ \A d \in Checkers : checker'[d] \in {checker[d], NoCheck}
  BY <1>1, <1>t, CheckRows
<1> QED
  BY <1>1, <1>2, <1>3, RowStepKeeps

\* A new process forgets its checks, and ends one of the whole account.
LEMMA RebootKeeps ==
  ASSUME VerInv, Reboot
  PROVE  VerInv' /\ RowPromises
<1>t. /\ pool \in PoolRow /\ pool.mark \in Nat /\ reported <= pool.mark
      /\ pool.result = "invalid" => pool.gen \in rejected
      /\ reboots' # reboots
  <2>1. reboots < MaxRestartsV /\ reboots' = reboots + 1
    BY DEF Reboot
  <2> QED
    BY <2>1, PoolRows, VerificationAssumption DEF VerInv, VerTypes, CondemnedWereRejected
<1>1. /\ UNCHANGED <<accepts, rejected, reported>>
      /\ pool' \in {pool, WriteError(pool)} /\ queued' = FALSE /\ rerun' = FALSE
      /\ checker' = [c \in Checkers |-> NoCheck] /\ reporter' = [r \in Reporters |-> Over]
      /\ pool.result = "pending" /\ pool.present /\ pool' # WriteError(pool) => pool.scope = "image"
  BY DEF Reboot, RecoveredAtLoad, Pending
<1>2. /\ RowMoves /\ RowPromises
  BY <1>t, <1>1, Verdicts DEF RowMoves, RowPromises, Pending
<1>3. VerTypes'
  <2>1. Over \in ReportRow
    BY VerificationAssumption DEF Over, ReportRow, Generations
  <2> QED
    BY <1>1, <1>2, <2>1, CheckRows DEF VerInv, VerTypes, RowMoves
<1>4. reported' <= pool'.mark
  BY <1>1, <1>2, <1>t, PoolRows DEF RowMoves, VerInv, VerTypes
<1> QED
  BY <1>1, <1>2, <1>3, <1>4, RowKeeps

\* The account has just been added.
LEMMA InitVerify == VerifyInit => VerInv
<1> SUFFICES ASSUME VerifyInit PROVE VerInv
  OBVIOUS
<1>1. pool \in PoolRow /\ pool.result = "none" /\ pool.mark = 0 /\ reported = 0
  BY VerificationAssumption DEF VerifyInit, PoolRow, Results, Generations
<1>2. [at |-> "idle", gen |-> 0] \in ReportRow
  BY VerificationAssumption DEF ReportRow, Generations
<1>3. VerTypes
  <2>1. 0 \in Generations
    BY VerificationAssumption DEF Generations
  <2>2. reporter \in [Reporters -> ReportRow] /\ checker \in [Checkers -> CheckRow]
    BY <1>2, CheckRows DEF VerifyInit
  <2>3. accepts \in SUBSET Generations /\ rejected \in SUBSET Generations
    BY <2>1 DEF VerifyInit
  <2>4. queued \in BOOLEAN /\ rerun \in BOOLEAN /\ reported \in Nat
    BY DEF VerifyInit
  <2> QED
    BY <1>1, <2>2, <2>3, <2>4 DEF VerTypes
<1>4. ASSUME NEW c \in Checkers PROVE Grounded(checker[c], rejected)
  BY CheckRows DEF VerifyInit, Grounded
<1> QED
  BY <1>1, <1>3, <1>4 DEF VerInv, CondemnedWereRejected

\* One step of a request, a check or the environment.
LEMMA VerifyStep ==
  ASSUME VerInv, [VerifyNext]_verifyVars
  PROVE  VerInv' /\ RowPromises
<1>1. ASSUME NEW r \in Reporters,
             StartUse(r) \/ EndUse(r) \/ ReportResult(r) \/ Schedule(r)
      PROVE  VerInv' /\ RowPromises
  BY <1>1, ReporterKeeps
<1>2. CASE Watch \/ Revoke \/ Disable \/ DeleteRow \/ Replace
  BY <1>2, BesideKeepsChecks
<1>3. CASE StartBackground \/ StartManual \/ Look
  BY <1>3, StartKeeps
<1>4. ASSUME NEW c \in Checkers, CheckStep(c) PROVE VerInv' /\ RowPromises
  BY <1>4, BeginningKeeps, AskKeepsChecks, AgainKeeps, ExchangeKeepsChecks, WriteKeepsChecks
     DEF CheckStep
<1>5. CASE Reboot
  BY <1>5, RebootKeeps
<1>6. CASE UNCHANGED verifyVars
  <2>1. RowMoves /\ RowPromises
    BY <1>6, StillRow DEF verifyVars
  <2> QED
    BY <1>6, <2>1, RowStepKeeps DEF verifyVars, VerInv, VerTypes
<1> QED
  BY <1>1, <1>2, <1>3, <1>4, <1>5, <1>6 DEF VerifyNext

\* Checks judge the credentials and the report they were made for: an invalid
\* account has credentials the upstream rejected, a report is cleared only by a
\* check that began after it, a pending account is blocked no less than before,
\* and no check enables what an administrator disabled.
THEOREM ChecksAreFair == VerifySpec => ChecksJudgeTheirReport
<1>1. VerInv => CondemnedWereRejected
  BY DEF VerInv
<1>2. VerInv /\ [VerifyNext]_verifyVars => VerInv'
  BY VerifyStep
<1>3. VerInv /\ [VerifyNext]_verifyVars =>
        [Pending /\ pool'.result # "pending" /\ pool.gen = pool'.gen =>
           \/ \E c \in Checkers : At(c, "write") /\ checker[c].mark >= reported
           \/ queued /\ ~queued'
           \/ reboots' # reboots]_verifyVars
  BY VerifyStep DEF RowPromises
<1>4. VerInv /\ [VerifyNext]_verifyVars =>
        [Pending /\ pool'.present /\ pool'.result = "pending" =>
           /\ (pool.scope = "account" => pool'.scope = "account")
           /\ (pool.remove => pool'.remove)]_verifyVars
  BY VerifyStep DEF RowPromises
<1>5. VerInv /\ [VerifyNext]_verifyVars =>
        [pool.status = "disabled" => pool'.status = "disabled"]_verifyVars
  BY VerifyStep DEF RowPromises
<1> QED
  BY <1>1, <1>2, <1>3, <1>4, <1>5, InitVerify, PTL
     DEF VerifySpec, ChecksJudgeTheirReport, ReportsOutliveOldChecks, PendingOnlyWidens, DisabledStays

-----------------------------------------------------------------------------
(* The accounts side together *)

\* A check and a restart are counted up to their bounds.
VerBounds == manuals \in 0..MaxManual /\ reboots \in 0..MaxRestartsV

\* What is counted while an account is checked stays within its bounds
\* (StartManual, Reboot).
LEMMA VerifyTypesAlways == VerifySpec => []VerifyTypeOK
<1>1. VerifyInit => VerBounds
  BY VerificationAssumption DEF VerifyInit, VerBounds
<1>2. VerBounds /\ [VerifyNext]_verifyVars => VerBounds'
  <2> SUFFICES ASSUME VerBounds, [VerifyNext]_verifyVars PROVE VerBounds'
    OBVIOUS
  <2>1. CASE StartManual
    BY <2>1, VerificationAssumption DEF StartManual, VerBounds
  <2>2. CASE Reboot
    BY <2>2, VerificationAssumption DEF Reboot, VerBounds
  <2>3. CASE UNCHANGED <<manuals, reboots>>
    BY <2>3 DEF VerBounds
  <2>4. ASSUME NEW r \in Reporters, StartUse(r) \/ EndUse(r) \/ ReportResult(r) \/ Schedule(r)
        PROVE  UNCHANGED <<manuals, reboots>>
    BY <2>4 DEF StartUse, EndUse, ReportResult, Schedule
  <2>5. ASSUME Watch \/ StartBackground \/ Look \/ Revoke \/ Disable \/ DeleteRow \/ Replace
        PROVE  UNCHANGED <<manuals, reboots>>
    BY <2>5 DEF Watch, StartBackground, Look, Revoke, Disable, DeleteRow, Replace, Keep
  <2>6. ASSUME NEW c \in Checkers, CheckStep(c) PROVE UNCHANGED <<manuals, reboots>>
    BY <2>6 DEF CheckStep, Preflight, Snapshot, Ask, Again, CheckerExchange, Write, Keep
  <2>7. ASSUME UNCHANGED verifyVars PROVE UNCHANGED <<manuals, reboots>>
    BY <2>7 DEF verifyVars
  <2> QED
    BY <2>1, <2>2, <2>3, <2>4, <2>5, <2>6, <2>7 DEF VerifyNext
<1>3. VerInv /\ VerBounds => VerifyTypeOK
  BY DEF VerInv, VerTypes, VerBounds, VerifyTypeOK, PoolRow, CheckRow, ReportRow
<1>4. VerInv /\ [VerifyNext]_verifyVars => VerInv'
  BY VerifyStep
<1> QED
  BY <1>1, <1>2, <1>3, <1>4, InitVerify, PTL DEF VerifySpec

\* The accounts a scan found, the entries and the imports, besides the rows of
\* OpTypes.
OpBounds ==
  /\ abnormal \subseteq poolIds /\ scanned \subseteq Accounts
  /\ \A o \in Operations : entry[o].processed <= entry[o].total
  /\ imports \in 0..MaxImports /\ entryLapses \in 0..MaxEntryLapses

\* An entry that is kept counts what is done of its operation.
LEMMA CountFits ==
  ASSUME NEW q \in OpRow, NEW e \in EntryRow, Counts(q, e),
         q.stage \in Running \cup {"done"}, e.state # "none"
  PROVE  e.processed <= e.total
<1>1. /\ Cardinality(q.todo) \in Nat /\ Cardinality(q.busy) \in Nat
  BY OpRows, Sizes
<1>2. e.processed + Cardinality(q.todo) + Cardinality(q.busy) = e.total
      /\ e.processed \in Nat /\ e.total \in Nat
  BY DEF Counts, EntryRow
<1> QED
  BY <1>1, <1>2

\* What a step makes of the entry of an operation: it is kept, finished,
\* dropped, or one that counts the work of an operation under way.
EntryGoes(o) ==
  \/ entry'[o] = entry[o]
  \/ \E how \in {"done", "error"} : entry'[o] = Finished(entry[o], how)
  \/ entry'[o] = NoEntry
  \/ op'[o].stage \in Running \cup {"done"} /\ entry'[o].state # "none"

\* However an entry goes on, it counts no more than it was opened for.
LEMMA EntriesFit ==
  ASSUME OpInv, OpInv', NEW o \in Operations, entry[o].processed <= entry[o].total, EntryGoes(o)
  PROVE  entry'[o].processed <= entry'[o].total
<1>1. PICK d : d = entry[o]
  OBVIOUS
<1>2. PICK e : e = entry'[o]
  OBVIOUS
<1>3. PICK q : q = op'[o]
  OBVIOUS
<1>4. d \in EntryRow /\ e \in EntryRow /\ q \in OpRow /\ Counts(q, e)
  BY <1>1, <1>2, <1>3 DEF OpInv, OpTypes, OpSound
<1>5. d.processed <= d.total
  BY <1>1
<1>6. CASE e = d
  BY <1>2, <1>5, <1>6
<1>7. ASSUME NEW how \in {"done", "error"}, e = Finished(d, how) PROVE e.processed <= e.total
  <2>1. e.total = d.total /\ e.processed = d.processed
    BY <1>4, <1>7, EntryChanges
  <2> QED
    BY <1>5, <2>1
<1>8. CASE e = NoEntry
  <2>1. e.total = 0 /\ e.processed = 0
    BY <1>8 DEF NoEntry
  <2> QED
    BY <1>2, <1>4, <2>1 DEF EntryRow
<1>9. CASE q.stage \in Running \cup {"done"} /\ e.state # "none"
  <2>1. q.stage \in Running \cup {"done"}
    BY <1>9
  <2>2. e.state # "none"
    BY <1>9
  <2>3. Counts(q, e)
    BY <1>4
  <2> QED
    BY <1>2, <1>4, <2>1, <2>2, <2>3, CountFits
<1> QED
  BY <1>1, <1>2, <1>3, <1>6, <1>7, <1>8, <1>9 DEF EntryGoes

\* An entry that counts again is open, or it is what it was.
LEMMA CountedGoes ==
  ASSUME OpInv, NEW o \in Operations, NEW n \in Nat,
         entry' = [entry EXCEPT ![o] = Counted(entry[o], n)],
         op'[o].stage \in Running \cup {"done"}
  PROVE  \A p \in Operations : EntryGoes(p)
<1>1. entry[o] \in EntryRow /\ entry \in [Operations -> EntryRow]
  BY DEF OpInv, OpTypes
<1>2. entry'[o] = Counted(entry[o], n) /\ \A p \in Operations \ {o} : entry'[p] = entry[p]
  BY <1>1
<1>3. CASE entry[o].state = "open"
  BY <1>1, <1>2, <1>3, CountedEntries DEF EntryGoes
<1>4. CASE entry[o].state # "open"
  BY <1>2, <1>4 DEF Counted, EntryGoes
<1> QED
  BY <1>3, <1>4

\* Requests and the stages of their operations.
LEMMA StagesGo ==
  ASSUME OpInv, NEW o \in Operations,
         \/ \E ids \in Selections :
              AskDeletion(o, ids) \/ AskUpdate(o, ids) \/ AskExchange(o, ids) \/ AskSync(o, ids)
         \/ TakeOperationSlot(o) \/ DeleteTargets(o) \/ MutationFails(o) \/ FinishMutation(o)
         \/ FinishRemote(o)
         \/ \E status \in {"normal", "abnormal", "removed"} : Update(o, status)
         \/ Lapse(o)
  PROVE  \A p \in Operations : EntryGoes(p)
<1>1. entry \in [Operations -> EntryRow] /\ op \in [Operations -> OpRow]
  BY DEF OpInv, OpTypes
<1>2. ASSUME NEW ids \in Selections, NEW k \in Mutations \cup Remote, AskFor(o, k, ids)
      PROVE  \A p \in Operations : EntryGoes(p)
  <2>1. entry'[o].state = "open" /\ \A p \in Operations \ {o} : entry'[p] = entry[p]
    BY <1>1, <1>2 DEF AskFor
  <2>2. op'[o].stage \in {"queued", "looking"}
    BY <1>1, <1>2 DEF AskFor, NoOperation
  <2> QED
    BY <2>1, <2>2 DEF EntryGoes, Running
<1>3. CASE TakeOperationSlot(o) \/ DeleteTargets(o)
           \/ \E status \in {"normal", "abnormal", "removed"} : Update(o, status)
  <2>1. entry' = entry
    BY <1>3 DEF TakeOperationSlot, DeleteTargets, Update
  <2> QED
    BY <2>1 DEF EntryGoes
<1>4. CASE MutationFails(o) \/ FinishMutation(o) \/ FinishRemote(o)
  <2>1. PICK how \in {"done", "error"} : entry' = [entry EXCEPT ![o] = Finished(entry[o], how)]
    BY <1>4 DEF MutationFails, FinishMutation, FinishRemote
  <2>2. entry'[o] = Finished(entry[o], how) /\ \A p \in Operations \ {o} : entry'[p] = entry[p]
    BY <1>1, <2>1
  <2> QED
    BY <2>2 DEF EntryGoes
<1>5. CASE Lapse(o)
  <2>1. entry'[o] = NoEntry /\ \A p \in Operations \ {o} : entry'[p] = entry[p]
    BY <1>1, <1>5 DEF Lapse
  <2> QED
    BY <2>1 DEF EntryGoes
<1> QED
  BY <1>2, <1>3, <1>4, <1>5 DEF AskDeletion, AskUpdate, AskExchange, AskSync, Mutations, Remote

\* The work of an operation on its accounts.
LEMMA WorkGoes ==
  ASSUME OpInv, NEW o \in Operations,
         \/ LookUp(o) \/ StartSync(o)
         \/ \E a \in Accounts :
              \/ Publish(o, a) \/ Request(o, a) \/ PassOver(o, a)
              \/ \E outcome \in {"updated", "skipped", "errors"} : TargetExchanged(o, a, outcome)
              \/ \E outcome \in {"updated", "errors"}, fate \in {"kept", "abnormal", "removed"} :
                   Synced(o, a, outcome, fate)
  PROVE  \A p \in Operations : EntryGoes(p)
<1>1. entry \in [Operations -> EntryRow] /\ op \in [Operations -> OpRow]
  BY DEF OpInv, OpTypes
<1>2. op[o].busy # {} => op[o].stage = "working"
  BY DEF OpInv, OpSound, WorkLeft
<1>3. Reopened(o) \in EntryRow /\ Reopened(o).state # "none"
  BY <1>1, OpRows, Sizes, OpenEntries DEF Reopened
<1>4. CASE LookUp(o)
  <2>1. PICK n \in Nat : n = Cardinality(op[o].targets \ poolIds)
    BY <1>1, OpRows, Sizes
  <2>2. entry'[o] = Counted(Reopened(o), n) /\ \A p \in Operations \ {o} : entry'[p] = entry[p]
    BY <1>1, <1>4, <2>1 DEF LookUp
  <2>3. op'[o].stage = "working"
    BY <1>1, <1>4 DEF LookUp, OpRow
  <2> QED
    BY <1>3, <2>1, <2>2, <2>3, CountedEntries DEF EntryGoes, Running
<1>5. CASE StartSync(o)
  <2>1. entry'[o] = Reopened(o) /\ \A p \in Operations \ {o} : entry'[p] = entry[p]
    BY <1>1, <1>5 DEF StartSync
  <2>2. op'[o].stage = "working"
    BY <1>1, <1>5 DEF StartSync, OpRow
  <2> QED
    BY <1>3, <2>1, <2>2 DEF EntryGoes, Running
<1>6. ASSUME NEW a \in Accounts, Publish(o, a) PROVE \A p \in Operations : EntryGoes(p)
  <2>1. op'[o].stage = "publishing"
    BY <1>1, <1>6 DEF Publish, OpRow
  <2>2. entry' = [entry EXCEPT ![o] = Counted(entry[o], 1)]
    BY <1>6 DEF Publish
  <2> QED
    BY <2>1, <2>2, CountedGoes DEF Running
<1>7. ASSUME NEW a \in Accounts, PassOver(o, a) PROVE \A p \in Operations : EntryGoes(p)
  <2>1. op'[o].stage = "working"
    BY <1>1, <1>7 DEF PassOver, OpRow
  <2>2. entry' = [entry EXCEPT ![o] = Counted(entry[o], 1)]
    BY <1>7 DEF PassOver
  <2> QED
    BY <2>1, <2>2, CountedGoes DEF Running
<1>8. ASSUME NEW a \in Accounts, NEW outcome \in {"updated", "skipped", "errors"},
             TargetExchanged(o, a, outcome)
      PROVE  \A p \in Operations : EntryGoes(p)
  <2>1. PICK q : q = op[o]
    OBVIOUS
  <2>2. q \in OpRow /\ q.stage = "working" /\ op' = [op EXCEPT ![o] =
          [[q EXCEPT !.busy = @ \ {a}] EXCEPT ![outcome] = @ \cup {a}]]
    BY <1>1, <1>2, <1>8, <2>1 DEF TargetExchanged
  <2>3. [[q EXCEPT !.busy = @ \ {a}] EXCEPT ![outcome] = @ \cup {a}].stage = q.stage
    BY <2>2 DEF OpRow
  <2>4. op'[o].stage = "working"
    BY <1>1, <2>2, <2>3
  <2>5. entry' = [entry EXCEPT ![o] = Counted(entry[o], 1)]
    BY <1>8 DEF TargetExchanged
  <2> QED
    BY <2>4, <2>5, CountedGoes DEF Running
<1>9. ASSUME NEW a \in Accounts, NEW outcome \in {"updated", "errors"},
             NEW fate \in {"kept", "abnormal", "removed"}, Synced(o, a, outcome, fate)
      PROVE  \A p \in Operations : EntryGoes(p)
  <2>1. PICK q : q = op[o]
    OBVIOUS
  <2>2. PICK E, U : op' = [op EXCEPT ![o] =
                             [q EXCEPT !.busy = @ \ {a}, !.errors = E, !.updated = U]]
    BY <1>9, <2>1 DEF Synced
  <2>3. q \in OpRow /\ q.stage = "working"
    BY <1>1, <1>2, <1>9, <2>1 DEF Synced
  <2>4. op'[o].stage = "working"
    BY <1>1, <2>2, <2>3 DEF OpRow
  <2>5. entry' = [entry EXCEPT ![o] = Counted(entry[o], 1)]
    BY <1>9 DEF Synced
  <2> QED
    BY <2>4, <2>5, CountedGoes DEF Running
<1>10. ASSUME NEW a \in Accounts, Request(o, a) PROVE \A p \in Operations : EntryGoes(p)
  <2>1. entry' = entry
    BY <1>10 DEF Request
  <2> QED
    BY <2>1 DEF EntryGoes
<1> QED
  BY <1>4, <1>5, <1>6, <1>7, <1>8, <1>9, <1>10

\* The rest of the bounds: what a step does to the pool, the scan and the counters.
LEMMA PoolFits ==
  ASSUME OpInv, OpBounds, [OperationsNext]_operationVars
  PROVE  /\ abnormal' \subseteq poolIds' /\ scanned' \subseteq Accounts
         /\ imports' \in 0..MaxImports /\ entryLapses' \in 0..MaxEntryLapses
<1>1. poolIds \subseteq Accounts /\ abnormal \subseteq poolIds /\ scanned \subseteq Accounts
      /\ imports \in 0..MaxImports /\ entryLapses \in 0..MaxEntryLapses
  BY DEF OpInv, OpTypes, OpBounds
<1>2. CASE UNCHANGED <<poolVars, scanned, imports, entryLapses>>
  BY <1>1, <1>2 DEF poolVars
<1>3. ASSUME NEW S, Removes(S), UNCHANGED <<imports, entryLapses>>, scanned' \in {scanned, {}}
      PROVE  /\ abnormal' \subseteq poolIds' /\ scanned' \subseteq Accounts
             /\ imports' \in 0..MaxImports /\ entryLapses' \in 0..MaxEntryLapses
  BY <1>1, <1>3 DEF Removes
<1>4. ASSUME NEW o \in Operations, Work(o)
      PROVE  /\ abnormal' \subseteq poolIds' /\ scanned' \subseteq Accounts
             /\ imports' \in 0..MaxImports /\ entryLapses' \in 0..MaxEntryLapses
  <2>1. CASE DeleteTargets(o)
    BY <1>3, <2>1 DEF DeleteTargets
  <2>2. ASSUME NEW status \in {"normal", "abnormal", "removed"}, Update(o, status)
        PROVE  /\ abnormal' \subseteq poolIds' /\ scanned' \subseteq Accounts
               /\ imports' \in 0..MaxImports /\ entryLapses' \in 0..MaxEntryLapses
    <3>1. PICK found : found = op[o].targets \cap poolIds
      OBVIOUS
    <3>2. PICK dropped : dropped = IF status = "removed" THEN found ELSE {}
      OBVIOUS
    <3>3. /\ poolIds' = poolIds \ dropped
          /\ abnormal' = IF status = "abnormal" THEN abnormal \cup found ELSE abnormal \ found
          /\ UNCHANGED <<scanned, imports, entryLapses>>
      BY <2>2, <3>1, <3>2 DEF Update
    <3>4. abnormal' \subseteq poolIds'
      BY <1>1, <3>1, <3>2, <3>3
    <3> QED
      BY <1>1, <3>3, <3>4
  <2>3. ASSUME NEW a \in Accounts, NEW outcome \in {"updated", "errors"},
               NEW fate \in {"kept", "abnormal", "removed"}, Synced(o, a, outcome, fate)
        PROVE  /\ abnormal' \subseteq poolIds' /\ scanned' \subseteq Accounts
               /\ imports' \in 0..MaxImports /\ entryLapses' \in 0..MaxEntryLapses
    <3>1. CASE fate = "removed"
      BY <1>3, <2>3, <3>1 DEF Synced
    <3>2. CASE fate # "removed"
      BY <1>1, <2>3, <3>2 DEF Synced
    <3> QED
      BY <3>1, <3>2
  <2>4. ASSUME TakeOperationSlot(o) \/ MutationFails(o) \/ FinishMutation(o)
               \/ LookUp(o) \/ StartSync(o) \/ FinishRemote(o)
        PROVE  UNCHANGED <<poolVars, scanned, imports, entryLapses>>
    BY <2>4 DEF TakeOperationSlot, MutationFails, FinishMutation, LookUp, StartSync, FinishRemote
  <2>5. ASSUME NEW a \in Accounts,
               \/ Publish(o, a) \/ Request(o, a) \/ PassOver(o, a)
               \/ \E outcome \in {"updated", "skipped", "errors"} : TargetExchanged(o, a, outcome)
        PROVE  UNCHANGED <<poolVars, scanned, imports, entryLapses>>
    BY <2>5 DEF Publish, Request, PassOver, TargetExchanged
  <2> QED
    BY <1>2, <1>4, <2>1, <2>2, <2>3, <2>4, <2>5 DEF Work
<1>5. ASSUME NEW o \in Operations, NEW ids \in Selections,
             AskDeletion(o, ids) \/ AskUpdate(o, ids) \/ AskExchange(o, ids) \/ AskSync(o, ids)
      PROVE  UNCHANGED <<poolVars, scanned, imports, entryLapses>>
  BY <1>5 DEF AskDeletion, AskUpdate, AskExchange, AskSync, AskFor
<1>6. ASSUME NEW o \in Operations, Lapse(o)
      PROVE  /\ abnormal' \subseteq poolIds' /\ scanned' \subseteq Accounts
             /\ imports' \in 0..MaxImports /\ entryLapses' \in 0..MaxEntryLapses
  BY <1>1, <1>6, OperationsAssumption DEF Lapse, poolVars
<1>7. ASSUME NEW a \in Accounts, Import(a)
      PROVE  /\ abnormal' \subseteq poolIds' /\ scanned' \subseteq Accounts
             /\ imports' \in 0..MaxImports /\ entryLapses' \in 0..MaxEntryLapses
  BY <1>1, <1>7, OperationsAssumption DEF Import, Added
<1>8. ASSUME Scan
      PROVE  /\ abnormal' \subseteq poolIds' /\ scanned' \subseteq Accounts
             /\ imports' \in 0..MaxImports /\ entryLapses' \in 0..MaxEntryLapses
  BY <1>1, <1>8 DEF Scan, poolVars
<1>9. ASSUME Sweep
      PROVE  /\ abnormal' \subseteq poolIds' /\ scanned' \subseteq Accounts
             /\ imports' \in 0..MaxImports /\ entryLapses' \in 0..MaxEntryLapses
  BY <1>3, <1>9 DEF Sweep
<1>10. ASSUME UNCHANGED operationVars PROVE UNCHANGED <<poolVars, scanned, imports, entryLapses>>
  BY <1>10 DEF operationVars, poolVars
<1> QED
  BY <1>2, <1>4, <1>5, <1>6, <1>7, <1>8, <1>9, <1>10 DEF OperationsNext

\* The pool, the scan and the entries keep their types (AccountOperations).
LEMMA OperationsTypesAlways == OperationsSpec => []OperationsTypeOK
<1>1. OperationsInit => OpBounds
  BY OperationsAssumption DEF OperationsInit, OpBounds, NoEntry
<1>2. ASSUME OpInv, OpInv', OpBounds, [OperationsNext]_operationVars PROVE OpBounds'
  <2>1. \A o \in Operations : EntryGoes(o)
    <3>1. CASE UNCHANGED entry
      BY <3>1 DEF EntryGoes
    <3>2. ASSUME UNCHANGED operationVars \/ Scan \/ Sweep \/ \E a \in Accounts : Import(a)
          PROVE  UNCHANGED entry
      BY <3>2 DEF operationVars, Scan, Sweep, Import
    <3>3. ASSUME NEW o \in Operations, Work(o) PROVE \A p \in Operations : EntryGoes(p)
      BY <1>2, <3>3, StagesGo, WorkGoes DEF Work
    <3>4. ASSUME NEW o \in Operations,
                 \/ \E ids \in Selections :
                      \/ AskDeletion(o, ids) \/ AskUpdate(o, ids)
                      \/ AskExchange(o, ids) \/ AskSync(o, ids)
                 \/ Lapse(o)
          PROVE  \A p \in Operations : EntryGoes(p)
      BY <1>2, <3>4, StagesGo
    <3> QED
      BY <1>2, <3>1, <3>2, <3>3, <3>4 DEF OperationsNext
  <2>2. \A o \in Operations : entry'[o].processed <= entry'[o].total
    BY <1>2, <2>1, EntriesFit DEF OpBounds
  <2> QED
    BY <1>2, <2>2, PoolFits DEF OpBounds
<1>3. OpInv /\ OpBounds => OperationsTypeOK
  BY DEF OpInv, OpTypes, OpBounds, OpRow, EntryRow, Stages, OperationsTypeOK
<1> QED
  BY <1>1, <1>2, <1>3, InitOps, OperationStepKeeps, PTL DEF OperationsSpec

\* The file of pending results, the pool and the histories, besides RegTypes.
TriedRow == [token : Nat, tries : 0..MaxRetries]
RegBounds ==
  /\ row \in [Boxes -> TriedRow]
  /\ outlookPool \subseteq Boxes \X Nat
  /\ begun \in 0..MaxBegun /\ reset \in BOOLEAN
  /\ excused \subseteq Boxes /\ unrecorded \subseteq Boxes

\* What a row of the file can become.
LEMMA TriedRows ==
  /\ NoRow \in TriedRow
  /\ \A k \in Nat : [token |-> k, tries |-> 0] \in TriedRow
  /\ \A r \in TriedRow, n \in 0..MaxRetries : [r EXCEPT !.tries = n] \in TriedRow
  /\ 0 \in 0..MaxRetries
BY RegistrationAssumption DEF TriedRow, NoRow

\* The file after a row was removed, or was not.
LEMMA FileFits ==
  ASSUME row \in [Boxes -> TriedRow], NEW m \in Boxes, NEW k,
         row' \in {row, Without(m, k)}
  PROVE  row' \in [Boxes -> TriedRow]
BY TriedRows DEF Without

\* A report of a failure excuses no mailbox but one there is.
LEMMA ReportFits ==
  ASSUME excused \subseteq Boxes, NEW m, NEW seen, ReportFailure(m, seen)
  PROVE  excused' \subseteq Boxes
BY DEF ReportFailure, ReportFails

\* The steps of a registration keep the bounds.
LEMMA RegistrationFits ==
  ASSUME RegInv, RegBounds, NEW t \in Tasks,
         \/ BeginRegistration(t) \/ ClaimPoolMailbox(t) \/ ClaimRemoteMailbox(t) \/ NoMailbox(t)
         \/ RegistrationFails(t) \/ Authorize(t) \/ ReceiveCode(t) \/ PasswordlessLogin(t)
         \/ CreateAccount(t) \/ ExchangeTokens(t) \/ ExchangeAfterLogin(t)
         \/ RecordPending(t) \/ MarkSuccess(t)
         \/ VerifyAccount(t) \/ AddAccount(t) \/ ForgetPending(t)
  PROVE  RegBounds'
<1>1. task[t].box \in Boxes /\ task[t].token \in Nat
  BY TaskRows DEF RegInv, RegTypes
<1>2. CASE BeginRegistration(t)
  BY <1>2, RegistrationAssumption DEF BeginRegistration, RegBounds, mailVars, rowVars
<1>3. CASE ClaimPoolMailbox(t) \/ ClaimRemoteMailbox(t)
  BY <1>3 DEF ClaimPoolMailbox, ClaimRemoteMailbox, Claimed, RegBounds, rowVars, runVars
<1>4. CASE \/ NoMailbox(t) \/ Authorize(t) \/ ReceiveCode(t) \/ PasswordlessLogin(t)
           \/ CreateAccount(t)
  BY <1>4 DEF NoMailbox, Authorize, ReceiveCode, PasswordlessLogin, CreateAccount,
              RegBounds, mailVars, rowVars, runVars
<1>5. CASE RegistrationFails(t)
  BY <1>5, ReportFits DEF RegistrationFails, RegBounds, rowVars, runVars
<1>6. CASE ExchangeTokens(t) \/ ExchangeAfterLogin(t)
  BY <1>6 DEF ExchangeTokens, ExchangeAfterLogin, Minted, RegBounds, mailVars, runVars
<1>7. CASE RecordPending(t)
  <2>1. row' \in [Boxes -> TriedRow]
    BY <1>1, <1>7, TriedRows DEF RecordPending, RegBounds
  <2>2. unrecorded' \subseteq Boxes
    BY <1>1, <1>7 DEF RecordPending, RegBounds
  <2> QED
    BY <1>7, <2>1, <2>2 DEF RecordPending, RegBounds, mailVars, runVars
<1>8. CASE MarkSuccess(t)
  <2>1. excused' \subseteq Boxes
    BY <1>8, ReportFits DEF MarkSuccess, RegBounds
  <2> QED
    BY <1>8, <2>1 DEF MarkSuccess, RegBounds, rowVars, runVars
<1>9. CASE VerifyAccount(t)
  BY <1>9 DEF VerifyAccount, RegBounds, mailVars, runVars
<1>10. CASE AddAccount(t)
  <2>1. outlookPool' \subseteq Boxes \X Nat
    BY <1>1, <1>10 DEF AddAccount, RegBounds
  <2> QED
    BY <1>10, <2>1 DEF AddAccount, RegBounds, mailVars, runVars
<1>11. CASE ForgetPending(t)
  <2>1. row' \in [Boxes -> TriedRow]
    BY <1>1, <1>11, FileFits DEF ForgetPending, RegBounds
  <2> QED
    BY <1>11, <2>1 DEF ForgetPending, RegBounds, mailVars, runVars
<1> QED
  BY <1>2, <1>3, <1>4, <1>5, <1>6, <1>7, <1>8, <1>9, <1>10, <1>11

\* So do the scheduler, the process and the administrator.
LEMMA BesideFits ==
  ASSUME RegInv, RegBounds,
         \/ ReconcileBegins \/ ReconcileRow \/ ReconcileEnds \/ ProcessCrashes
         \/ ResetLooks \/ ResetClears \/ ImportCredentials
  PROVE  RegBounds'
<1>1. CASE ReconcileBegins \/ ReconcileEnds
  BY <1>1 DEF ReconcileBegins, ReconcileEnds, RegBounds, mailVars, runVars
<1>2. CASE ReconcileRow
  <2>1. PICK r \in reconciler.rows :
          /\ \/ outlookPool' = outlookPool \cup {<<r[1], r[2]>>} /\ row' \in {row, Without(r[1], r[2])}
             \/ /\ UNCHANGED outlookPool
                /\ row' = IF row[r[1]].token # r[2] THEN row
                          ELSE [row EXCEPT ![r[1]].tries =
                                  IF r[3] < MaxRetries THEN r[3] + 1 ELSE MaxRetries]
          /\ UNCHANGED <<task, mailVars, minted, unrecorded, runVars>>
    BY <1>2 DEF ReconcileRow
  <2>2. r[1] \in Boxes /\ r[2] \in Nat /\ r[3] \in Nat
    BY <2>1 DEF RegInv, RegTypes
  <2>3. outlookPool' \subseteq Boxes \X Nat
    BY <2>1, <2>2 DEF RegBounds
  <2>4. row \in [Boxes -> TriedRow]
    BY DEF RegBounds
  <2>5. row' \in [Boxes -> TriedRow]
    <3>1. PICK n : n = IF r[3] < MaxRetries THEN r[3] + 1 ELSE MaxRetries
      OBVIOUS
    <3>2. n \in 0..MaxRetries
      BY <2>2, <3>1, RegistrationAssumption
    <3>3. [row[r[1]] EXCEPT !.tries = n] \in TriedRow
      BY <2>2, <2>4, <3>2, TriedRows
    <3>4. CASE row' = [row EXCEPT ![r[1]].tries = n]
      BY <2>2, <2>4, <3>3, <3>4
    <3>5. CASE row' \in {row, Without(r[1], r[2])}
      BY <2>2, <2>4, <3>5, FileFits
    <3> QED
      BY <2>1, <3>1, <3>4, <3>5
  <2> QED
    BY <2>1, <2>3, <2>5 DEF RegBounds, mailVars, runVars
<1>3. CASE ProcessCrashes
  <2>1. excused' \subseteq Boxes
    BY <1>3 DEF ProcessCrashes, RegBounds
  <2>2. \A t \in Tasks : task[t].box \in Boxes
    BY TaskRows DEF RegInv, RegTypes
  <2>3. unrecorded' \subseteq Boxes
    BY <1>3, <2>2 DEF ProcessCrashes, RegBounds
  <2> QED
    BY <1>3, <2>1, <2>3 DEF ProcessCrashes, RegBounds
<1>4. CASE ResetLooks
  BY <1>4 DEF ResetLooks, RegBounds, mailVars, rowVars
<1>5. CASE ResetClears
  <2>1. excused' \subseteq Boxes
    BY <1>5 DEF ResetClears, RegBounds
  <2> QED
    BY <1>5, <2>1 DEF ResetClears, RegBounds, rowVars
<1>6. CASE ImportCredentials
  BY <1>6 DEF ImportCredentials, RegBounds, rowVars, runVars
<1> QED
  BY <1>1, <1>2, <1>3, <1>4, <1>5, <1>6

\* Mailboxes, registrations and the file of pending results keep their types
\* (AccountRegistration).
LEMMA RegistrationTypesAlways == RegistrationSpec => []RegistrationTypeOK
<1>1. RegistrationInit => RegBounds
  <2> SUFFICES ASSUME RegistrationInit PROVE RegBounds
    OBVIOUS
  <2>1. row \in [Boxes -> TriedRow]
    BY TriedRows DEF RegistrationInit
  <2>2. begun \in 0..MaxBegun
    BY RegistrationAssumption DEF RegistrationInit
  <2>3. outlookPool = {} /\ excused = {} /\ unrecorded = {} /\ reset \in BOOLEAN
    BY DEF RegistrationInit
  <2> QED
    BY <2>1, <2>2, <2>3 DEF RegBounds
<1>2. RegInv /\ RegBounds /\ [RegistrationNext]_registrationVars => RegBounds'
  <2> SUFFICES ASSUME RegInv, RegBounds, [RegistrationNext]_registrationVars PROVE RegBounds'
    OBVIOUS
  <2>1. CASE UNCHANGED registrationVars
    BY <2>1 DEF registrationVars, mailVars, rowVars, runVars, RegBounds
  <2> QED
    BY <2>1, RegistrationFits, BesideFits DEF RegistrationNext
<1>3. RegInv /\ RegBounds => RegistrationTypeOK
  BY DEF RegInv, RegTypes, RegBounds, TriedRow, TaskRow, MailStates, RegistrationTypeOK
<1> QED
  BY <1>1, <1>2, <1>3, InitRegistration, RegistrationStepKeeps, PTL DEF RegistrationSpec

\* A step of the accounts side is a step of each component, or leaves it alone.
LEMMA AccountPartsStep ==
  ASSUME [PartsNext]_partVars
  PROVE  /\ [CredNext]_credVars /\ [VerifyNext]_verifyVars
         /\ [OperationsNext]_operationVars /\ [RegistrationNext]_registrationVars
         /\ [RunnerNext]_runnerVars /\ [CodesNext]_codeVars
         /\ [ProxyNext]_proxyVars /\ [KeysNext]_keyVars
<1>1. CASE UNCHANGED partVars
  BY <1>1 DEF partVars
<1>2. CASE (Only("flight") \/ Only("rotation")) /\ CredNext  BY <1>2 DEF Only
<1>3. CASE (Only("verification") \/ Only("recheck")) /\ VerifyNext  BY <1>3 DEF Only
<1>4. CASE (Only("operations") \/ Only("imports")) /\ OperationsNext  BY <1>4 DEF Only
<1>5. CASE (Only("registration") \/ Only("reset")) /\ RegistrationNext  BY <1>5 DEF Only
<1>6. CASE Only("runner") /\ RunnerNext  BY <1>6 DEF Only
<1>7. CASE Only("codes") /\ CodesNext  BY <1>7 DEF Only
<1>8. CASE Only("proxies") /\ ProxyNext  BY <1>8 DEF Only
<1>9. CASE Only("keys") /\ KeysNext  BY <1>9 DEF Only
<1> QED
  BY <1>1, <1>2, <1>3, <1>4, <1>5, <1>6, <1>7, <1>8, <1>9 DEF PartsNext

\* A behavior of the accounts side is a behavior of each component.
LEMMA AccountPartsAreBehaviors ==
  PartsSpec => /\ CredSpec /\ VerifySpec /\ OperationsSpec /\ RegistrationSpec
               /\ RunnerSpec /\ CodesSpec /\ ProxySpec /\ KeysSpec
<1>1. PartsInit => /\ CredInit /\ VerifyInit /\ OperationsInit /\ RegistrationInit
                   /\ RunnerInit /\ CodesInit /\ ProxyInit /\ KeysInit
  BY DEF PartsInit
<1>2. [PartsNext]_partVars =>
        /\ [CredNext]_credVars /\ [VerifyNext]_verifyVars
        /\ [OperationsNext]_operationVars /\ [RegistrationNext]_registrationVars
        /\ [RunnerNext]_runnerVars /\ [CodesNext]_codeVars
        /\ [ProxyNext]_proxyVars /\ [KeysNext]_keyVars
  BY AccountPartsStep
<1> QED
  BY <1>1, <1>2, PTL
  DEF PartsSpec, CredSpec, VerifySpec, OperationsSpec, RegistrationSpec, RunnerSpec, CodesSpec,
      ProxySpec, KeysSpec

\* Every component keeps its types, whichever of them is at work.
THEOREM AccountsTypeCorrect == PartsSpec => []AccountsTypeOK
<1>1. CodesSpec => []CodesTypeOK
  <2>1. CodesInv => CodesTypeOK
    BY DEF CodesInv, InboxInv, AttemptRow, CodesTypeOK
  <2> QED
    BY <2>1, InitCodes, StepKeepsCodes, PTL DEF CodesSpec
<1>2. ProxySpec => []ProxyTypeOK
  <2>1. RoutesInv => ProxyTypeOK
    <3>1. ASSUME RoutesInv, NEW r \in Requests
          PROVE  attempts[r].at \in {"idle", "waiting", "building", "streaming", "ended"}
      BY <3>1 DEF RoutesInv, RoutesTypeOK, RequestRow
    <3> QED
      BY <3>1 DEF RoutesInv, RoutesTypeOK, ProxyTypeOK
  <2> QED
    BY <2>1, InitRoutes, StepKeepsRoutes, PTL DEF ProxySpec
<1>3. RunsInv => RunnerTypeOK
  BY DEF RunsInv, RunTypes, Leases, RunnerTypeOK
<1>4. KeysInv => KeysTypeOK
  BY DEF KeysInv
<1>5. CredInv => CredTypeOK
  BY DEF CredInv, CredTypes
<1>6. CredTypeOK /\ VerifyTypeOK /\ OperationsTypeOK /\ RegistrationTypeOK
      /\ RunnerTypeOK /\ CodesTypeOK /\ ProxyTypeOK /\ KeysTypeOK => AccountsTypeOK
  BY DEF AccountsTypeOK
<1> QED
  BY <1>1, <1>2, <1>3, <1>4, <1>5, <1>6, AccountPartsAreBehaviors, CredAlways,
     VerifyTypesAlways, OperationsTypesAlways, RegistrationTypesAlways, RunsAlways,
     KeysInvariance, PTL

\* Checked side by side, the components keep what each promises alone: reports,
\* registrations, runs, codes, routes and keys, the credentials of an account
\* and the checks of one.
THEOREM AccountsSafe ==
  PartsSpec => /\ [](/\ OperationsReport /\ RegistrationHolds /\ LostRunsStop
                     /\ CodesAreOwn /\ ProxyRoutesHold /\ KeysHold)
               /\ CredentialsAreKept /\ ChecksJudgeTheirReport
BY AccountPartsAreBehaviors, ReportsAreTrue, RegistrationsHold, LostRunsEnd, CodesAreTheirOwn,
   RoutesHold, KeysAlwaysHold, CredentialsKept, ChecksAreFair, PTL
=============================================================================
