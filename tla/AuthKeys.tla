----------------------------- MODULE AuthKeys -----------------------------
(***************************************************************************)
(* The user keys of the API (services/auth_service.py) over the revisioned *)
(* collection they are stored in (services/storage/database_storage.py).   *)
(* Every process keeps a view of the keys: it edits them for the control   *)
(* panel and accepts requests by them, and writes the time of the last use *)
(* back, so that even a request that only authenticates rewrites a row.    *)
(* Every write names the revision its view was loaded at.                  *)
(***************************************************************************)
EXTENDS Naturals

CONSTANTS
  KeyProcesses,   \* application processes with their view
  Keys,           \* ids of keys
  Hashes,         \* hashes of the secrets
  MaxRev          \* bound: revisions of the collection

ASSUME KeysAssumption ==
  Keys # {} /\ Hashes # {} /\ "none" \notin Hashes /\ MaxRev \in Nat \ {0}

VARIABLES
  stored,      \* the rows and the version of the collection
  keyView,     \* AuthService._items and ._revision
  call,        \* the call of each process that holds AuthService._lock
  load,        \* the snapshot each process is loading without the lock
  given,       \* history: the ids that keys were given
  edited       \* the rows as the edits left them

keyVars == <<stored, keyView, call, load, given, edited>>

NoKey == [hash |-> "none", on |-> FALSE]
KeyRow == {NoKey} \cup [hash : Hashes, on : BOOLEAN]
Rows == [Keys -> KeyRow]
\* A call: an edit, or the use of the key with a hash.
NoUse == [at |-> "idle", use |-> "none"]
NoLoad == [at |-> "idle", rev |-> 1, since |-> 1, rows |-> [k \in Keys |-> NoKey]]

KeysTypeOK ==
  /\ stored \in [rows : Rows, rev : 1..MaxRev]
  /\ keyView \in [KeyProcesses -> [rows : Rows, rev : 1..MaxRev]]
  /\ call \in [KeyProcesses -> [at : {"idle", "loading", "writing"},
                               use : Hashes \cup {"none"}]]
  /\ load \in [KeyProcesses -> [at : {"idle", "rows", "check", "loaded"},
                               rev : 1..MaxRev, since : 1..MaxRev, rows : Rows]]
  /\ given \subseteq Keys /\ edited \in Rows

KeysInit ==
  LET k == CHOOSE k \in Keys : TRUE
      h == CHOOSE h \in Hashes : TRUE
      rows == [l \in Keys |-> IF l = k THEN [hash |-> h, on |-> TRUE] ELSE NoKey] IN
    /\ stored = [rows |-> rows, rev |-> 1]
    /\ keyView = [p \in KeyProcesses |-> [rows |-> rows, rev |-> 1]]
    /\ given = {k} /\ edited = rows
    /\ call = [p \in KeyProcesses |-> NoUse]
    /\ load = [p \in KeyProcesses |-> NoLoad]

---------------------------------------------------------------------------
\* The view of a process is refreshed now and then, without the lock: the
\* version is read, then the rows, and the version again.

StartRefresh(p) ==
  /\ load[p].at = "idle"
  /\ load' = [load EXCEPT ![p].at = "rows", ![p].since = keyView[p].rev, ![p].rev = stored.rev]
  /\ UNCHANGED <<stored, keyView, call, given, edited>>

ReadRows(p) ==
  /\ load[p].at = "rows"
  /\ load' = [load EXCEPT ![p].at = "check", ![p].rows = stored.rows]
  /\ UNCHANGED <<stored, keyView, call, given, edited>>

\* A collection that changed meanwhile is read again, three times at most.
CheckVersion(p) ==
  /\ load[p].at = "check"
  /\ load' = [load EXCEPT ![p] =
       IF @.rev = stored.rev THEN [@ EXCEPT !.at = "loaded"]
                             ELSE [NoLoad EXCEPT !.at = "rows", !.since = load[p].since,
                                                 !.rev = stored.rev]]
  /\ UNCHANGED <<stored, keyView, call, given, edited>>

\* A view that a call has changed since is kept.
FinishRefresh(p) ==
  LET l == load[p] IN
  /\ l.at = "loaded" /\ call[p] = NoUse
  /\ keyView' = IF keyView[p].rev = l.since
                 THEN [keyView EXCEPT ![p] = [rows |-> l.rows, rev |-> l.rev]]
                 ELSE keyView
  /\ load' = [load EXCEPT ![p] = NoLoad]
  /\ UNCHANGED <<stored, call, given, edited>>

RefreshFails(p) ==
  /\ load[p].at # "idle"
  /\ load' = [load EXCEPT ![p] = NoLoad]
  /\ UNCHANGED <<stored, keyView, call, given, edited>>

---------------------------------------------------------------------------
\* Calls.  A call holds the lock of its process from its start to its end.

\* create_key, update_key and delete_key load the keys first.
AskEdit(p) ==
  /\ call[p] = NoUse
  /\ call' = [call EXCEPT ![p].at = "loading"]
  /\ UNCHANGED <<stored, keyView, load, given, edited>>

Matching(rows, h) == {k \in Keys : rows[k] = [hash |-> h, on |-> TRUE]}

\* authenticate starts from the view it has.  (A use that was written less
\* than a minute ago is not written again: the call changes nothing.)
Authenticate(p) ==
  /\ call[p] = NoUse
  /\ \E h \in Hashes : /\ Matching(keyView[p].rows, h) # {}
                       /\ call' = [call EXCEPT ![p] = [at |-> "writing", use |-> h]]
  /\ UNCHANGED <<stored, keyView, load, given, edited>>

End(p) == call' = [call EXCEPT ![p] = NoUse]

\* _reload_locked; an authentication looks for its key again.  (The reads are
\* those of a refresh.  The lock is held over them: nothing sees the view
\* before the version was confirmed.)
Reload(p) ==
  /\ call[p].at = "loading"
  /\ keyView' = [keyView EXCEPT ![p] = stored]
  /\ IF call[p].use \in Hashes /\ Matching(stored.rows, call[p].use) = {}
       THEN End(p)
       ELSE call' = [call EXCEPT ![p].at = "writing"]
  /\ UNCHANGED <<stored, load, given, edited>>

\* The call ends without a write: what it is about is gone, its secret is
\* taken, or the store does not answer or changed too often.  (An
\* authentication then goes by the view it has.)
CallFails(p) ==
  /\ call[p] # NoUse
  /\ End(p)
  /\ UNCHANGED <<stored, keyView, load, given, edited>>

Taken(p, h) == \E k \in Keys : keyView[p].rows[k].hash = h
\* The row a call wants to write, as it follows from the view: a new key has
\* a new id and a secret no other key of the view has, and so has a changed one.
Creates(p, k, row) ==
  k \notin given /\ row.hash \in Hashes /\ row.on /\ ~Taken(p, row.hash)

Updates(p, k, row) ==
  LET old == keyView[p].rows[k] IN
  /\ old # NoKey /\ row.hash \in Hashes /\ row # old
  /\ row.hash # old.hash => ~Taken(p, row.hash)

Deletes(p, k, row) == keyView[p].rows[k] # NoKey /\ row = NoKey

Uses(p, k, row) == k \in Matching(keyView[p].rows, call[p].use) /\ row = keyView[p].rows[k]

Writes(p) ==
  {w \in Keys \X KeyRow :
     IF call[p].use \in Hashes THEN Uses(p, w[1], w[2])
       ELSE Creates(p, w[1], w[2]) \/ Updates(p, w[1], w[2]) \/ Deletes(p, w[1], w[2])}

\* Mutant: the write of a last use does not name a revision.
CurrentForEdits(p) == stored.rev = keyView[p].rev \/ call[p].use \in Hashes

\* _check_revision: the collection is still the one of the view.
Current(p) == stored.rev = keyView[p].rev

WriteKey(p) ==
  /\ call[p].at = "writing" /\ Current(p) /\ stored.rev < MaxRev
  /\ \E w \in Writes(p) :
       LET rev == stored.rev + 1
           rows == [stored.rows EXCEPT ![w[1]] = w[2]]
       IN /\ stored' = [rows |-> rows, rev |-> rev]
          /\ keyView' = [keyView EXCEPT ![p].rows[w[1]] = w[2], ![p].rev = rev]
          /\ given' = given \cup {w[1]}
          /\ edited' = IF call[p].use \in Hashes THEN edited ELSE [edited EXCEPT ![w[1]] = w[2]]
  /\ End(p)
  /\ UNCHANGED load

\* The collection has another revision: the call loads it and tries again.
Conflict(p) ==
  /\ call[p].at = "writing" /\ ~Current(p)
  /\ call' = [call EXCEPT ![p].at = "loading"]
  /\ UNCHANGED <<stored, keyView, load, given, edited>>

KeysNext ==
  \/ \E p \in KeyProcesses :
       \/ StartRefresh(p) \/ ReadRows(p) \/ CheckVersion(p)
       \/ FinishRefresh(p) \/ RefreshFails(p)
       \/ AskEdit(p) \/ Authenticate(p) \/ Reload(p) \/ CallFails(p)
       \/ WriteKey(p) \/ Conflict(p)

KeysSpec == KeysInit /\ [][KeysNext]_keyVars

---------------------------------------------------------------------------
\* The stored keys are what the edits made of them: writing the time of a last
\* use from a view that has fallen behind brings no deleted key back, switches
\* none on and undoes no change of a secret (authenticate, update_key,
\* delete_key in several processes).
EditsStand == stored.rows = edited

\* Two keys never have the same secret, whichever processes made them.
KeysAreDistinct ==
  \A k, l \in Keys : k # l /\ stored.rows[k] # NoKey => stored.rows[k].hash # stored.rows[l].hash

\* A view that names the stored revision is the collection, although it is
\* loaded in several reads and changed in place by the calls.
ViewsAreReal ==
  \A p \in KeyProcesses : keyView[p].rev = stored.rev => keyView[p].rows = stored.rows

\* The three together.
KeysHold == EditsStand /\ KeysAreDistinct /\ ViewsAreReal
=============================================================================
