----------------------------- MODULE ImageStorage -----------------------------
(***************************************************************************)
(* One path of the image library (services/image_storage_service.py): its  *)
(* local file, its WebDAV copy, its catalog item and its tombstone, under  *)
(* saves, deletions, compression, disk cleanup, synchronisation and the    *)
(* gallery's listing, with failed uploads and processes that die.          *)
(*                                                                         *)
(* A path is not an identity: docs/adr/0003 gives each item a generation   *)
(* and each deletion an operation id.  Both are only compared, so a fresh  *)
(* one is the least number nobody holds.                                   *)
(***************************************************************************)
EXTENDS Naturals, FiniteSets

CONSTANTS
  Workers,      \* requests and background tasks that use the library
  MaxVersions,  \* bound: versions of the image
  MaxDeletes,   \* bound: deletions requested
  MaxDeaths     \* bound: operations cut short by the end of their process

NoLock == "nobody"

\* Finitely many workers, none of them named as a lock that nobody holds.
ASSUME StorageAssumption ==
  /\ IsFiniteSet(Workers) /\ NoLock \notin Workers
  /\ MaxVersions \in Nat \ {0} /\ MaxDeletes \in Nat /\ MaxDeaths \in Nat

VARIABLES
  disk,       \* the local file
  remote,     \* the WebDAV copy
  item,       \* the catalog item
  tomb,       \* the durable tombstone
  itemLock,   \* who holds the item guard over several steps
  use,        \* worker -> the operation it is in
  versions,   \* versions begun
  stored,     \* history: versions whose save committed and that the catalog still has
  deletes, deaths,
  misdeleted  \* history: stored versions removed by a deletion older than they are

storageVars ==
  <<disk, remote, item, tomb, itemLock, use, versions, stored, deletes, deaths, misdeleted>>
copies == <<disk, remote>>
storageBounds == <<versions, stored, deletes, deaths>>

NoBytes == [v |-> 0, packed |-> FALSE]
NoItem == [gen |-> 0, size |-> NoBytes, local |-> FALSE, webdav |-> FALSE, pending |-> FALSE]
NoTomb == [op |-> 0, gen |-> 0, scope |-> "none", remote |-> FALSE, upTo |-> 0]
Rest == [at |-> "rest"]
Contents == [v : 0..MaxVersions, packed : BOOLEAN]

Held(w) == use[w].at \in {"saving", "removing"}

StorageTypeOK ==
  /\ disk \in Contents /\ remote \in Contents /\ item.size \in Contents
  /\ itemLock \in Workers \cup {NoLock}
  /\ \A w \in Workers : Held(w) <=> itemLock = w
  /\ item.gen = 0 <=> item = NoItem
  /\ tomb.scope \in {"none", "asset", "remote"} /\ (tomb.scope = "none" <=> tomb = NoTomb)
  /\ stored \subseteq 1..versions

\* The smallest number that no item, tombstone or worker holds.
Fresh ==
  LET held == {item.gen, tomb.gen, tomb.op}
              \cup (UNION {{use[w].tomb.gen, use[w].tomb.op} :
                             w \in {x \in Workers : "tomb" \in DOMAIN use[x]}})
              \cup {use[w].gen : w \in {x \in Workers : "gen" \in DOMAIN use[x]}}
  IN CHOOSE n \in 1..(Cardinality(held) + 1) :
       n \notin held /\ \A m \in 1..(n - 1) : m \in held

StorageInit ==
  /\ disk = [v |-> 1, packed |-> FALSE]
  /\ \E synced \in BOOLEAN :
       /\ remote = IF synced THEN disk ELSE NoBytes
       /\ item = [gen |-> 1, size |-> disk, local |-> TRUE, webdav |-> synced, pending |-> FALSE]
  /\ tomb = NoTomb
  /\ itemLock = NoLock
  /\ use = [w \in Workers |-> Rest]
  /\ versions = 1 /\ stored = {1}
  /\ deletes = 0 /\ deaths = 0
  /\ misdeleted = {}

Becomes(w, what) == use' = [use EXCEPT ![w] = what]

\* A stored version that is newer than the deletion which removes a copy or the
\* catalog item of it.
Removes(t, copy) == {copy.v} \cap {v \in stored : v > t.upTo}

Listed(i) == IF i = NoItem THEN {} ELSE stored

-----------------------------------------------------------------------------
(* Saving *)

\* save and save_at_path, up to the local file, under the item guard; `clears`
\* says which: save takes the tombstone of the path away.
SaveBegins(w) ==
  /\ use[w] = Rest /\ itemLock = NoLock /\ versions < MaxVersions
  /\ \E mode \in {"local", "webdav", "both"}, clears \in BOOLEAN :
       /\ Becomes(w, [at |-> "saving", v |-> versions + 1, mode |-> mode, clears |-> clears,
                      put |-> mode = "local", was |-> disk, new |-> item = NoItem])
       /\ disk' = IF mode = "webdav" THEN disk ELSE [v |-> versions + 1, packed |-> FALSE]
  /\ itemLock' = w
  /\ versions' = versions + 1
  /\ UNCHANGED <<remote, item, tomb, stored, deletes, deaths, misdeleted>>

\* The upload of a save.
SavePuts(w) ==
  /\ use[w].at = "saving" /\ ~use[w].put
  /\ remote' = [v |-> use[w].v, packed |-> FALSE]
  /\ Becomes(w, [use[w] EXCEPT !.put = TRUE])
  /\ UNCHANGED <<disk, item, tomb, itemLock, misdeleted, storageBounds>>

\* Mutant: a save of a path in the catalog keeps the generation of its item.
KeepsGeneration == IF item = NoItem THEN Fresh ELSE item.gen

\* _new_generation
NewGeneration == Fresh

\* The catalog item replaces any other, with a generation of its own.
SaveCommits(w) ==
  /\ use[w].at = "saving" /\ use[w].put
  /\ LET local == use[w].mode # "webdav" IN
     item' = [gen |-> NewGeneration, size |-> [v |-> use[w].v, packed |-> FALSE],
              local |-> local, webdav |-> use[w].mode # "local", pending |-> FALSE]
  /\ tomb' = IF use[w].clears THEN NoTomb ELSE tomb
  /\ stored' = stored \cup {use[w].v}
  /\ itemLock' = NoLock
  /\ Becomes(w, Rest)
  /\ UNCHANGED <<copies, versions, deletes, deaths, misdeleted>>

\* The upload or the catalog fails.  save_at_path puts the former file back and,
\* where the path was not in the catalog, removes what it may have uploaded
\* (_cleanup_failed_remote_publish); save leaves what it wrote.
SaveFails(w) ==
  /\ use[w].at = "saving"
  /\ LET s == use[w]
         mine == [v |-> s.v, packed |-> FALSE]
         uploads == s.mode # "local"
         mark == [op |-> Fresh, gen |-> 0, scope |-> "asset", remote |-> TRUE, upTo |-> versions] IN
     /\ disk' = IF s.clears \/ s.mode = "webdav" THEN disk ELSE s.was
     /\ IF ~s.clears /\ uploads /\ s.new
        THEN \/ remote' = NoBytes /\ tomb' = NoTomb
             \/ tomb' = mark /\ remote' \in {NoBytes, remote, mine}
        ELSE /\ remote' \in IF uploads THEN {remote, mine} ELSE {remote}
             /\ UNCHANGED tomb
  /\ itemLock' = NoLock
  /\ Becomes(w, Rest)
  /\ UNCHANGED <<item, misdeleted, storageBounds>>

-----------------------------------------------------------------------------
(* Deletion *)

\* _prepare_delete_batch
DeletePrepares(w) ==
  /\ itemLock = NoLock
  /\ LET t == [op |-> Fresh, scope |-> "asset", upTo |-> versions,
               gen |-> IF item = NoItem THEN tomb.gen ELSE item.gen,
               remote |-> item.webdav \/ tomb.remote] IN
     /\ tomb' = t
     /\ Becomes(w, [at |-> "prepared", tomb |-> t])
  /\ UNCHANGED <<copies, item, itemLock, versions, stored, deaths, misdeleted>>

\* delete_images of a path that is no artifact of the queue
DeleteImages(w) ==
  /\ use[w] = Rest /\ deletes < MaxDeletes
  /\ deletes' = deletes + 1
  /\ DeletePrepares(w)

\* _tombstone_matches
SameOperation(t) == tomb.op # 0 /\ tomb.op = t.op

\* _asset_generation_matches, with a missing item allowed
SameAsset(t) == item = NoItem \/ item.gen = t.gen

\* _mutate_delete_tombstone, to the unlink of the local file
DeleteMutates(w) ==
  /\ use[w].at = "prepared" /\ itemLock = NoLock
  /\ LET t == use[w].tomb IN
     IF SameOperation(t) /\ SameAsset(t)
     THEN /\ disk' = NoBytes
          /\ misdeleted' = misdeleted \cup Removes(t, disk)
          /\ itemLock' = w
          /\ Becomes(w, [at |-> "removing", tomb |-> t, removed |-> disk # NoBytes])
     ELSE /\ Becomes(w, [at |-> "finalizing", tomb |-> t, done |-> FALSE, retry |-> FALSE])
          /\ UNCHANGED <<disk, misdeleted, itemLock>>
  /\ UNCHANGED <<remote, item, tomb, storageBounds>>

\* Its second half: the WebDAV copy.
DeleteRemote(w) ==
  /\ use[w].at = "removing"
  /\ LET t == use[w].tomb
         ends(done, retry) ==
           Becomes(w, [at |-> "finalizing", tomb |-> t, done |-> done, retry |-> retry]) IN
     IF ~t.remote THEN ends(TRUE, FALSE) /\ UNCHANGED <<remote, misdeleted>>
     ELSE \/ /\ remote' = NoBytes
             /\ misdeleted' = misdeleted \cup Removes(t, remote)
             /\ ends(TRUE, FALSE)
          \/ ends(use[w].removed, TRUE) /\ UNCHANGED <<remote, misdeleted>>
  /\ itemLock' = NoLock
  /\ UNCHANGED <<disk, item, tomb, storageBounds>>

\* _finalize_delete_batch
DeleteFinalizes(w) ==
  /\ use[w].at = "finalizing" /\ itemLock = NoLock
  /\ LET t == use[w].tomb IN
     IF SameOperation(t)
     THEN /\ IF use[w].done /\ SameAsset(t)
             THEN item' = NoItem /\ stored' = {} /\ misdeleted' = misdeleted \cup Removes(t, item.size)
             ELSE UNCHANGED <<item, stored, misdeleted>>
          /\ tomb' = IF ~SameAsset(t) \/ ~use[w].retry THEN NoTomb ELSE tomb
     ELSE UNCHANGED <<item, tomb, stored, misdeleted>>
  /\ Becomes(w, Rest)
  /\ UNCHANGED <<copies, itemLock, versions, deletes, deaths>>

-----------------------------------------------------------------------------
(* The gallery, disk cleanup and compression *)

\* list_items: a file that is not in the catalog enters it, an item without a
\* copy leaves it, and a changed size asks for another upload.  It takes the
\* index guard only.
ListItems ==
  /\ item' =
       IF item = NoItem
       THEN IF disk = NoBytes THEN NoItem
            ELSE [gen |-> Fresh, size |-> disk, local |-> TRUE, webdav |-> FALSE, pending |-> FALSE]
       ELSE IF disk = NoBytes
            THEN IF item.webdav THEN [item EXCEPT !.local = FALSE] ELSE NoItem
            ELSE [item EXCEPT !.local = TRUE, !.size = disk,
                              !.pending = @ \/ (item.webdav /\ item.size # disk)]
  /\ item' # item
  /\ stored' = Listed(item')
  /\ UNCHANGED <<copies, tomb, itemLock, use, versions, deletes, deaths, misdeleted>>

\* _delete_local_copies: disk cleanup keeps a copy whose upload is pending or
\* whose size is not the catalog's; the process may end before the catalog
\* follows.
DeleteLocalCopies ==
  /\ itemLock = NoLock /\ disk # NoBytes
  /\ ~item.pending
  /\ item = NoItem \/ item.size = disk
  /\ disk' = NoBytes
  /\ \/ /\ item' = IF item.webdav THEN [item EXCEPT !.local = FALSE] ELSE NoItem
        /\ UNCHANGED deaths
     \/ /\ deaths < MaxDeaths
        /\ deaths' = deaths + 1
        /\ UNCHANGED item
  /\ stored' = Listed(item')
  /\ UNCHANGED <<remote, tomb, itemLock, use, versions, deletes, misdeleted>>

\* cleanup_image_retention removes what the gallery lists as expired, ...
RetentionCleanup == item # NoItem /\ item.local /\ DeleteLocalCopies

\* ... delete_to_target any file, the oldest first.
SpaceCleanup == DeleteLocalCopies

\* compress_local_images replaces the file ...
CompressReplaces(w) ==
  /\ use[w] = Rest /\ itemLock = NoLock
  /\ disk # NoBytes /\ ~disk.packed
  /\ disk' = [disk EXCEPT !.packed = TRUE]
  /\ Becomes(w, [at |-> "compressed", as |-> disk'])
  /\ UNCHANGED <<remote, item, tomb, itemLock, misdeleted, storageBounds>>

\* ... and later updates the catalog, if the file is still its own.
CompressCommits(w) ==
  /\ use[w].at = "compressed" /\ itemLock = NoLock
  /\ item' =
       IF disk # use[w].as THEN item
       ELSE [gen |-> IF item = NoItem THEN Fresh ELSE item.gen, size |-> disk, local |-> TRUE,
             webdav |-> item.webdav, pending |-> item.webdav \/ item.pending]
  /\ Becomes(w, Rest)
  /\ UNCHANGED <<copies, tomb, itemLock, misdeleted, storageBounds>>

-----------------------------------------------------------------------------
(* Synchronisation *)

Syncing == \E w \in Workers : use[w].at \in {"synced", "read", "put", "repair", "clean", "sweep"}

\* sync_all: one at a time; the catalog and the tombstones as they are now.
SyncBegins(w) ==
  /\ use[w] = Rest /\ ~Syncing
  /\ Becomes(w, [at |-> "synced", item |-> item, gen |-> item.gen, tomb |-> tomb])
  /\ UNCHANGED <<copies, item, tomb, itemLock, misdeleted, storageBounds>>

\* _sync_all_locked reads the file, without the item guard; a file that is to
\* be deleted, or is uploaded already, is passed over.
SyncReads(w) ==
  /\ use[w].at = "synced"
  /\ LET s == use[w]
         doomed == s.tomb.scope = "asset" /\ (s.item = NoItem \/ s.item.gen = s.tomb.gen)
         uploaded == s.item.webdav /\ ~s.item.pending /\ s.item.size = disk
         marked == s.tomb # NoTomb IN
     IF disk = NoBytes \/ doomed \/ uploaded
     THEN Becomes(w, IF marked THEN [at |-> "sweep"] ELSE Rest)
     ELSE Becomes(w, [at |-> "read", gen |-> s.gen, payload |-> disk, marked |-> marked])
  /\ UNCHANGED <<copies, item, tomb, itemLock, misdeleted, storageBounds>>

\* The upload, without the item guard; what a failed one did is uncertain.
SyncPuts(w) ==
  /\ use[w].at = "read"
  /\ \/ /\ remote' = use[w].payload
        /\ Becomes(w, [use[w] EXCEPT !.at = "put"])
     \/ /\ remote' \in {remote, use[w].payload}
        /\ Becomes(w, [at |-> "clean"])
  /\ UNCHANGED <<disk, item, tomb, itemLock, misdeleted, storageBounds>>

\* _commit_sync_batch: the file is gone, is another, or is the one uploaded.
SyncCommits(w) ==
  /\ use[w].at = "put" /\ itemLock = NoLock
  /\ LET s == use[w]
         gen == IF item # NoItem THEN item.gen ELSE IF s.gen # 0 THEN s.gen ELSE Fresh
         same == disk = s.payload IN
     IF disk = NoBytes
     THEN Becomes(w, [at |-> "clean"]) /\ UNCHANGED item
     ELSE /\ item' = [gen |-> gen, size |-> disk, local |-> TRUE, webdav |-> TRUE, pending |-> ~same]
          /\ Becomes(w, IF ~same THEN [at |-> "repair", marked |-> s.marked]
                        ELSE IF s.marked THEN [at |-> "sweep"] ELSE Rest)
  /\ UNCHANGED <<copies, tomb, itemLock, misdeleted, storageBounds>>

\* _repair_stale_sync_item uploads the file that is there now, under the item
\* guard; a failure leaves the item pending.
SyncRepairs(w) ==
  /\ use[w].at = "repair" /\ itemLock = NoLock
  /\ LET rest == IF use[w].marked THEN [at |-> "sweep"] ELSE Rest IN
     IF disk = NoBytes
     THEN Becomes(w, [at |-> "clean"]) /\ UNCHANGED <<remote, item>>
     ELSE /\ Becomes(w, rest)
          /\ \/ /\ remote' = disk
                /\ item' = [gen |-> IF item = NoItem THEN Fresh ELSE item.gen, size |-> disk,
                            local |-> TRUE, webdav |-> TRUE, pending |-> FALSE]
             \/ remote' \in {remote, disk} /\ UNCHANGED item
  /\ UNCHANGED <<disk, tomb, itemLock, misdeleted, storageBounds>>

\* _cleanup_remote_candidates, first part: an upload without a local file, an
\* item and a tombstone gets a tombstone for the WebDAV copy alone.
SyncMarks(w) ==
  /\ use[w].at = "clean" /\ itemLock = NoLock
  /\ tomb' = IF tomb = NoTomb /\ item = NoItem /\ disk = NoBytes
             THEN [op |-> Fresh, gen |-> 0, scope |-> "remote", remote |-> TRUE, upTo |-> versions]
             ELSE tomb
  /\ Becomes(w, [at |-> "sweep"])
  /\ UNCHANGED <<copies, item, itemLock, misdeleted, storageBounds>>

\* A newer asset supersedes the tombstone.
Superseded ==
  \/ tomb.scope = "asset" /\ ~SameAsset(tomb)
  \/ tomb.scope = "remote" /\ (item # NoItem \/ disk # NoBytes)

\* Its second part replays the tombstone of the path under the item guard; a
\* step that fails, or the end of the process, leaves the tombstone.
SyncSweeps(w) ==
  /\ use[w].at = "sweep" /\ itemLock = NoLock
  /\ Becomes(w, Rest)
  /\ LET asset == tomb.scope = "asset"
         unlinks == /\ disk' = IF asset THEN NoBytes ELSE disk
                    /\ misdeleted' = misdeleted \cup IF asset THEN Removes(tomb, disk) ELSE {} IN
     IF tomb = NoTomb THEN UNCHANGED <<copies, item, tomb, stored, misdeleted>>
     ELSE IF Superseded THEN tomb' = NoTomb /\ UNCHANGED <<copies, item, stored, misdeleted>>
     ELSE \/ unlinks /\ tomb.remote /\ UNCHANGED <<remote, item, tomb, stored>>
          \/ /\ disk' = IF asset THEN NoBytes ELSE disk
             /\ remote' = IF tomb.remote THEN NoBytes ELSE remote
             /\ misdeleted' = misdeleted \cup (IF asset THEN Removes(tomb, disk) ELSE {})
                                         \cup (IF tomb.remote THEN Removes(tomb, remote) ELSE {})
             /\ item' = IF asset THEN NoItem ELSE item
             /\ stored' = Listed(item')
             /\ tomb' = NoTomb
  /\ UNCHANGED <<itemLock, versions, deletes, deaths>>

-----------------------------------------------------------------------------

\* The process of a worker ends: its file locks fall with it.
WorkerDies(w) ==
  /\ use[w] # Rest /\ deaths < MaxDeaths
  /\ deaths' = deaths + 1
  /\ itemLock' = IF itemLock = w THEN NoLock ELSE itemLock
  /\ Becomes(w, Rest)
  /\ UNCHANGED <<copies, item, tomb, versions, stored, deletes, misdeleted>>

StorageNext ==
  \/ \E w \in Workers :
       \/ SaveBegins(w) \/ SavePuts(w) \/ SaveCommits(w) \/ SaveFails(w)
       \/ DeleteImages(w) \/ DeleteMutates(w) \/ DeleteRemote(w) \/ DeleteFinalizes(w)
       \/ CompressReplaces(w) \/ CompressCommits(w)
       \/ SyncBegins(w) \/ SyncReads(w) \/ SyncPuts(w) \/ SyncCommits(w)
       \/ SyncRepairs(w) \/ SyncMarks(w) \/ SyncSweeps(w)
       \/ WorkerDies(w)
  \/ ListItems
  \/ RetentionCleanup
  \/ SpaceCleanup

StorageSpec == StorageInit /\ [][StorageNext]_storageVars

-----------------------------------------------------------------------------
(* Properties *)

\* docs/adr/0003: a deletion, interrupted, late or replayed by a synchronisation,
\* never removes the file or the WebDAV copy of a version that was saved at the
\* path after the deletion was requested (_mutate_delete_tombstone,
\* _cleanup_remote_candidates).
OldDeletesSpareNewVersions == misdeleted = {}
=============================================================================
