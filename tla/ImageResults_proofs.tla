------------------------ MODULE ImageResults_proofs -------------------------
(*************************************************************************)
(* Proofs about the way of a result and the records of it, for any       *)
(* number of actors and without the bounds of the runs: the image        *)
(* library with its tombstones, the delivery of results and what is      *)
(* charged for them, the conversations of a claim, the projection of the *)
(* call records on the dashboard, and the call records of a task.        *)
(*************************************************************************)
EXTENDS ImageStorage, ImageDelivery, ImageGeneration, DashboardProjection, ImageCalls,
        FiniteSetTheorems, WellFoundedInduction, TLAPS

-----------------------------------------------------------------------------
(* The image library: saves, deletions and synchronisations of one path *)

Deleting(u) == u.at \in {"prepared", "removing", "finalizing"}
SyncingFrom(u) == u.at \in {"synced", "read", "put"}

\* A deletion holds the tombstone it wrote: while the stored one has its
\* operation it is that tombstone.  One that is under way spares nothing older,
\* and there is nothing newer.
UseHolds(u, T, S) ==
  /\ Deleting(u) => /\ "tomb" \in DOMAIN u
                    /\ u.tomb.op \in Nat \ {0} /\ u.tomb.upTo \in Nat
                    /\ T.op = u.tomb.op => T = u.tomb
  /\ u.at = "removing" => \A v \in S : v <= u.tomb.upTo
  /\ SyncingFrom(u) => u.gen \in Nat /\ {"at", "gen"} \subseteq DOMAIN u

\* The item a tombstone names holds no version newer than the tombstone.
NamesOlder(i, T, S) ==
  i.gen # 0 /\ i.gen = T.gen => \A v \in S : v <= T.upTo

StorageInv ==
  /\ versions \in Nat /\ stored \subseteq 1..versions
  /\ item.gen \in Nat /\ (item.gen = 0 <=> item = NoItem)
  /\ tomb.gen \in Nat /\ tomb.op \in Nat /\ tomb.upTo \in Nat
  /\ tomb # NoTomb => tomb.scope \in {"asset", "remote"}
  /\ item = NoItem => stored = {}
  /\ NamesOlder(item, tomb, stored)
  /\ DOMAIN use = Workers
  /\ \A w \in Workers : UseHolds(use[w], tomb, stored)
  /\ \A w \in Workers : Held(w) => itemLock = w
  /\ \A w \in Workers : use[w].at = "saving" => use[w].v \in 1..versions
  /\ misdeleted = {}

\* What is in use: the numbers a new one differs from.
InUse ==
  {item.gen, tomb.gen, tomb.op}
    \cup (UNION {{use[w].tomb.gen, use[w].tomb.op} :
                  w \in {x \in Workers : "tomb" \in DOMAIN use[x]}})
    \cup {use[w].gen : w \in {x \in Workers : "gen" \in DOMAIN use[x]}}

\* Finitely many workers hold finitely many numbers.
LEMMA FewInUse == IsFiniteSet(InUse)
<1> DEFINE D == {x \in Workers : "tomb" \in DOMAIN use[x]}
           G == {x \in Workers : "gen" \in DOMAIN use[x]}
           A == {use[w].tomb.gen : w \in D}
           B == {use[w].tomb.op : w \in D}
           C == {use[w].gen : w \in G}
<1>1. IsFiniteSet(D) /\ IsFiniteSet(G)
  <2>1. D \in SUBSET Workers /\ G \in SUBSET Workers
    OBVIOUS
  <2> QED
    BY <2>1, FS_Subset, StorageAssumption
<1>2. [w \in D |-> use[w].tomb.gen] \in Surjection(D, A)
  BY DEF Surjection
<1>3. [w \in D |-> use[w].tomb.op] \in Surjection(D, B)
  BY DEF Surjection
<1>4. [w \in G |-> use[w].gen] \in Surjection(G, C)
  BY DEF Surjection
<1>5. IsFiniteSet(A)
  BY <1>1, <1>2, FS_Surjection
<1>6. IsFiniteSet(B)
  BY <1>1, <1>3, FS_Surjection
<1>7. IsFiniteSet(C)
  BY <1>1, <1>4, FS_Surjection
<1>8. IsFiniteSet({item.gen, tomb.gen, tomb.op})
  <2>1. IsFiniteSet({item.gen})
    BY FS_Singleton
  <2>2. IsFiniteSet({item.gen} \cup {tomb.gen})
    BY <2>1, FS_AddElement
  <2>3. IsFiniteSet(({item.gen} \cup {tomb.gen}) \cup {tomb.op})
    BY <2>2, FS_AddElement
  <2>4. {item.gen, tomb.gen, tomb.op} = ({item.gen} \cup {tomb.gen}) \cup {tomb.op}
    OBVIOUS
  <2> QED
    BY <2>3, <2>4
<1>9. UNION {{use[w].tomb.gen, use[w].tomb.op} : w \in D} = A \cup B
  <2>1. ASSUME NEW x, x \in UNION {{use[w].tomb.gen, use[w].tomb.op} : w \in D}
        PROVE  x \in A \cup B
    <3>1. PICK w \in D : x \in {use[w].tomb.gen, use[w].tomb.op}
      BY <2>1
    <3> QED
      BY <3>1
  <2>2. ASSUME NEW x, x \in A \cup B
        PROVE  x \in UNION {{use[w].tomb.gen, use[w].tomb.op} : w \in D}
    <3>1. PICK w \in D : x \in {use[w].tomb.gen, use[w].tomb.op}
      BY <2>2
    <3> QED
      BY <3>1
  <2> QED
    BY <2>1, <2>2
<1>10. IsFiniteSet(A \cup B)
  BY <1>5, <1>6, FS_Union
<1>11. IsFiniteSet({item.gen, tomb.gen, tomb.op} \cup (A \cup B))
  BY <1>8, <1>10, FS_Union
<1>12. IsFiniteSet(({item.gen, tomb.gen, tomb.op} \cup (A \cup B)) \cup C)
  BY <1>7, <1>11, FS_Union
<1> QED
  BY <1>9, <1>12 DEF InUse

\* The least positive number that is not in a finite set.
LEMMA LeastFree ==
  ASSUME NEW S, IsFiniteSet(S)
  PROVE  \E n \in 1..(Cardinality(S) + 1) : n \notin S /\ \A m \in 1..(n - 1) : m \in S
<1> DEFINE k == Cardinality(S)
           T == {n \in 1..(k + 1) : n \notin S}
<1>1. k \in Nat
  BY FS_CardinalityType
<1>2. T # {}
  <2> SUFFICES ASSUME T = {} PROVE FALSE
    OBVIOUS
  <2>1. 1..(k + 1) \in SUBSET S
    OBVIOUS
  <2>2. Cardinality(1..(k + 1)) <= k
    BY <2>1, FS_Subset
  <2>3. 1 \in Int /\ k + 1 \in Int
    BY <1>1
  <2>4. Cardinality(1..(k + 1)) = IF 1 > k + 1 THEN 0 ELSE (k + 1) - 1 + 1
    BY <2>3, FS_Interval
  <2> HIDE DEF k
  <2>5. Cardinality(1..(k + 1)) = k + 1
    BY <1>1, <2>4
  <2> QED
    BY <1>1, <2>2, <2>5
<1> HIDE DEF k
<1>3. T \subseteq Nat
  BY <1>1
<1>4. PICK n \in T : \A m \in T : ~ (<<m, n>> \in OpToRel(<, Nat))
  BY <1>2, <1>3, NatLessThanWellFounded, WFMin, Zenon
<1>5. \A m \in T : ~(m < n)
  BY <1>3, <1>4 DEF OpToRel
<1>6. ASSUME NEW m \in 1..(n - 1) PROVE m \in S
  BY <1>1, <1>5, <1>6
<1> QED
  BY <1>6 DEF k

\* A new number differs from all that are in use.
LEMMA FreshIs ==
  Fresh \in Nat \ {0} /\ Fresh \notin InUse
<1>1. \E n \in 1..(Cardinality(InUse) + 1) : n \notin InUse /\ \A m \in 1..(n - 1) : m \in InUse
  BY FewInUse, LeastFree
<1>2. Fresh = CHOOSE n \in 1..(Cardinality(InUse) + 1) :
                 n \notin InUse /\ \A m \in 1..(n - 1) : m \in InUse
  BY DEF Fresh, InUse
<1>3. Fresh \in 1..(Cardinality(InUse) + 1) /\ Fresh \notin InUse
  BY <1>1, <1>2
<1>4. Cardinality(InUse) \in Nat
  BY FewInUse, FS_CardinalityType
<1> QED
  BY <1>3, <1>4

\* It differs from the numbers the properties compare.
LEMMA FreshDiffers ==
  ASSUME StorageInv
  PROVE  /\ Fresh \in Nat \ {0} /\ Fresh # item.gen /\ Fresh # tomb.gen /\ Fresh # tomb.op
         /\ \A w \in Workers : Deleting(use[w]) => Fresh # use[w].tomb.op /\ Fresh # use[w].tomb.gen
<1>1. ASSUME NEW w \in Workers, Deleting(use[w])
      PROVE  use[w].tomb.op \in InUse /\ use[w].tomb.gen \in InUse
  <2>1. w \in {x \in Workers : "tomb" \in DOMAIN use[x]}
    <3>1. UseHolds(use[w], tomb, stored)
      BY DEF StorageInv
    <3>2. "tomb" \in DOMAIN use[w]
      BY <1>1, <3>1, Zenon DEF UseHolds
    <3> QED
      BY <3>2
  <2> QED
    BY <2>1 DEF InUse
<1>2. item.gen \in InUse /\ tomb.gen \in InUse /\ tomb.op \in InUse
  BY DEF InUse
<1> QED
  BY <1>1, <1>2, FreshIs

\* What a step does to the item: it goes, keeps its generation and gains no
\* version, or begins with none.
ItemMoves ==
  /\ item'.gen \in Nat /\ (item'.gen = 0 <=> item' = NoItem)
  /\ stored' \subseteq stored
  /\ item' = NoItem => stored' = {}
  /\ item' # NoItem /\ stored' # {} => item # NoItem /\ item'.gen = item.gen

\* What a step does to the tombstone: it stays, goes, or is new and newer than
\* all that is stored.
TombMoves ==
  \/ tomb' = tomb
  \/ tomb' = NoTomb
  \/ /\ tomb'.gen \in Nat /\ tomb'.op \in Nat /\ tomb'.upTo = versions
     /\ tomb'.scope \in {"asset", "remote"}
     /\ \A x \in Workers : Deleting(use[x]) => tomb'.op # use[x].tomb.op

\* A guard that a worker holds stays with it, whatever the others do.
LockMoves(w) ==
  /\ \A x \in Workers \ {w} : itemLock = x => itemLock' = x

\* A step of one worker.
LEMMA OneWorker ==
  ASSUME StorageInv, NEW w \in Workers, NEW what, use' = [use EXCEPT ![w] = what],
         UseHolds(what, tomb', stored'),
         what.at \in {"saving", "removing"} => itemLock' = w,
         what.at = "saving" => what.v \in 1..versions',
         LockMoves(w), ItemMoves, TombMoves,
         versions' \in Nat, versions <= versions', misdeleted' = {}
  PROVE  StorageInv'
<1>1. stored' \subseteq 1..versions'
  BY DEF StorageInv, ItemMoves
<1>2. tomb'.gen \in Nat /\ tomb'.op \in Nat /\ tomb'.upTo \in Nat
  BY DEF StorageInv, TombMoves, NoTomb
<1>3. NamesOlder(item', tomb', stored')
  <2> SUFFICES ASSUME item'.gen # 0, item'.gen = tomb'.gen, NEW v \in stored'
               PROVE  v <= tomb'.upTo
    BY DEF NamesOlder
  <2>1. item # NoItem /\ item'.gen = item.gen /\ v \in stored /\ item.gen # 0
    BY DEF ItemMoves, StorageInv
  <2>2. CASE tomb' = tomb
    BY <2>1, <2>2 DEF StorageInv, NamesOlder
  <2>3. CASE tomb' = NoTomb
    BY <2>3 DEF NoTomb
  <2>4. CASE tomb'.upTo = versions
    BY <2>1, <2>4 DEF StorageInv
  <2> QED
    BY <2>2, <2>3, <2>4 DEF TombMoves
<1>4. DOMAIN use' = Workers /\ use'[w] = what /\ \A x \in Workers \ {w} : use'[x] = use[x]
  BY DEF StorageInv
<1>5. ASSUME NEW x \in Workers \ {w} PROVE UseHolds(use'[x], tomb', stored')
  <2> PICK u : u = use[x]
    OBVIOUS
  <2>1. UseHolds(u, tomb, stored) /\ use'[x] = u
    BY <1>4 DEF StorageInv
  <2>2. Deleting(u) => (tomb'.op = u.tomb.op => tomb' = u.tomb)
    <3> SUFFICES ASSUME Deleting(u), tomb'.op = u.tomb.op PROVE tomb' = u.tomb
      OBVIOUS
    <3>1. u.tomb.op # 0 /\ (tomb.op = u.tomb.op => tomb = u.tomb)
      BY <2>1 DEF UseHolds
    <3>2. tomb' # NoTomb
      BY <3>1 DEF NoTomb
    <3> QED
      BY <3>1, <3>2 DEF TombMoves
  <2>3. u.at = "removing" => \A v \in stored' : v <= u.tomb.upTo
    BY <2>1 DEF UseHolds, ItemMoves
  <2>4. Deleting(u) => "tomb" \in DOMAIN u /\ u.tomb.op \in Nat \ {0} /\ u.tomb.upTo \in Nat
    BY <2>1, Zenon DEF UseHolds
  <2>5. SyncingFrom(u) => u.gen \in Nat /\ {"at", "gen"} \subseteq DOMAIN u
    BY <2>1, Zenon DEF UseHolds
  <2>6. UseHolds(u, tomb', stored')
    BY <2>2, <2>3, <2>4, <2>5, Zenon DEF UseHolds
  <2> QED
    BY <2>1, <2>6
<1>6. ASSUME NEW x \in Workers, Held(x)' PROVE itemLock' = x
  BY <1>4, <1>6 DEF Held, LockMoves, StorageInv
<1>7. item'.gen \in Nat /\ (item'.gen = 0 <=> item' = NoItem) /\ (item' = NoItem => stored' = {})
  BY DEF ItemMoves
<1>8. \A x \in Workers : UseHolds(use'[x], tomb', stored')
  BY <1>4, <1>5
<1>9. ASSUME NEW x \in Workers, use'[x].at = "saving" PROVE use'[x].v \in 1..versions'
  <2>1. CASE x = w
    BY <1>4, <1>9, <2>1
  <2>2. CASE x # w
    <3>1. use'[x] = use[x] /\ use[x].v \in 1..versions /\ versions \in Nat
      BY <1>4, <1>9, <2>2 DEF StorageInv
    <3> QED
      BY <3>1
  <2> QED
    BY <2>1, <2>2
<1>10. tomb' # NoTomb => tomb'.scope \in {"asset", "remote"}
  BY DEF StorageInv, TombMoves
<1> QED
  BY <1>1, <1>2, <1>3, <1>4, <1>6, <1>7, <1>8, <1>9, <1>10 DEF StorageInv

\* A step of no worker.
LEMMA NoWorker ==
  ASSUME StorageInv, UNCHANGED <<use, tomb, itemLock, versions, misdeleted>>, ItemMoves
  PROVE  StorageInv'
<1>1. \A x \in Workers : UseHolds(use[x], tomb, stored')
  <2> TAKE x \in Workers
  <2> PICK u : u = use[x]
    OBVIOUS
  <2>1. UseHolds(u, tomb, stored)
    BY DEF StorageInv
  <2>2. u.at = "removing" => \A v \in stored' : v <= u.tomb.upTo
    BY <2>1 DEF UseHolds, ItemMoves
  <2> QED
    BY <2>1, <2>2, Zenon DEF UseHolds
<1>2. NamesOlder(item', tomb, stored')
  BY DEF StorageInv, ItemMoves, NamesOlder
<1>3. stored' \subseteq 1..versions
  BY DEF StorageInv, ItemMoves
<1>4. item'.gen \in Nat /\ (item'.gen = 0 <=> item' = NoItem) /\ (item' = NoItem => stored' = {})
  BY DEF ItemMoves
<1>5. ASSUME NEW x \in Workers, Held(x)' PROVE itemLock' = x
  BY <1>5 DEF Held, StorageInv
<1>6. ASSUME NEW x \in Workers, use'[x].at = "saving" PROVE use'[x].v \in 1..versions'
  BY <1>6 DEF StorageInv
<1> QED
  BY <1>1, <1>2, <1>3, <1>4, <1>5, <1>6 DEF StorageInv

\* The item as it is.
LEMMA SameItem ==
  ASSUME StorageInv, UNCHANGED <<item, stored>>
  PROVE  ItemMoves
BY DEF StorageInv, ItemMoves

\* Nothing newer is removed with the copy of an item that a deletion names.
LEMMA NothingNewer ==
  ASSUME StorageInv, NEW t, NEW copy, \A v \in stored : v <= t.upTo, t.upTo \in Nat
  PROVE  Removes(t, copy) = {}
<1> PICK n \in Nat : n = t.upTo
  OBVIOUS
<1>1. ASSUME NEW v \in stored PROVE ~(v > n)
  <2>1. v \in Nat /\ v <= n
    BY DEF StorageInv
  <2> QED
    BY <2>1
<1> QED
  BY <1>1 DEF Removes

\* While a tombstone matches the item, nothing newer is stored.
LEMMA NamedIsOlder ==
  ASSUME StorageInv, SameAsset(tomb)
  PROVE  \A v \in stored : v <= tomb.upTo
BY DEF StorageInv, NamesOlder, SameAsset

\* A save as it begins.
Begun(mode, clears) ==
  [at |-> "saving", v |-> versions + 1, mode |-> mode, clears |-> clears,
   put |-> mode = "local", was |-> disk, new |-> item = NoItem]

\* It is a save of the next version.
LEMMA BegunSaves ==
  ASSUME NEW mode, NEW clears
  PROVE  Begun(mode, clears).at = "saving" /\ Begun(mode, clears).v = versions + 1
BY DEF Begun

\* A save that is under way, or fails.
LEMMA SavingKeeps ==
  ASSUME StorageInv, NEW w \in Workers, SaveBegins(w) \/ SavePuts(w) \/ SaveFails(w)
  PROVE  StorageInv'
<1>0. versions \in Nat /\ misdeleted = {} /\ versions <= versions
  BY DEF StorageInv
<1>1. CASE SaveBegins(w)
  <2>1. PICK what : what.at = "saving" /\ what.v = versions + 1 /\ use' = [use EXCEPT ![w] = what]
    <3>1. PICK mode \in {"local", "webdav", "both"}, clears \in BOOLEAN :
            use' = [use EXCEPT ![w] = Begun(mode, clears)]
      BY <1>1, Zenon DEF SaveBegins, Becomes, Begun
    <3>2. Begun(mode, clears).at = "saving" /\ Begun(mode, clears).v = versions + 1
      BY BegunSaves, Zenon
    <3> QED
      BY <3>1, <3>2, Zenon
  <2>2. /\ itemLock = NoLock /\ itemLock' = w /\ versions' = versions + 1
        /\ UNCHANGED <<item, tomb, stored, misdeleted>>
        /\ versions' \in Nat /\ versions <= versions' /\ versions + 1 \in 1..versions'
    BY <1>0, <1>1 DEF SaveBegins
  <2>3. UseHolds(what, tomb', stored')
    BY <2>1 DEF UseHolds, Deleting, SyncingFrom
  <2>4. LockMoves(w) /\ TombMoves /\ ItemMoves
    BY <2>2, StorageAssumption, SameItem DEF LockMoves, TombMoves
  <2> QED
    BY <2>1, <2>2, <2>3, <2>4, <1>0, OneWorker
<1>2. CASE SavePuts(w)
  <2>1. /\ use[w].at = "saving" /\ use' = [use EXCEPT ![w] = [use[w] EXCEPT !.put = TRUE]]
        /\ UNCHANGED <<item, tomb, itemLock, misdeleted, versions, stored>>
    BY <1>2 DEF SavePuts, Becomes, storageBounds
  <2>2. PICK u, what : u = use[w] /\ what = [u EXCEPT !.put = TRUE]
    OBVIOUS
  <2>3. what.at = "saving" /\ what.v = u.v /\ u.v \in 1..versions
    BY <2>1, <2>2 DEF StorageInv
  <2>4. UseHolds(what, tomb', stored')
    BY <2>3 DEF UseHolds, Deleting, SyncingFrom
  <2>5. LockMoves(w) /\ TombMoves /\ ItemMoves /\ itemLock' = w
    BY <2>1, SameItem DEF LockMoves, TombMoves, StorageInv, Held
  <2> QED
    BY <2>1, <2>2, <2>3, <2>4, <2>5, <1>0, OneWorker
<1>3. CASE SaveFails(w)
  <2>1. /\ use[w].at = "saving" /\ use' = [use EXCEPT ![w] = Rest] /\ itemLock' = NoLock
        /\ UNCHANGED <<item, misdeleted, versions, stored>>
    BY <1>3 DEF SaveFails, Becomes, storageBounds
  <2>2. itemLock = w
    BY <2>1 DEF StorageInv, Held
  <2>3. PICK mark : mark = [op |-> Fresh, gen |-> 0, scope |-> "asset", remote |-> TRUE,
                            upTo |-> versions]
    OBVIOUS
  <2>4. tomb' \in {tomb, NoTomb, mark}
    BY <1>3, <2>3, Zenon DEF SaveFails
  <2>5. TombMoves
    <3>1. mark.gen = 0 /\ mark.op = Fresh /\ mark.upTo = versions /\ mark.scope = "asset"
      BY <2>3
    <3> QED
      BY <2>4, <3>1, FreshDiffers DEF TombMoves
  <2>6. UseHolds(Rest, tomb', stored')
    BY DEF Rest, UseHolds, Deleting, SyncingFrom
  <2>7. LockMoves(w) /\ ItemMoves
    BY <2>1, <2>2, SameItem DEF LockMoves
  <2> QED
    BY <2>1, <2>5, <2>6, <2>7, <1>0, OneWorker DEF Rest
<1> QED
  BY <1>1, <1>2, <1>3

\* A save enters the catalog with a generation that no deletion names.
LEMMA SaveKeeps ==
  ASSUME StorageInv, NEW w \in Workers, SaveCommits(w)
  PROVE  StorageInv'
<1>1. /\ use[w].at = "saving" /\ use' = [use EXCEPT ![w] = Rest]
      /\ tomb' \in {tomb, NoTomb} /\ stored' = stored \cup {use[w].v}
      /\ itemLock' = NoLock /\ UNCHANGED <<versions, misdeleted>>
  BY DEF SaveCommits, Becomes
<1>2. /\ itemLock = w /\ use[w].v \in 1..versions /\ versions \in Nat /\ stored \subseteq 1..versions
      /\ tomb.gen \in Nat /\ tomb.op \in Nat /\ tomb.upTo \in Nat
  BY <1>1 DEF StorageInv, Held
<1>3. item'.gen = Fresh
  <2>1. PICK local, webdav : item' = [gen |-> Fresh, size |-> [v |-> use[w].v, packed |-> FALSE],
              local |-> local, webdav |-> webdav, pending |-> FALSE]
    BY Zenon DEF SaveCommits, NewGeneration
  <2> QED
    BY <2>1
<1>4. /\ item'.gen \in Nat /\ item'.gen # 0 /\ item'.gen # tomb.gen /\ item' # NoItem
  BY <1>3, FreshDiffers DEF NoItem
<1>5. tomb'.gen \in Nat /\ tomb'.op \in Nat /\ tomb'.upTo \in Nat /\ item'.gen # tomb'.gen
  BY <1>1, <1>2, <1>4 DEF NoTomb
<1>6. NamesOlder(item', tomb', stored')
  BY <1>5 DEF NamesOlder
<1>7. DOMAIN use' = Workers /\ use'[w] = Rest /\ \A x \in Workers \ {w} : use'[x] = use[x]
  BY <1>1 DEF StorageInv
<1>8. ASSUME NEW x \in Workers \ {w}
      PROVE  ~Held(x) /\ UseHolds(use[x], tomb, stored)
  BY <1>2 DEF StorageInv
<1>9. ASSUME NEW x \in Workers PROVE UseHolds(use'[x], tomb', stored')
  <2>1. CASE x = w
    BY <1>7, <2>1 DEF Rest, UseHolds, Deleting, SyncingFrom
  <2>2. CASE x # w
    <3> PICK u : u = use[x]
      OBVIOUS
    <3>1. UseHolds(u, tomb, stored) /\ u.at # "removing" /\ use'[x] = u
      BY <1>7, <1>8, <2>2 DEF Held
    <3>2. Deleting(u) => (tomb'.op = u.tomb.op => tomb' = u.tomb)
      <4> SUFFICES ASSUME Deleting(u), tomb'.op = u.tomb.op PROVE tomb' = u.tomb
        OBVIOUS
      <4>1. u.tomb.op # 0 /\ (tomb.op = u.tomb.op => tomb = u.tomb)
        BY <3>1 DEF UseHolds
      <4>2. tomb' # NoTomb
        BY <4>1 DEF NoTomb
      <4> QED
        BY <1>1, <4>1, <4>2
    <3>3. UseHolds(u, tomb', stored')
      BY <3>1, <3>2, Zenon DEF UseHolds
    <3> QED
      BY <3>1, <3>3
  <2> QED
    BY <2>1, <2>2
<1>10. ASSUME NEW x \in Workers
       PROVE  use'[x].at \notin {"saving", "removing"}
  BY <1>7, <1>8 DEF Held, Rest
<1>11. stored' \subseteq 1..versions'
  BY <1>1, <1>2
<1>12. \A x \in Workers : (Held(x))' => itemLock' = x
  BY <1>10 DEF Held
<1>14. tomb' # NoTomb => tomb'.scope \in {"asset", "remote"}
  BY <1>1 DEF StorageInv
<1>13. misdeleted' = {}
  BY <1>1 DEF StorageInv
<1> QED
  BY <1>1, <1>2, <1>4, <1>5, <1>6, <1>7, <1>9, <1>10, <1>11, <1>12, <1>13, <1>14 DEF StorageInv

\* The rows of a deletion on its way.
LEMMA DeletionRows ==
  /\ \A t : LET u == [at |-> "prepared", tomb |-> t] IN
       u.at = "prepared" /\ u.tomb = t /\ "tomb" \in DOMAIN u
  /\ \A t, r : LET u == [at |-> "removing", tomb |-> t, removed |-> r] IN
       u.at = "removing" /\ u.tomb = t /\ "tomb" \in DOMAIN u
  /\ \A t, d, r : LET u == [at |-> "finalizing", tomb |-> t, done |-> d, retry |-> r] IN
       u.at = "finalizing" /\ u.tomb = t /\ "tomb" \in DOMAIN u
OBVIOUS

\* A deletion is asked for: its tombstone names the item and all versions.
LEMMA DeleteIsAsked ==
  ASSUME StorageInv, NEW w \in Workers, DeleteImages(w)
  PROVE  StorageInv'
<1>0. /\ versions \in Nat /\ misdeleted = {} /\ versions <= versions
      /\ item.gen \in Nat /\ tomb.gen \in Nat
      /\ Fresh \in Nat \ {0} /\ \A x \in Workers : Deleting(use[x]) => Fresh # use[x].tomb.op
  BY FreshDiffers DEF StorageInv
<1>1. PICK t : t = [op |-> Fresh, scope |-> "asset", upTo |-> versions,
                    gen |-> IF item = NoItem THEN tomb.gen ELSE item.gen,
                    remote |-> item.webdav \/ tomb.remote]
  OBVIOUS
<1>2. /\ tomb' = t /\ use' = [use EXCEPT ![w] = [at |-> "prepared", tomb |-> t]]
      /\ use[w] = Rest /\ UNCHANGED <<item, itemLock, versions, stored, misdeleted>>
  BY <1>1, Zenon DEF DeleteImages, DeletePrepares, Becomes
<1>3. t.op = Fresh /\ t.upTo = versions /\ t.gen \in Nat /\ t.scope = "asset"
  BY <1>0, <1>1
<1>4. PICK u : u = [at |-> "prepared", tomb |-> t]
  OBVIOUS
<1>5. u.at = "prepared" /\ u.tomb = t /\ "tomb" \in DOMAIN u
  BY <1>4, DeletionRows
<1>6. UseHolds(u, tomb', stored')
  BY <1>0, <1>2, <1>3, <1>5 DEF UseHolds, Deleting, SyncingFrom
<1>7. TombMoves /\ ItemMoves /\ LockMoves(w)
  BY <1>0, <1>2, <1>3, SameItem DEF TombMoves, LockMoves
<1> QED
  BY <1>0, <1>2, <1>4, <1>5, <1>6, <1>7, OneWorker

\* What a deletion on its way holds.
LEMMA ADeletion ==
  ASSUME StorageInv, NEW w \in Workers, Deleting(use[w])
  PROVE  /\ "tomb" \in DOMAIN use[w] /\ use[w].tomb.op \in Nat \ {0} /\ use[w].tomb.upTo \in Nat
         /\ tomb.op = use[w].tomb.op => tomb = use[w].tomb
         /\ use[w].at = "removing" => \A v \in stored : v <= use[w].tomb.upTo
<1>1. UseHolds(use[w], tomb, stored)
  BY DEF StorageInv
<1> QED
  BY <1>1, Zenon DEF UseHolds

Follows(u, v) == u.at \in {"removing", "finalizing"} /\ "tomb" \in DOMAIN u /\ u.tomb = v.tomb

\* A deletion goes on, and keeps its tombstone.
LEMMA DeletionGoesOn ==
  ASSUME StorageInv, NEW w \in Workers, Deleting(use[w]), NEW u, Follows(u, use[w]),
         use' = [use EXCEPT ![w] = u],
         u.at = "removing" => itemLock' = w /\ \A v \in stored : v <= use[w].tomb.upTo,
         LockMoves(w), misdeleted' = misdeleted, UNCHANGED <<item, tomb, versions, stored>>
  PROVE  StorageInv'
<1>0. versions \in Nat /\ misdeleted = {} /\ versions <= versions
  BY DEF StorageInv
<1>1. UseHolds(u, tomb', stored')
  BY ADeletion DEF UseHolds, Deleting, SyncingFrom, Follows
<1>2. TombMoves /\ ItemMoves
  BY SameItem DEF TombMoves
<1> QED
  BY <1>0, <1>1, <1>2, OneWorker DEF Follows

\* A deletion removes the file and then the copy, under the guard of the path.
LEMMA DeleteKeepsStorage ==
  ASSUME StorageInv, NEW w \in Workers, DeleteMutates(w) \/ DeleteRemote(w)
  PROVE  StorageInv'
<1>t. PICK t : t = use[w].tomb
  OBVIOUS
<1>u. /\ Deleting(use[w]) /\ misdeleted = {}
      /\ t.upTo \in Nat /\ t.op # 0 /\ (tomb.op = t.op => tomb = t)
  <2>1. Deleting(use[w])
    BY DEF DeleteMutates, DeleteRemote, Deleting
  <2> QED
    BY <1>t, <2>1, ADeletion DEF StorageInv
<1>1. CASE DeleteMutates(w)
  <2>0. UNCHANGED <<item, tomb, versions, stored>> /\ itemLock = NoLock
    BY <1>1 DEF DeleteMutates, storageBounds
  <2>1. CASE SameOperation(t) /\ SameAsset(t)
    <3>1. PICK r : /\ use' = [use EXCEPT ![w] = [at |-> "removing", tomb |-> t, removed |-> r]]
                   /\ misdeleted' = misdeleted \cup Removes(t, disk) /\ itemLock' = w
      BY <1>1, <1>t, <2>1, Zenon DEF DeleteMutates, Becomes
    <3>2. tomb = t
      BY <1>u, <2>1 DEF SameOperation
    <3>3. \A v \in stored : v <= t.upTo
      BY <2>1, <3>2, NamedIsOlder
    <3>4. misdeleted' = misdeleted
      BY <1>u, <3>1, <3>3, NothingNewer
    <3>5. PICK u : u = [at |-> "removing", tomb |-> t, removed |-> r]
      OBVIOUS
    <3>6. u.at = "removing" /\ u.tomb = t /\ "tomb" \in DOMAIN u
      BY <3>5, DeletionRows
    <3>7. LockMoves(w)
      BY <2>0, StorageAssumption DEF LockMoves
    <3>8. Follows(u, use[w])
      BY <1>t, <3>6 DEF Follows
    <3>9. u.at = "removing" => itemLock' = w /\ \A v \in stored : v <= use[w].tomb.upTo
      BY <1>t, <3>1, <3>3
    <3> QED
      BY <1>u, <2>0, <3>1, <3>4, <3>5, <3>7, <3>8, <3>9, DeletionGoesOn
  <2>2. CASE ~(SameOperation(t) /\ SameAsset(t))
    <3>1. PICK u : u = [at |-> "finalizing", tomb |-> t, done |-> FALSE, retry |-> FALSE]
      OBVIOUS
    <3>2. use' = [use EXCEPT ![w] = u] /\ UNCHANGED <<misdeleted, itemLock>>
      BY <1>1, <1>t, <2>2, <3>1, Zenon DEF DeleteMutates, Becomes
    <3>3. u.at = "finalizing" /\ u.tomb = t /\ "tomb" \in DOMAIN u
      BY <3>1, DeletionRows
    <3>4. LockMoves(w)
      BY <3>2 DEF LockMoves
    <3>5. Follows(u, use[w])
      BY <1>t, <3>3 DEF Follows
    <3>6. u.at = "removing" => itemLock' = w /\ \A v \in stored : v <= use[w].tomb.upTo
      BY <3>3
    <3> QED
      BY <1>u, <2>0, <3>2, <3>3, <3>4, <3>5, <3>6, DeletionGoesOn
  <2> QED
    BY <2>1, <2>2
<1>2. CASE DeleteRemote(w)
  <2>0. /\ UNCHANGED <<item, tomb, versions, stored>> /\ use[w].at = "removing"
        /\ itemLock' = NoLock
    BY <1>2 DEF DeleteRemote, storageBounds
  <2>1. PICK d, r : /\ use' = [use EXCEPT ![w] = [at |-> "finalizing", tomb |-> t, done |-> d, retry |-> r]]
                    /\ misdeleted' \in {misdeleted, misdeleted \cup Removes(t, remote)}
    BY <1>2, <1>t, Zenon DEF DeleteRemote, Becomes
  <2>2. \A v \in stored : v <= t.upTo
    BY <1>t, <1>u, <2>0, ADeletion
  <2>3. misdeleted' = misdeleted
    BY <1>u, <2>1, <2>2, NothingNewer
  <2>4. PICK u : u = [at |-> "finalizing", tomb |-> t, done |-> d, retry |-> r]
    OBVIOUS
  <2>5. u.at = "finalizing" /\ u.tomb = t /\ "tomb" \in DOMAIN u
    BY <2>4, DeletionRows
  <2>6. LockMoves(w)
    <3>1. itemLock = w
      BY <2>0 DEF StorageInv, Held
    <3> QED
      BY <3>1 DEF LockMoves
  <2>7. Follows(u, use[w])
    BY <1>t, <2>5 DEF Follows
  <2>8. u.at = "removing" => itemLock' = w /\ \A v \in stored : v <= use[w].tomb.upTo
    BY <2>5
  <2> QED
    BY <1>u, <2>0, <2>1, <2>3, <2>4, <2>6, <2>7, <2>8, DeletionGoesOn
<1> QED
  BY <1>1, <1>2

\* Workers that hold neither a tombstone nor the guard.
Plain(u) ==
  \/ u.at \in {"rest", "compressed", "repair", "clean", "sweep"}
  \/ SyncingFrom(u) /\ u.gen \in Nat /\ {"at", "gen"} \subseteq DOMAIN u

\* A step after which the worker holds neither a tombstone nor the guard.
LEMMA PlainStep ==
  ASSUME StorageInv, NEW w \in Workers, NEW u, Plain(u), use' = [use EXCEPT ![w] = u],
         LockMoves(w), ItemMoves, TombMoves, misdeleted' = misdeleted, versions' = versions
  PROVE  StorageInv'
<1>0. versions \in Nat /\ misdeleted = {} /\ versions <= versions
  BY DEF StorageInv
<1>1. UseHolds(u, tomb', stored') /\ u.at \notin {"saving", "removing"}
  BY DEF Plain, UseHolds, Deleting, SyncingFrom
<1> QED
  BY <1>0, <1>1, OneWorker

\* The rows of such workers.
LEMMA PlainRows ==
  /\ Plain(Rest)
  /\ \A x : Plain([at |-> "compressed", as |-> x])
  /\ \A i, t : \A g \in Nat : Plain([at |-> "synced", item |-> i, gen |-> g, tomb |-> t])
  /\ \A p, m : \A g \in Nat : Plain([at |-> "read", gen |-> g, payload |-> p, marked |-> m])
  /\ \A m : Plain([at |-> "repair", marked |-> m])
  /\ Plain([at |-> "clean"]) /\ Plain([at |-> "sweep"])
<1>1. Plain(Rest) /\ Plain([at |-> "clean"]) /\ Plain([at |-> "sweep"])
  BY DEF Plain, Rest
<1>2. \A x : Plain([at |-> "compressed", as |-> x])
  BY DEF Plain
<1>3. \A m : Plain([at |-> "repair", marked |-> m])
  BY DEF Plain
<1>4. \A i, t : \A g \in Nat : Plain([at |-> "synced", item |-> i, gen |-> g, tomb |-> t])
  BY DEF Plain, SyncingFrom
<1>5. \A p, m : \A g \in Nat : Plain([at |-> "read", gen |-> g, payload |-> p, marked |-> m])
  BY DEF Plain, SyncingFrom
<1> QED
  BY <1>1, <1>2, <1>3, <1>4, <1>5

\* What the item becomes when it is written without a new version.
LEMMA Rewritten ==
  ASSUME StorageInv, item'.gen \in Nat \ {0}, item # NoItem => item'.gen = item.gen,
         stored' = stored
  PROVE  ItemMoves
<1>1. item' # NoItem
  <2>1. NoItem.gen = 0
    BY DEF NoItem
  <2> QED
    BY <2>1
<1>2. item = NoItem => stored = {}
  BY DEF StorageInv
<1> QED
  BY <1>1, <1>2 DEF ItemMoves

\* The item goes, with the versions it had.
LEMMA Gone ==
  ASSUME StorageInv, item' = NoItem, stored' = {}
  PROVE  ItemMoves
BY DEF ItemMoves, NoItem

\* A deletion ends and takes the item with it.
LEMMA FinalizeKeeps ==
  ASSUME StorageInv, NEW w \in Workers, DeleteFinalizes(w)
  PROVE  StorageInv'
<1>t. PICK t : t = use[w].tomb
  OBVIOUS
<1>1. /\ use' = [use EXCEPT ![w] = Rest] /\ UNCHANGED <<itemLock, versions>>
      /\ Deleting(use[w])
  BY DEF DeleteFinalizes, Becomes, Deleting
<1>2. t.upTo \in Nat /\ t.op # 0 /\ (tomb.op = t.op => tomb = t)
  BY <1>t, <1>1, ADeletion
<1>3. tomb' \in {tomb, NoTomb}
  BY Zenon DEF DeleteFinalizes
<1>4. LockMoves(w) /\ TombMoves
  BY <1>1, <1>3 DEF LockMoves, TombMoves
<1>5. CASE UNCHANGED <<item, stored, misdeleted>>
  BY <1>1, <1>4, <1>5, SameItem, PlainRows, PlainStep
<1>6. CASE /\ SameOperation(t) /\ SameAsset(t) /\ item' = NoItem /\ stored' = {}
           /\ misdeleted' = misdeleted \cup Removes(t, item.size)
  <2>1. tomb = t
    BY <1>2, <1>6 DEF SameOperation
  <2>2. \A v \in stored : v <= t.upTo
    BY <1>6, <2>1, NamedIsOlder
  <2>3. misdeleted' = misdeleted
    BY <1>2, <1>6, <2>2, NothingNewer
  <2> QED
    BY <1>1, <1>4, <1>6, <2>3, Gone, PlainRows, PlainStep
<1> QED
  BY <1>5, <1>6, <1>t DEF DeleteFinalizes

\* The gallery is listed, or a local copy is cleaned up.
LEMMA GalleryKeeps ==
  ASSUME StorageInv, ListItems \/ RetentionCleanup \/ SpaceCleanup
  PROVE  StorageInv'
<1>1. UNCHANGED <<use, tomb, itemLock, versions, misdeleted>>
  BY DEF ListItems, RetentionCleanup, SpaceCleanup, DeleteLocalCopies
<1>2. stored' = (IF item' = NoItem THEN {} ELSE stored)
  BY DEF ListItems, RetentionCleanup, SpaceCleanup, DeleteLocalCopies, Listed
<1>3. PICK i : i = item
  OBVIOUS
<1>4. i.gen \in Nat /\ (i.gen = 0 <=> i = NoItem) /\ (i = NoItem => stored = {})
  BY <1>3 DEF StorageInv
<1>5. item' = NoItem \/ (item'.gen \in Nat \ {0} /\ (item # NoItem => item'.gen = item.gen))
  <2>1. CASE ListItems
    <3>1. CASE item = NoItem
      <4>1. PICK n, d : n = Fresh /\ d = disk
        OBVIOUS
      <4>2. item' = NoItem \/ item' = [gen |-> n, size |-> d, local |-> TRUE, webdav |-> FALSE,
                                       pending |-> FALSE]
        BY <2>1, <3>1, <4>1, Zenon DEF ListItems
      <4> QED
        BY <3>1, <4>1, <4>2, FreshDiffers
    <3>2. CASE item # NoItem
      <4>1. \/ item' = NoItem
            \/ item' = [item EXCEPT !.local = FALSE]
            \/ item' = [item EXCEPT !.local = TRUE, !.size = disk,
                              !.pending = @ \/ (item.webdav /\ item.size # disk)]
        BY <2>1, <3>2, Zenon DEF ListItems
      <4>2. [item EXCEPT !.local = FALSE].gen = item.gen
        OBVIOUS
      <4>3. [item EXCEPT !.local = TRUE, !.size = disk,
               !.pending = @ \/ (item.webdav /\ item.size # disk)].gen = item.gen
        OBVIOUS
      <4> QED
        BY <1>3, <1>4, <3>2, <4>1, <4>2, <4>3, Zenon
    <3> QED
      BY <3>1, <3>2
  <2>2. CASE DeleteLocalCopies
    <3>1. item' = NoItem \/ item' = item \/ (item # NoItem /\ item' = [item EXCEPT !.local = FALSE])
      <4>1. item' = (IF item.webdav THEN [item EXCEPT !.local = FALSE] ELSE NoItem) \/ item' = item
        BY <2>2, Zenon DEF DeleteLocalCopies
      <4>2. item.webdav => item # NoItem
        BY DEF NoItem
      <4> QED
        BY <4>1, <4>2, Zenon
    <3>2. [item EXCEPT !.local = FALSE].gen = item.gen
      OBVIOUS
    <3> QED
      BY <1>3, <1>4, <3>1, <3>2, Zenon
  <2> QED
    BY <2>1, <2>2 DEF RetentionCleanup, SpaceCleanup
<1>6. ItemMoves
  <2>1. CASE item' = NoItem
    BY <1>2, <2>1, Gone
  <2>2. CASE item' # NoItem
    BY <1>2, <1>5, <2>2, Rewritten
  <2> QED
    BY <2>1, <2>2
<1> QED
  BY <1>1, <1>6, NoWorker

\* A file is compressed, and the catalog follows.
LEMMA CompressKeeps ==
  ASSUME StorageInv, NEW w \in Workers, CompressReplaces(w) \/ CompressCommits(w)
  PROVE  StorageInv'
<1>1. UNCHANGED <<tomb, itemLock, versions, stored, misdeleted>>
  BY DEF CompressReplaces, CompressCommits, storageBounds
<1>2. LockMoves(w) /\ TombMoves
  BY <1>1 DEF LockMoves, TombMoves
<1>3. CASE CompressReplaces(w)
  <2>1. use' = [use EXCEPT ![w] = [at |-> "compressed", as |-> disk']] /\ item' = item
    BY <1>3 DEF CompressReplaces, Becomes
  <2>2. Plain([at |-> "compressed", as |-> disk'])
    BY PlainRows
  <2> QED
    BY <1>1, <1>2, <2>1, <2>2, SameItem, PlainStep
<1>4. CASE CompressCommits(w)
  <2>1. use' = [use EXCEPT ![w] = Rest]
    BY <1>4 DEF CompressCommits, Becomes
  <2>2. PICK g : g = IF item = NoItem THEN Fresh ELSE item.gen
    OBVIOUS
  <2>3. g \in Nat \ {0} /\ (item # NoItem => g = item.gen)
    BY <2>2, FreshDiffers DEF StorageInv
  <2>4. item' = item \/ item'.gen = g
    <3>1. PICK d, r, p :
            item' = item \/ item' = [gen |-> g, size |-> d, local |-> TRUE, webdav |-> r, pending |-> p]
      BY <1>4, <2>2, Zenon DEF CompressCommits
    <3> QED
      BY <3>1
  <2>5. ItemMoves
    BY <1>1, <2>3, <2>4, SameItem, Rewritten
  <2> QED
    BY <1>1, <1>2, <2>1, <2>5, PlainRows, PlainStep
<1> QED
  BY <1>3, <1>4

\* A synchronisation reads and uploads; it changes neither item nor tombstone.
LEMMA SyncReadsKeep ==
  ASSUME StorageInv, NEW w \in Workers, SyncBegins(w) \/ SyncReads(w) \/ SyncPuts(w)
  PROVE  StorageInv'
<1>1. UNCHANGED <<item, tomb, itemLock, versions, stored, misdeleted>>
  BY DEF SyncBegins, SyncReads, SyncPuts, storageBounds
<1>2. LockMoves(w) /\ TombMoves /\ ItemMoves
  BY <1>1, SameItem DEF LockMoves, TombMoves
<1>3. PICK u : u = use[w]
  OBVIOUS
<1>4. SyncingFrom(u) => u.gen \in Nat /\ {"at", "gen"} \subseteq DOMAIN u
  <2>1. UseHolds(u, tomb, stored)
    BY <1>3 DEF StorageInv
  <2> QED
    BY <2>1, Zenon DEF UseHolds
<1>5. PICK z : Plain(z) /\ use' = [use EXCEPT ![w] = z]
  <2>1. CASE SyncBegins(w)
    <3>1. item.gen \in Nat
      BY DEF StorageInv
    <3>2. use' = [use EXCEPT ![w] = [at |-> "synced", item |-> item, gen |-> item.gen, tomb |-> tomb]]
      BY <2>1 DEF SyncBegins, Becomes
    <3> QED
      BY <3>1, <3>2, PlainRows
  <2>2. CASE SyncReads(w)
    <3>1. u.gen \in Nat
      BY <1>3, <1>4, <2>2 DEF SyncReads, SyncingFrom
    <3>2. PICK p, m : use' \in {[use EXCEPT ![w] = [at |-> "sweep"]], [use EXCEPT ![w] = Rest],
               [use EXCEPT ![w] = [at |-> "read", gen |-> u.gen, payload |-> p, marked |-> m]]}
      BY <2>2, <1>3, Zenon DEF SyncReads, Becomes
    <3>3. PICK z : z = [at |-> "read", gen |-> u.gen, payload |-> p, marked |-> m]
      OBVIOUS
    <3>4. Plain(z)
      BY <3>1, <3>3, PlainRows
    <3> QED
      BY <3>2, <3>3, <3>4, PlainRows
  <2>3. CASE SyncPuts(w)
    <3>1. u.gen \in Nat /\ {"at", "gen"} \subseteq DOMAIN u
      BY <1>3, <1>4, <2>3 DEF SyncPuts, SyncingFrom
    <3>2. PICK z : z = [u EXCEPT !.at = "put"]
      OBVIOUS
    <3>3. \/ use' = [use EXCEPT ![w] = z]
          \/ use' = [use EXCEPT ![w] = [at |-> "clean"]]
      BY <2>3, <1>3, <3>2, Zenon DEF SyncPuts, Becomes
    <3>4. z.at = "put" /\ z.gen = u.gen /\ DOMAIN z = DOMAIN u
      BY <3>1, <3>2
    <3>5. Plain(z)
      BY <3>1, <3>4 DEF Plain, SyncingFrom
    <3> QED
      BY <3>3, <3>5, PlainRows
  <2> QED
    BY <2>1, <2>2, <2>3
<1> QED
  BY <1>1, <1>2, <1>5, PlainStep

\* A synchronisation writes the item of what it uploaded, or repairs it.
LEMMA SyncWritesKeep ==
  ASSUME StorageInv, NEW w \in Workers, SyncCommits(w) \/ SyncRepairs(w)
  PROVE  StorageInv'
<1>1. UNCHANGED <<tomb, itemLock, versions, stored, misdeleted>>
  BY DEF SyncCommits, SyncRepairs, storageBounds
<1>2. LockMoves(w) /\ TombMoves
  BY <1>1 DEF LockMoves, TombMoves
<1>3. PICK u : u = use[w]
  OBVIOUS
<1>4. SyncingFrom(u) => u.gen \in Nat
  <2>1. UseHolds(u, tomb, stored)
    BY <1>3 DEF StorageInv
  <2> QED
    BY <2>1, Zenon DEF UseHolds
<1>5. CASE SyncCommits(w)
  <2>0. u.gen \in Nat
    BY <1>3, <1>4, <1>5 DEF SyncCommits, SyncingFrom
  <2>1. PICK g : g = IF item # NoItem THEN item.gen ELSE IF u.gen # 0 THEN u.gen ELSE Fresh
    OBVIOUS
  <2>2. g \in Nat \ {0} /\ (item # NoItem => g = item.gen)
    BY <2>0, <2>1, FreshDiffers DEF StorageInv
  <2>3. item' = item \/ item'.gen = g
    <3>1. PICK d, p : item' = item
            \/ item' = [gen |-> g, size |-> d, local |-> TRUE, webdav |-> TRUE, pending |-> p]
      BY <1>3, <1>5, <2>1, Zenon DEF SyncCommits
    <3> QED
      BY <3>1
  <2>4. ItemMoves
    BY <1>1, <2>2, <2>3, SameItem, Rewritten
  <2>5. PICK z : Plain(z) /\ use' = [use EXCEPT ![w] = z]
    <3>1. PICK m : use' \in {[use EXCEPT ![w] = [at |-> "clean"]], [use EXCEPT ![w] = [at |-> "sweep"]],
                    [use EXCEPT ![w] = Rest], [use EXCEPT ![w] = [at |-> "repair", marked |-> m]]}
      BY <1>3, <1>5, Zenon DEF SyncCommits, Becomes
    <3> QED
      BY <3>1, PlainRows
  <2> QED
    BY <1>1, <1>2, <2>4, <2>5, PlainStep
<1>6. CASE SyncRepairs(w)
  <2>1. PICK g : g = IF item = NoItem THEN Fresh ELSE item.gen
    OBVIOUS
  <2>2. g \in Nat \ {0} /\ (item # NoItem => g = item.gen)
    BY <2>1, FreshDiffers DEF StorageInv
  <2>3. item' = item \/ item'.gen = g
    <3>1. PICK d : item' = item
            \/ item' = [gen |-> g, size |-> d, local |-> TRUE, webdav |-> TRUE, pending |-> FALSE]
      BY <1>6, <2>1, Zenon DEF SyncRepairs
    <3> QED
      BY <3>1
  <2>4. ItemMoves
    BY <1>1, <2>2, <2>3, SameItem, Rewritten
  <2>5. PICK z : Plain(z) /\ use' = [use EXCEPT ![w] = z]
    <3>1. use' \in {[use EXCEPT ![w] = [at |-> "clean"]], [use EXCEPT ![w] = [at |-> "sweep"]],
                    [use EXCEPT ![w] = Rest]}
      BY <1>6, Zenon DEF SyncRepairs, Becomes
    <3> QED
      BY <3>1, PlainRows
  <2> QED
    BY <1>1, <1>2, <2>4, <2>5, PlainStep
<1> QED
  BY <1>5, <1>6

\* A synchronisation marks an upload nobody wants, or replays the tombstone.
LEMMA SweepKeeps ==
  ASSUME StorageInv, NEW w \in Workers, SyncMarks(w) \/ SyncSweeps(w)
  PROVE  StorageInv'
<1>0. versions \in Nat /\ misdeleted = {} /\ tomb.upTo \in Nat
  BY DEF StorageInv
<1>1. CASE SyncMarks(w)
  <2>1. /\ UNCHANGED <<item, itemLock, versions, stored, misdeleted>>
        /\ use' = [use EXCEPT ![w] = [at |-> "sweep"]]
    BY <1>1 DEF SyncMarks, storageBounds, Becomes
  <2>2. PICK t : t = [op |-> Fresh, gen |-> 0, scope |-> "remote", remote |-> TRUE, upTo |-> versions]
    OBVIOUS
  <2>3. t.op = Fresh /\ t.gen = 0 /\ t.upTo = versions /\ t.scope = "remote"
    BY <2>2
  <2>4. tomb' \in {tomb, t}
    BY <1>1, <2>2, Zenon DEF SyncMarks
  <2>5. TombMoves /\ ItemMoves /\ LockMoves(w)
    BY <2>1, <2>3, <2>4, FreshDiffers, SameItem DEF TombMoves, LockMoves
  <2> QED
    BY <2>1, <2>5, PlainRows, PlainStep
<1>2. CASE SyncSweeps(w)
  <2>1. /\ UNCHANGED <<itemLock, versions>> /\ use' = [use EXCEPT ![w] = Rest]
        /\ tomb' \in {tomb, NoTomb}
    BY <1>2, Zenon DEF SyncSweeps, Becomes
  <2>2. LockMoves(w) /\ TombMoves
    BY <2>1 DEF LockMoves, TombMoves
  <2>3. CASE UNCHANGED <<item, stored, misdeleted>>
    BY <2>1, <2>2, <2>3, SameItem, PlainRows, PlainStep
  <2>4. CASE ~UNCHANGED <<item, stored, misdeleted>>
    <3>1. ~Superseded
      BY <1>2, <2>4 DEF SyncSweeps
    <3>2. \A v \in stored : v <= tomb.upTo
      <4>1. CASE tomb.scope = "asset"
        BY <3>1, <4>1, NamedIsOlder DEF Superseded
      <4>2. CASE tomb.scope = "remote"
        <5>1. stored = {}
          BY <3>1, <4>2 DEF Superseded, StorageInv
        <5> QED
          BY <5>1
      <4> QED
        <5>1. tomb # NoTomb
          BY <1>2, <2>4 DEF SyncSweeps
        <5> QED
          BY <4>1, <4>2, <5>1 DEF StorageInv
    <3>3. \A copy : Removes(tomb, copy) = {}
      BY <1>0, <3>2, NothingNewer
    <3>4. misdeleted' = misdeleted
      BY <1>0, <1>2, <2>4, <3>3 DEF SyncSweeps
    <3>5. UNCHANGED <<item, stored>> \/ (item' = NoItem /\ stored' = {})
      BY <1>2, <2>4 DEF SyncSweeps, Listed
    <3>6. ItemMoves
      BY <3>5, SameItem, Gone
    <3> QED
      BY <2>1, <2>2, <3>4, <3>6, PlainRows, PlainStep
  <2> QED
    BY <2>3, <2>4
<1> QED
  BY <1>1, <1>2

\* The process of a worker ends.
LEMMA DeathKeepsStorage ==
  ASSUME StorageInv, NEW w \in Workers, WorkerDies(w)
  PROVE  StorageInv'
<1>1. /\ UNCHANGED <<item, tomb, versions, stored, misdeleted>>
      /\ use' = [use EXCEPT ![w] = Rest]
      /\ itemLock' = IF itemLock = w THEN NoLock ELSE itemLock
  BY DEF WorkerDies, Becomes
<1>2. LockMoves(w) /\ TombMoves /\ ItemMoves
  BY <1>1, SameItem DEF LockMoves, TombMoves
<1> QED
  BY <1>1, <1>2, PlainRows, PlainStep

\* One version is in the library and nothing has been asked for.
LEMMA InitStorage == StorageInit => StorageInv
<1> SUFFICES ASSUME StorageInit PROVE StorageInv
  OBVIOUS
<1>1. item.gen = 1 /\ item # NoItem
  <2>1. PICK s \in BOOLEAN : item = [gen |-> 1, size |-> disk, local |-> TRUE, webdav |-> s, pending |-> FALSE]
    BY DEF StorageInit
  <2>2. item.gen = 1
    BY <2>1
  <2> QED
    BY <2>2 DEF NoItem
<1>2. tomb = NoTomb /\ NoTomb.gen = 0 /\ NoTomb.op = 0 /\ NoTomb.upTo = 0
  BY DEF StorageInit, NoTomb
<1>3. ASSUME NEW w \in Workers
      PROVE  UseHolds(use[w], tomb, stored) /\ ~Held(w) /\ use[w].at # "saving"
  <2>1. use[w].at = "rest"
    BY DEF StorageInit, Rest
  <2> QED
    BY <2>1 DEF UseHolds, Deleting, SyncingFrom, Held
<1>4. DOMAIN use = Workers
  BY DEF StorageInit
<1>5. versions = 1 /\ stored = {1} /\ misdeleted = {}
  BY DEF StorageInit
<1>6. NamesOlder(item, tomb, stored)
  BY <1>1, <1>2 DEF NamesOlder
<1> QED
  BY <1>1, <1>2, <1>3, <1>4, <1>5, <1>6 DEF StorageInv

\* One step of a worker, the gallery or the cleanup.
LEMMA StorageStep == StorageInv /\ [StorageNext]_storageVars => StorageInv'
<1> SUFFICES ASSUME StorageInv, [StorageNext]_storageVars PROVE StorageInv'
  OBVIOUS
<1>1. ASSUME NEW w \in Workers, SaveBegins(w) \/ SavePuts(w) \/ SaveCommits(w) \/ SaveFails(w)
      PROVE  StorageInv'
  BY <1>1, SavingKeeps, SaveKeeps
<1>2. ASSUME NEW w \in Workers,
             DeleteImages(w) \/ DeleteMutates(w) \/ DeleteRemote(w) \/ DeleteFinalizes(w)
      PROVE  StorageInv'
  BY <1>2, DeleteIsAsked, DeleteKeepsStorage, FinalizeKeeps
<1>3. ASSUME NEW w \in Workers, CompressReplaces(w) \/ CompressCommits(w) PROVE StorageInv'
  BY <1>3, CompressKeeps
<1>4. ASSUME NEW w \in Workers,
             \/ SyncBegins(w) \/ SyncReads(w) \/ SyncPuts(w) \/ SyncCommits(w)
             \/ SyncRepairs(w) \/ SyncMarks(w) \/ SyncSweeps(w)
      PROVE  StorageInv'
  BY <1>4, SyncReadsKeep, SyncWritesKeep, SweepKeeps
<1>5. ASSUME NEW w \in Workers, WorkerDies(w) PROVE StorageInv'
  BY <1>5, DeathKeepsStorage
<1>6. CASE ListItems \/ RetentionCleanup \/ SpaceCleanup
  BY <1>6, GalleryKeeps
<1>7. CASE UNCHANGED storageVars
  <2>1. UNCHANGED <<use, tomb, itemLock, versions, misdeleted, item, stored>>
    BY <1>7 DEF storageVars
  <2> QED
    BY <2>1, SameItem, NoWorker
<1> QED
  BY <1>1, <1>2, <1>3, <1>4, <1>5, <1>6, <1>7 DEF StorageNext

\* docs/adr/0003: a deletion, interrupted, late or replayed by a synchronisation,
\* never removes the file or the copy of a version saved after it was asked for.
THEOREM NewVersionsAreSpared == StorageSpec => []OldDeletesSpareNewVersions
<1>1. StorageInv => OldDeletesSpareNewVersions
  BY DEF StorageInv, OldDeletesSpareNewVersions
<1> QED
  BY <1>1, InitStorage, StorageStep, PTL DEF StorageSpec

-----------------------------------------------------------------------------
(* Finished results: what is charged for them, and what is removed.        *)

Charges == [job : SUBSET ResultJobs, known : BOOLEAN]

\* An account has been charged once for the results whose keys it knows, and a
\* charge on its way to the job row is one of them.
ChargesInv ==
  /\ recording \in [Recorders -> Charges]
  /\ charged = [j \in ResultJobs |-> IF j \in seenKeys THEN 1 ELSE 0]
  /\ \A a \in Recorders : recording[a].known => recording[a].job \subseteq seenKeys

\* What the row r of job j says, while p tells how far the removal is, the account
\* knows the keys S, and workers hold files of the jobs W: whoever succeeded has
\* consumed, what is accounted was charged, a worker's job is queued, and a
\* removal that has begun leaves nothing to charge, not even for a job that was
\* queued again since.
RowHolds(r, j, p, S, W) ==
  /\ r.accounted => j \in S
  /\ j \in W => r.status = "queued"
  /\ r.status = "success" => r.consumed
  /\ p # "idle" => (r.consumed \/ r.status = "queued" => r.accounted)

RowsInv ==
  /\ jobs = <<>> \/ jobs \in [ResultJobs -> JobRow]
  /\ jobs # <<>> => \A j \in ResultJobs : RowHolds(jobs[j], j, purge, seenKeys, writing)

DeliveryInv == ChargesInv /\ RowsInv /\ AcknowledgedIsTerminal

\* A task with a job is not a removed one.
LEMMA TaskOfAJob ==
  ASSUME NEW f \in [ResultJobs -> JobRow], NEW j \in ResultJobs
  PROVE  f # <<>>
  OBVIOUS

\* What a row of a task is.
LEMMA JobRows ==
  \A r \in JobRow :
    /\ r.status \in {"queued", "success", "failed"} /\ r.consumed \in BOOLEAN
    /\ r.accounted \in BOOLEAN /\ r.attempts \in 0..MaxAccountingAttempts
  BY DEF JobRow

\* The ways a step changes a row of a job.
LEMMA JobRowChanges ==
  ASSUME NEW r \in JobRow
  PROVE  /\ LET s == [r EXCEPT !.status = "success", !.payload = TRUE, !.consumed = TRUE]
            IN  s \in JobRow /\ s.status = "success" /\ s.consumed /\ s.accounted = r.accounted
         /\ LET s == [r EXCEPT !.status = "failed"]
            IN  s \in JobRow /\ s.status = "failed" /\ s.consumed = r.consumed
                /\ s.accounted = r.accounted
         /\ LET s == [r EXCEPT !.status = "failed", !.payload = FALSE]
            IN  s \in JobRow /\ s.status = "failed" /\ s.consumed = r.consumed
                /\ s.accounted = r.accounted
         /\ LET s == [r EXCEPT !.status = "queued", !.payload = FALSE]
            IN  s \in JobRow /\ s.status = "queued" /\ s.consumed = r.consumed
                /\ s.accounted = r.accounted
         /\ LET s == [r EXCEPT !.payload = FALSE]
            IN  s \in JobRow /\ s.status = r.status /\ s.consumed = r.consumed
                /\ s.accounted = r.accounted
         /\ LET s == [r EXCEPT !.accounted = TRUE]
            IN  s \in JobRow /\ s.status = r.status /\ s.consumed = r.consumed /\ s.accounted
  BY DEF JobRow

\* A failed attempt to charge is counted.
LEMMA AttemptIsCounted ==
  ASSUME NEW r \in JobRow, r.attempts < MaxAccountingAttempts
  PROVE  LET s == [r EXCEPT !.attempts = r.attempts + 1]
         IN  s \in JobRow /\ s.status = r.status /\ s.consumed = r.consumed
             /\ s.accounted = r.accounted
<1>1. r.attempts + 1 \in 0..MaxAccountingAttempts
  BY DeliveryAssumption DEF JobRow
<1> QED
  BY <1>1 DEF JobRow

\* A step that changes one row of a task that is there.
LEMMA OneRowChanges ==
  ASSUME RowsInv, AcknowledgedIsTerminal, TaskExists,
         NEW j \in ResultJobs, NEW r \in JobRow, jobs' = [jobs EXCEPT ![j] = r],
         seenKeys' = seenKeys, purge' = purge, writing' \ {j} \subseteq writing,
         RowHolds(r, j, purge, seenKeys, writing'),
         \/ delivery'.status # "acked"
         \/ delivery' = delivery /\ (jobs[j].status = "queued" \/ r.status # "queued")
  PROVE  RowsInv' /\ AcknowledgedIsTerminal'
<1>1. jobs \in [ResultJobs -> JobRow]
  BY DEF RowsInv, TaskExists
<1>2. jobs' \in [ResultJobs -> JobRow]
  BY <1>1
<1>3. jobs'[j] = r /\ \A k \in ResultJobs \ {j} : jobs'[k] = jobs[k]
  BY <1>1
<1>4. \A k \in ResultJobs : RowHolds(jobs'[k], k, purge', seenKeys', writing')
  <2>1. \A k \in ResultJobs \ {j} : RowHolds(jobs[k], k, purge, seenKeys, writing)
    BY DEF RowsInv, TaskExists
  <2> QED
    BY <1>3, <2>1 DEF RowHolds
<1>5. ASSUME TaskTerminal, jobs[j].status = "queued" \/ r.status # "queued"
      PROVE  TaskTerminal'
  BY <1>1, <1>2, <1>3, <1>5, TaskOfAJob DEF TaskTerminal, TaskExists
<1> QED
  BY <1>2, <1>4, <1>5 DEF RowsInv, AcknowledgedIsTerminal, TaskExists

\* A step that changes no row, and neither the removal nor the delivery but to
\* undo them.
LEMMA NoRowChanges ==
  ASSUME RowsInv, AcknowledgedIsTerminal, jobs' = jobs,
         seenKeys \subseteq seenKeys', purge' \in {purge, "idle"},
         writing' \subseteq writing \cup {j \in ResultJobs : jobs[j].status = "queued"},
         delivery'.status = "acked" => delivery.status = "acked"
  PROVE  RowsInv' /\ AcknowledgedIsTerminal'
<1>1. \A j \in ResultJobs :
        RowHolds(jobs[j], j, purge, seenKeys, writing)
          => RowHolds(jobs[j], j, purge', seenKeys', writing')
  BY DEF RowHolds
<1> QED
  BY <1>1 DEF RowsInv, AcknowledgedIsTerminal, TaskExists, TaskTerminal
\* What the account knows is left alone by a step that starts charges, or drops
\* them.
LEMMA NothingCharged ==
  ASSUME ChargesInv, UNCHANGED <<charged, seenKeys>>,
         recording' \in [Recorders -> Charges],
         \A a \in Recorders : recording'[a] = recording[a] \/ ~recording'[a].known
  PROVE  ChargesInv'
  BY DEF ChargesInv

\* An accounting that begins, or ends without its charge, leaves the charges alone.
LEMMA ChargeStarts ==
  ASSUME ChargesInv, UNCHANGED <<charged, seenKeys>>, NEW a \in Recorders,
         NEW S \in SUBSET ResultJobs,
         \/ recording' = [recording EXCEPT ![a] = [job |-> S, known |-> FALSE]]
         \/ recording' = [recording EXCEPT ![a] = NotRecording]
         \/ recording' = recording
  PROVE  ChargesInv'
<1>1. NotRecording \in Charges /\ ~NotRecording.known
  BY DEF NotRecording, Charges
<1>2. [job |-> S, known |-> FALSE] \in Charges
  BY DEF Charges
<1>3. recording \in [Recorders -> Charges]
  BY DEF ChargesInv
<1>4. recording' \in [Recorders -> Charges]
  BY <1>1, <1>2, <1>3
<1>5. \A b \in Recorders : recording'[b] = recording[b] \/ ~recording'[b].known
  BY <1>1, <1>3
<1> QED
  BY <1>4, <1>5, NothingCharged

\* The row of a job of a task that is there.
LEMMA RowOfAJob ==
  ASSUME RowsInv, TaskExists, NEW j \in ResultJobs
  PROVE  /\ jobs \in [ResultJobs -> JobRow] /\ jobs[j] \in JobRow
         /\ RowHolds(jobs[j], j, purge, seenKeys, writing)
  BY DEF RowsInv, TaskExists

\* The worker.
LEMMA WorkerKeepsDelivery ==
  ASSUME DeliveryInv, NEW j \in ResultJobs, PersistFinal(j) \/ CompleteJob(j) \/ WorkerStops(j)
  PROVE  DeliveryInv'
<1>1. "claim" \in Recorders /\ {j} \in SUBSET ResultJobs
  BY DEF Recorders
<1>2. CASE PersistFinal(j)
  <2>1. UNCHANGED <<jobs, delivery, purge, seenKeys, charged, recording>>
    BY <1>2 DEF PersistFinal
  <2>2. writing' \subseteq writing \cup {k \in ResultJobs : jobs[k].status = "queued"}
    BY <1>2 DEF PersistFinal
  <2> QED
    BY <1>1, <2>1, <2>2, NoRowChanges, ChargeStarts DEF DeliveryInv
<1>3. CASE CompleteJob(j)
  <2>1. TaskExists /\ UNCHANGED <<delivery, purge, seenKeys, charged>>
    BY <1>3 DEF CompleteJob
  <2>2. PICK o \in JobRow : o = jobs[j] /\ RowHolds(o, j, purge, seenKeys, writing)
    BY <2>1, RowOfAJob DEF DeliveryInv
  <2>3. PICK r \in JobRow : /\ r = [o EXCEPT !.status = "success", !.payload = TRUE, !.consumed = TRUE]
                            /\ r.status = "success" /\ r.consumed /\ r.accounted = o.accounted
    BY ZenonT(60), JobRowChanges
  <2>4. jobs' = [jobs EXCEPT ![j] = r]
    BY <1>3, <2>2, <2>3 DEF CompleteJob
  <2>5. j \in writing
    BY <1>3 DEF CompleteJob
  <2>6. ChargesInv'
    BY <1>1, <1>3, <2>1, ChargeStarts DEF CompleteJob, DeliveryInv
  <2> QED
    BY <1>3, <2>1, <2>2, <2>3, <2>4, <2>5, <2>6, OneRowChanges
       DEF CompleteJob, DeliveryInv, RowHolds
<1>4. CASE WorkerStops(j)
  <2>1. /\ TaskExists /\ UNCHANGED <<delivery, purge, seenKeys, charged, recording>>
        /\ jobs[j].status = "queued" /\ writing' = writing \ {j}
    BY <1>4 DEF WorkerStops
  <2>2. ChargesInv'
    BY <1>1, <2>1, ChargeStarts DEF DeliveryInv
  <2>3. CASE jobs' = jobs
    BY <2>1, <2>2, <2>3, NoRowChanges DEF DeliveryInv
  <2>4. CASE jobs' = [jobs EXCEPT ![j].status = "failed"]
    <3>1. PICK o \in JobRow : o = jobs[j] /\ RowHolds(o, j, purge, seenKeys, writing)
      BY <2>1, RowOfAJob DEF DeliveryInv
    <3>2. PICK r \in JobRow : /\ r = [o EXCEPT !.status = "failed"]
                              /\ r.status = "failed" /\ r.consumed = o.consumed
                              /\ r.accounted = o.accounted
      BY ZenonT(60), JobRowChanges
    <3>3. jobs' = [jobs EXCEPT ![j] = r]
      BY <2>4, <3>1, <3>2
    <3>4. RowHolds(r, j, purge, seenKeys, writing')
      BY <2>1, <3>1, <3>2 DEF RowHolds
    <3> QED
      BY <2>1, <2>2, <3>1, <3>2, <3>3, <3>4, OneRowChanges DEF DeliveryInv
  <2> QED
    BY <1>4, <2>3, <2>4 DEF WorkerStops
<1> QED
  BY <1>2, <1>3, <1>4
\* Charges.
LEMMA ChargeKeepsDelivery ==
  ASSUME DeliveryInv, NEW a \in Recorders, NEW j \in ResultJobs,
         Record(a, j) \/ RecordFails(a, j) \/ MarkAccounted(a, j)
  PROVE  DeliveryInv'
<1>1. recording \in [Recorders -> Charges]
  BY DEF DeliveryInv, ChargesInv
<1>2. CASE Record(a, j)
  <2>1. /\ UNCHANGED <<jobs, delivery, purge, writing>>
        /\ recording[a] = [job |-> {j}, known |-> FALSE]
        /\ seenKeys' = seenKeys \cup {j}
        /\ charged' = [charged EXCEPT ![j] = IF j \in seenKeys THEN @ ELSE @ + 1]
        /\ recording' = [recording EXCEPT ![a].known = TRUE]
    BY <1>2 DEF Record, ExistingKeys
  <2>2. charged' = [k \in ResultJobs |-> IF k \in seenKeys' THEN 1 ELSE 0]
    <3>1. charged = [k \in ResultJobs |-> IF k \in seenKeys THEN 1 ELSE 0]
      BY DEF DeliveryInv, ChargesInv
    <3>2. charged'[j] = 1
      BY <2>1, <3>1
    <3>3. \A k \in ResultJobs \ {j} : charged'[k] = charged[k]
      BY <2>1, <3>1
    <3>4. charged' = [k \in ResultJobs |-> charged'[k]]
      BY <2>1, <3>1
    <3>5. \A k \in ResultJobs : charged'[k] = IF k \in seenKeys' THEN 1 ELSE 0
      BY <2>1, <3>1, <3>2, <3>3
    <3> QED
      BY <3>4, <3>5
  <2>3. recording'[a].job = {j}
    <3>1. PICK c \in Charges : c = recording[a]
      BY <1>1
    <3>2. recording'[a] = [c EXCEPT !.known = TRUE]
      BY <1>1, <2>1, <3>1
    <3>3. c.job = {j}
      BY <2>1, <3>1
    <3> QED
      BY <3>2, <3>3 DEF Charges
  <2>4. \A b \in Recorders \ {a} : recording'[b] = recording[b]
    BY <1>1, <2>1
  <2>5. recording' \in [Recorders -> Charges]
    BY <1>1, <2>1 DEF Charges
  <2>6. ChargesInv'
    BY <2>1, <2>2, <2>3, <2>4, <2>5 DEF DeliveryInv, ChargesInv
  <2> QED
    BY <2>1, <2>6, NoRowChanges DEF DeliveryInv
<1>3. CASE RecordFails(a, j)
  <2>1. /\ recording' = [recording EXCEPT ![a] = NotRecording]
        /\ UNCHANGED <<charged, seenKeys, delivery, purge, writing>>
    BY <1>3 DEF RecordFails
  <2>2. ChargesInv'
    BY <2>1, ChargeStarts DEF DeliveryInv
  <2>3. CASE jobs' = jobs
    BY <2>1, <2>2, <2>3, NoRowChanges DEF DeliveryInv
  <2>4. CASE /\ Unaccounted(j) /\ jobs[j].attempts < MaxAccountingAttempts
             /\ jobs' = [jobs EXCEPT ![j].attempts = @ + 1]
    <3>0. TaskExists
      BY <2>4 DEF Unaccounted
    <3>1. PICK o \in JobRow : o = jobs[j] /\ RowHolds(o, j, purge, seenKeys, writing)
      BY <3>0, RowOfAJob DEF DeliveryInv
    <3>2. PICK r \in JobRow : /\ r = [o EXCEPT !.attempts = o.attempts + 1]
                              /\ r.status = o.status /\ r.consumed = o.consumed
                              /\ r.accounted = o.accounted
      <4>1. o.attempts < MaxAccountingAttempts
        BY <2>4, <3>1
      <4> QED
        BY <4>1, AttemptIsCounted
    <3>3. jobs' = [jobs EXCEPT ![j] = r]
      <4>1. jobs' = [jobs EXCEPT ![j] = [jobs[j] EXCEPT !.attempts = jobs[j].attempts + 1]]
        BY <2>4
      <4> QED
        BY <3>1, <3>2, <4>1
    <3>4. RowHolds(r, j, purge, seenKeys, writing')
      BY <2>1, <3>1, <3>2 DEF RowHolds
    <3> QED
      BY <2>1, <2>2, <3>0, <3>1, <3>2, <3>3, <3>4, OneRowChanges DEF DeliveryInv
  <2> QED
    BY <1>3, <2>3, <2>4 DEF RecordFails
<1>4. CASE MarkAccounted(a, j)
  <2>1. /\ recording' = [recording EXCEPT ![a] = NotRecording]
        /\ recording[a] = [job |-> {j}, known |-> TRUE]
        /\ UNCHANGED <<charged, seenKeys, delivery, purge, writing>>
    BY <1>4 DEF MarkAccounted, RecordingOf
  <2>2. ChargesInv'
    BY <2>1, ChargeStarts DEF DeliveryInv
  <2>3. CASE jobs' = jobs
    BY <2>1, <2>2, <2>3, NoRowChanges DEF DeliveryInv
  <2>4. CASE Unaccounted(j) /\ jobs' = [jobs EXCEPT ![j].accounted = TRUE]
    <3>0. TaskExists
      BY <2>4 DEF Unaccounted
    <3>1. PICK o \in JobRow : o = jobs[j] /\ RowHolds(o, j, purge, seenKeys, writing)
      BY <3>0, RowOfAJob DEF DeliveryInv
    <3>2. PICK r \in JobRow : /\ r = [o EXCEPT !.accounted = TRUE]
                              /\ r.status = o.status /\ r.consumed = o.consumed
                              /\ r.accounted
      BY JobRowChanges
    <3>3. jobs' = [jobs EXCEPT ![j] = r]
      BY <2>4, <3>1, <3>2
    <3>4. j \in seenKeys
      BY <2>1 DEF DeliveryInv, ChargesInv
    <3>5. RowHolds(r, j, purge, seenKeys, writing')
      BY <2>1, <3>1, <3>2, <3>4 DEF RowHolds
    <3> QED
      BY <2>1, <2>2, <3>0, <3>1, <3>2, <3>3, <3>5, OneRowChanges DEF DeliveryInv
  <2> QED
    BY <1>4, <2>3, <2>4 DEF MarkAccounted
<1> QED
  BY <1>2, <1>3, <1>4

\* Steps that move no row and charge nothing: what they do change.
QuietDelivery ==
  /\ UNCHANGED <<jobs, charged, seenKeys>>
  /\ purge' \in {purge, "idle"} /\ writing' \subseteq writing
  /\ delivery'.status = "acked" => delivery.status = "acked"

\* A step that is neither a delivery nor a charge.
LEMMA QuietKeepsDelivery ==
  ASSUME DeliveryInv, QuietDelivery, ChargesInv'
  PROVE  DeliveryInv'
  BY NoRowChanges DEF DeliveryInv, QuietDelivery

\* Requests.
LEMMA RequestKeepsDelivery ==
  ASSUME DeliveryInv, NEW r \in Readers, ReaderStep(r)
  PROVE  DeliveryInv'
<1>1. r \in Recorders
  BY DEF Recorders
<1>2. ASSUME UNCHANGED <<jobs, charged, seenKeys, purge, writing, recording>>,
             delivery'.status = "acked" => delivery.status = "acked"
      PROVE  DeliveryInv'
  <2>1. ChargesInv'
    BY <1>1, <1>2, ChargeStarts DEF DeliveryInv
  <2> QED
    BY <1>2, <2>1, QuietKeepsDelivery DEF QuietDelivery
<1>3. ASSUME NEW purpose \in {"get", "ack", "reconcile"}, Ask(r, purpose) PROVE DeliveryInv'
  BY <1>2, <1>3 DEF Ask
<1>4. CASE ListRows(r)
  BY <1>2, <1>4 DEF ListRows
<1>5. ASSUME NEW j \in ResultJobs, CheckReadable(r, j) \/ ProtectRequeued(r, j) \/ DiscardRequeued(r, j)
      PROVE  DeliveryInv'
  BY <1>2, <1>5 DEF CheckReadable, ProtectRequeued, DiscardRequeued
<1>6. ASSUME NEW j \in ResultJobs, CheckFails(r, j) PROVE DeliveryInv'
  <2>1. /\ TaskExists
        /\ UNCHANGED <<charged, seenKeys, delivery, purge, writing, recording>>
    BY <1>6 DEF CheckFails
  <2>2. CASE jobs' = jobs
    BY <1>2, <2>1, <2>2
  <2>3. CASE /\ j \in Succeeded
             /\ jobs' = [jobs EXCEPT ![j].status = "failed", ![j].payload = FALSE]
    <3>1. PICK o \in JobRow : o = jobs[j] /\ RowHolds(o, j, purge, seenKeys, writing)
      BY <2>1, RowOfAJob DEF DeliveryInv
    <3>2. PICK n \in JobRow : /\ n = [o EXCEPT !.status = "failed", !.payload = FALSE]
                              /\ n.status = "failed" /\ n.consumed = o.consumed
                              /\ n.accounted = o.accounted
      BY ZenonT(60), JobRowChanges
    <3>3. jobs' = [jobs EXCEPT ![j] = n]
      BY <2>3, <3>1, <3>2
    <3>4. RowHolds(n, j, purge, seenKeys, writing')
      BY <2>1, <2>3, <3>1, <3>2 DEF RowHolds, Succeeded
    <3>5. ChargesInv'
      BY <1>1, <2>1, ChargeStarts DEF DeliveryInv
    <3> QED
      BY <2>1, <3>1, <3>2, <3>3, <3>4, <3>5, OneRowChanges DEF DeliveryInv
  <2> QED
    BY <1>6, <2>2, <2>3 DEF CheckFails, FailUndeliverable
<1>7. ASSUME NEW j \in ResultJobs, CheckRequeues(r, j) PROVE DeliveryInv'
  <2>1. TaskExists /\ UNCHANGED <<charged, seenKeys, purge, writing, recording>>
    BY <1>7 DEF CheckRequeues
  <2>2. CASE UNCHANGED <<jobs, delivery>>
    BY <1>2, <2>1, <2>2
  <2>3. CASE /\ j \in Succeeded /\ delivery' = ResetDelivery
             /\ jobs' = [jobs EXCEPT ![j].status = "queued", ![j].payload = FALSE]
    <3>1. PICK o \in JobRow : o = jobs[j] /\ RowHolds(o, j, purge, seenKeys, writing)
      BY <2>1, RowOfAJob DEF DeliveryInv
    <3>2. PICK n \in JobRow : /\ n = [o EXCEPT !.status = "queued", !.payload = FALSE]
                              /\ n.status = "queued" /\ n.consumed = o.consumed
                              /\ n.accounted = o.accounted
      BY ZenonT(60), JobRowChanges
    <3>3. jobs' = [jobs EXCEPT ![j] = n]
      BY <2>3, <3>1, <3>2
    <3>4. RowHolds(n, j, purge, seenKeys, writing')
      BY <2>1, <2>3, <3>1, <3>2 DEF RowHolds, Succeeded
    <3>5. ChargesInv'
      BY <1>1, <2>1, ChargeStarts DEF DeliveryInv
    <3>6. delivery'.status # "acked"
      BY <2>3 DEF ResetDelivery
    <3> QED
      BY <2>1, <3>1, <3>2, <3>3, <3>4, <3>5, <3>6, OneRowChanges DEF DeliveryInv
  <2> QED
    BY <1>7, <2>2, <2>3 DEF CheckRequeues
<1>8. ASSUME NEW j \in ResultJobs, ChargeRead(r, j) PROVE DeliveryInv'
  <2>1. ChargesInv'
    <3>1. /\ recording' = [recording EXCEPT ![r] = [job |-> {j}, known |-> FALSE]]
          /\ UNCHANGED <<charged, seenKeys>>
      BY <1>8 DEF ChargeRead
    <3>2. {j} \in SUBSET ResultJobs
      OBVIOUS
    <3> QED
      BY <1>1, <3>1, <3>2, ChargeStarts DEF DeliveryInv
  <2> QED
    BY <1>8, <2>1, QuietKeepsDelivery DEF ChargeRead, QuietDelivery
<1>9. CASE MarkResponseAttempted(r)
  <2>1. delivery'.status = "acked" => delivery.status = "acked"
    BY <1>9 DEF MarkResponseAttempted
  <2> QED
    BY <1>2, <1>9, <2>1 DEF MarkResponseAttempted
<1>10. CASE Acknowledge(r)
  <2>1. TaskTerminal /\ UNCHANGED <<jobs, charged, seenKeys, purge, writing, recording>>
    BY <1>10 DEF Acknowledge, ResultAvailable
  <2>2. ChargesInv'
    BY <1>1, <2>1, ChargeStarts DEF DeliveryInv
  <2>3. TaskTerminal'
    BY <2>1 DEF TaskTerminal, TaskExists
  <2>4. RowsInv'
    BY <2>1 DEF DeliveryInv, RowsInv
  <2> QED
    BY <2>2, <2>3, <2>4 DEF DeliveryInv, AcknowledgedIsTerminal
<1>11. CASE EndRequest(r)
  <2>1. ChargesInv'
    BY <1>1, <1>11, ChargeStarts DEF EndRequest, DeliveryInv
  <2> QED
    BY <1>11, <2>1, QuietKeepsDelivery DEF EndRequest, QuietDelivery
<1> QED
  BY <1>3, <1>4, <1>5, <1>6, <1>7, <1>8, <1>9, <1>10, <1>11 DEF ReaderStep
\* What is listed and discarded.
SweepStep(j) == ListInvalid(j) \/ DiscardInvalid(j) \/ RemoveInvalidRow(j)
DropStep == PurgeDiscard \/ Finalize \/ Grow \/ WorkerCrash

\* Sweeps, losses and the removal.
LEMMA RestKeepsDelivery ==
  ASSUME DeliveryInv,
         \/ \E j \in ResultJobs : Reconcile(j) \/ SweepStep(j) \/ DeleteFromGallery(j) \/ LoseFile(j)
         \/ PurgeSelect \/ DropStep
  PROVE  DeliveryInv'
<1>1. ASSUME UNCHANGED <<jobs, charged, seenKeys, recording>>,
             purge' \in {purge, "idle"}, writing' \subseteq writing,
             delivery'.status = "acked" => delivery.status = "acked"
      PROVE  DeliveryInv'
  <2>1. ChargesInv'
    BY <1>1 DEF DeliveryInv, ChargesInv
  <2> QED
    BY <1>1, <2>1, QuietKeepsDelivery DEF QuietDelivery
<1>2. ASSUME NEW j \in ResultJobs, Reconcile(j) PROVE DeliveryInv'
  <2>1. ChargesInv'
    <3>1. /\ recording' = [recording EXCEPT !["dispatcher"] = [job |-> {j}, known |-> FALSE]]
          /\ UNCHANGED <<charged, seenKeys>>
      BY <1>2 DEF Reconcile
    <3>2. {j} \in SUBSET ResultJobs /\ "dispatcher" \in Recorders
      BY DEF Recorders
    <3> QED
      BY <3>1, <3>2, ChargeStarts DEF DeliveryInv
  <2> QED
    BY <1>2, <2>1, QuietKeepsDelivery DEF Reconcile, QuietDelivery
<1>3. ASSUME NEW j \in ResultJobs, SweepStep(j) \/ LoseFile(j) PROVE DeliveryInv'
  BY <1>1, <1>3 DEF SweepStep, ListInvalid, DiscardInvalid, RemoveInvalidRow, LoseFile
<1>4. ASSUME NEW j \in ResultJobs, DeleteFromGallery(j) PROVE DeliveryInv'
  <2>1. /\ TaskExists /\ j \in Succeeded
        /\ UNCHANGED <<charged, seenKeys, purge, writing, recording, delivery>>
        /\ jobs' = [jobs EXCEPT ![j].payload = FALSE]
    BY <1>4 DEF DeleteFromGallery, TaskTerminal
  <2>2. PICK o \in JobRow : o = jobs[j] /\ RowHolds(o, j, purge, seenKeys, writing)
    BY <2>1, RowOfAJob DEF DeliveryInv
  <2>3. PICK n \in JobRow : /\ n = [o EXCEPT !.payload = FALSE]
                            /\ n.status = o.status /\ n.consumed = o.consumed
                            /\ n.accounted = o.accounted
    BY ZenonT(60), JobRowChanges
  <2>4. jobs' = [jobs EXCEPT ![j] = n]
    BY <2>1, <2>2, <2>3
  <2>5. RowHolds(n, j, purge, seenKeys, writing')
    BY <2>1, <2>2, <2>3 DEF RowHolds
  <2>6. ChargesInv'
    BY <2>1 DEF DeliveryInv, ChargesInv
  <2> QED
    BY <2>1, <2>2, <2>3, <2>4, <2>5, <2>6, OneRowChanges DEF DeliveryInv
<1>5. CASE PurgeSelect
  <2>1. /\ UNCHANGED <<jobs, charged, seenKeys, writing, recording, delivery>>
        /\ TaskTerminal /\ OpenCharges = {}
    BY <1>5 DEF PurgeSelect
  <2>2. ChargesInv'
    BY <2>1 DEF DeliveryInv, ChargesInv
  <2>3. AcknowledgedIsTerminal'
    BY <2>1 DEF AcknowledgedIsTerminal, TaskTerminal, TaskExists
  <2>4. ASSUME NEW j \in ResultJobs PROVE RowHolds(jobs[j], j, purge', seenKeys, writing)
    <3>1. jobs[j].status # "queued" /\ (jobs[j].consumed => jobs[j].accounted)
      BY <2>1 DEF TaskTerminal, OpenCharges, Unaccounted
    <3> QED
      BY <2>1, <3>1 DEF DeliveryInv, RowsInv, RowHolds, TaskTerminal, TaskExists
  <2> QED
    BY <2>1, <2>2, <2>3, <2>4 DEF DeliveryInv, RowsInv
<1>6. CASE PurgeDiscard
  <2>1. /\ UNCHANGED <<jobs, charged, seenKeys, writing, recording, delivery>>
        /\ purge # "idle"
    BY <1>6 DEF PurgeDiscard
  <2>2. \A j \in ResultJobs : RowHolds(jobs[j], j, purge, seenKeys, writing)
                              => RowHolds(jobs[j], j, purge', seenKeys, writing)
    BY <2>1 DEF RowHolds
  <2> QED
    BY <2>1, <2>2 DEF DeliveryInv, RowsInv, ChargesInv, AcknowledgedIsTerminal, TaskTerminal, TaskExists
<1>7. CASE Finalize
  BY <1>7 DEF Finalize, DeliveryInv, RowsInv, ChargesInv, AcknowledgedIsTerminal, TaskExists
<1>8. CASE Grow
  BY <1>1, <1>8 DEF Grow
<1>9. CASE WorkerCrash
  <2>1. /\ UNCHANGED <<jobs, charged, seenKeys, writing, delivery>> /\ purge' = "idle"
        /\ recording' = [a \in Recorders |-> IF a \in Readers THEN recording[a] ELSE NotRecording]
    BY <1>9 DEF WorkerCrash
  <2>2. NotRecording \in Charges /\ ~NotRecording.known
    BY DEF NotRecording, Charges
  <2>3. recording \in [Recorders -> Charges]
    BY DEF DeliveryInv, ChargesInv
  <2>4. recording' \in [Recorders -> Charges]
    BY <2>1, <2>2, <2>3
  <2>5. \A a \in Recorders : recording'[a] = recording[a] \/ ~recording'[a].known
    BY <2>1, <2>2
  <2>6. ChargesInv'
    BY <2>1, <2>4, <2>5, NothingCharged DEF DeliveryInv
  <2> QED
    BY <2>1, <2>6, QuietKeepsDelivery DEF QuietDelivery
<1> QED
  BY <1>2, <1>3, <1>4, <1>5, <1>6, <1>7, <1>8, <1>9 DEF DropStep

\* At the start nothing is delivered and nothing is charged.
LEMMA InitDelivery == DeliveryInit => DeliveryInv
<1> SUFFICES ASSUME DeliveryInit PROVE DeliveryInv
  OBVIOUS
<1>1. ChargesInv
  BY DEF DeliveryInit, ChargesInv, NotRecording, Charges
<1>2. [status |-> "queued", payload |-> FALSE, consumed |-> FALSE, accounted |-> FALSE,
       attempts |-> 0] \in JobRow
  BY DeliveryAssumption DEF JobRow
<1>3. jobs \in [ResultJobs -> JobRow]
  BY <1>2 DEF DeliveryInit
<1>4. \A j \in ResultJobs : RowHolds(jobs[j], j, purge, seenKeys, writing)
  BY DEF DeliveryInit, RowHolds
<1>5. delivery.status # "acked"
  BY DEF DeliveryInit
<1> QED
  BY <1>1, <1>3, <1>4, <1>5 DEF DeliveryInv, RowsInv, AcknowledgedIsTerminal

\* One step of a claim, a reader, the accounting or a cleanup.
LEMMA DeliveryStepKeeps == DeliveryInv /\ [DeliveryNext]_deliveryVars => DeliveryInv'
<1> SUFFICES ASSUME DeliveryInv, [DeliveryNext]_deliveryVars PROVE DeliveryInv'
  OBVIOUS
<1>1. CASE UNCHANGED deliveryVars
  BY <1>1 DEF deliveryVars, DeliveryInv, ChargesInv, RowsInv, AcknowledgedIsTerminal, TaskTerminal, TaskExists
<1>2. CASE DeliveryNext
  BY <1>2, WorkerKeepsDelivery, ChargeKeepsDelivery, RequestKeepsDelivery, RestKeepsDelivery
     DEF DeliveryNext, Charge, SweepStep, DropStep
<1> QED
  BY <1>1, <1>2

\* The two things a step may never do: sweep a row that is valid again, and
\* remove a task with an open charge.
LEMMA DeliveryStepPromises ==
  ASSUME DeliveryInv, [DeliveryNext]_deliveryVars
  PROVE  /\ \A j \in ResultJobs : sweep = {<<j, "discarded">>} /\ finalRow[j] = "ready"
                => finalRow'[j] = "ready" \/ sweep' = sweep \/ jobs' = <<>>
         /\ TaskExists /\ jobs' = <<>> =>
                \A j \in ResultJobs : jobs[j].consumed => jobs[j].accounted
<1>1. ASSUME NEW j \in ResultJobs, sweep = {<<j, "discarded">>}, finalRow[j] = "ready",
             finalRow'[j] # "ready"
      PROVE  sweep' = sweep \/ jobs' = <<>>
  <2>1. CASE UNCHANGED deliveryVars
    BY <2>1 DEF deliveryVars
  <2>2. ASSUME NEW k \in ResultJobs, SweepStep(k) PROVE FALSE
    <3>0. <<j, "discarded">> \in sweep
      BY <1>1
    <3>a. \A z \in sweep : z[1] = j /\ z[2] = "discarded"
      BY <1>1
    <3>1. sweep # {} /\ sweep # {<<k, "listed">>}
      BY <3>0, <3>a
    <3>2. sweep = {<<k, "discarded">>} => k = j
      BY <3>a
    <3>3. ~ListInvalid(k)
      BY <3>1 DEF ListInvalid
    <3>4. ~DiscardInvalid(k)
      BY <3>1 DEF DiscardInvalid
    <3>5. CASE RemoveInvalidRow(k)
      BY <1>1, <3>2, <3>5 DEF RemoveInvalidRow, StillInvalid
    <3> QED
      BY <2>2, <3>3, <3>4, <3>5 DEF SweepStep
  <2>3. ASSUME NEW k \in ResultJobs,
               \/ PersistFinal(k) \/ CompleteJob(k) \/ WorkerStops(k) \/ Reconcile(k)
               \/ DeleteFromGallery(k) \/ LoseFile(k)
        PROVE  sweep' = sweep
    BY <2>3 DEF PersistFinal, CompleteJob, WorkerStops, Reconcile, DeleteFromGallery, LoseFile
  <2>4. ASSUME NEW a \in Recorders, Charge(a) PROVE sweep' = sweep
    BY <2>4 DEF Charge, Record, RecordFails, MarkAccounted
  <2>5. ASSUME NEW r \in Readers, ReaderStep(r) PROVE sweep' = sweep
    BY <2>5 DEF ReaderStep, Ask, ListRows, CheckReadable, CheckFails, CheckRequeues,
       ProtectRequeued, DiscardRequeued, ChargeRead, MarkResponseAttempted, Acknowledge, EndRequest
  <2>6. ASSUME PurgeSelect \/ PurgeDiscard \/ Finalize \/ Grow PROVE sweep' = sweep
    BY <2>6 DEF PurgeSelect, PurgeDiscard, Finalize, Grow
  <2>7. ASSUME WorkerCrash PROVE FALSE
    BY <1>1, <2>7 DEF WorkerCrash
  <2> QED
    BY <2>1, <2>2, <2>3, <2>4, <2>5, <2>6, <2>7 DEF DeliveryNext, SweepStep
<1>2. ASSUME TaskExists, jobs' = <<>>, NEW j \in ResultJobs, jobs[j].consumed
      PROVE  jobs[j].accounted
  <2>1. jobs \in [ResultJobs -> JobRow] /\ RowHolds(jobs[j], j, purge, seenKeys, writing)
    BY <1>2, RowOfAJob DEF DeliveryInv
  <2>2. ASSUME NEW k \in ResultJobs, NEW r, jobs' = [jobs EXCEPT ![k] = r] PROVE FALSE
    <3>1. j \in DOMAIN jobs'
      BY <2>1, <2>2
    <3> QED
      BY <1>2, <3>1
  <2>3. jobs' # jobs
    BY <1>2 DEF TaskExists
  <2>4. ~UNCHANGED deliveryVars
    BY <2>3 DEF deliveryVars
  <2>5. ASSUME NEW k \in ResultJobs,
               \/ PersistFinal(k) \/ CompleteJob(k) \/ WorkerStops(k) \/ Reconcile(k)
               \/ SweepStep(k) \/ DeleteFromGallery(k) \/ LoseFile(k)
        PROVE  FALSE
    BY <2>2, <2>3, <2>5 DEF PersistFinal, CompleteJob, WorkerStops, Reconcile, DeleteFromGallery,
       LoseFile, SweepStep, ListInvalid, DiscardInvalid, RemoveInvalidRow
  <2>6. ASSUME NEW a \in Recorders, Charge(a) PROVE FALSE
    BY <2>2, <2>3, <2>6 DEF Charge, Record, RecordFails, MarkAccounted
  <2>7. ASSUME NEW r \in Readers, ReaderStep(r) PROVE FALSE
    <3>1. ASSUME NEW k \in ResultJobs, CheckFails(r, k) \/ CheckRequeues(r, k) PROVE FALSE
      BY <2>2, <2>3, <3>1 DEF CheckFails, CheckRequeues, FailUndeliverable
    <3> QED
      BY <2>3, <2>7, <3>1 DEF ReaderStep, Ask, ListRows, CheckReadable,
       ProtectRequeued, DiscardRequeued, ChargeRead, MarkResponseAttempted, Acknowledge, EndRequest
  <2>8. ASSUME PurgeSelect \/ PurgeDiscard \/ Grow \/ WorkerCrash PROVE FALSE
    BY <2>3, <2>8 DEF PurgeSelect, PurgeDiscard, Grow, WorkerCrash
  <2>9. CASE Finalize
    BY <1>2, <2>1, <2>9 DEF Finalize, RowHolds
  <2> QED
    BY <2>4, <2>5, <2>6, <2>7, <2>8, <2>9 DEF DeliveryNext, SweepStep
<1> QED
  BY <1>1, <1>2
\* ImageDelivery: a result is charged to its account once, a row is accounted
\* only for a charge the account has, an acknowledged task is finished, a valid row
\* is never swept and no task is removed with an open charge.
THEOREM ResultsStayAccounted == DeliverySpec => ResultsAreAccounted
<1>1. DeliveryInv => ChargedOnce /\ AccountedWereCharged /\ AcknowledgedIsTerminal
  <2> SUFFICES ASSUME DeliveryInv PROVE ChargedOnce /\ AccountedWereCharged /\ AcknowledgedIsTerminal
    OBVIOUS
  <2>1. \A j \in ResultJobs : charged[j] = IF j \in seenKeys THEN 1 ELSE 0
    BY DEF DeliveryInv, ChargesInv
  <2>2. ChargedOnce
    BY <2>1 DEF ChargedOnce
  <2>3. AccountedWereCharged
    BY <2>1 DEF AccountedWereCharged, DeliveryInv, RowsInv, RowHolds, TaskExists
  <2> QED
    BY <2>2, <2>3 DEF DeliveryInv
<1>2. DeliverySpec => []DeliveryInv
  BY InitDelivery, DeliveryStepKeeps, PTL DEF DeliverySpec
<1>3. DeliverySpec => SweepKeepsValidRows
  <2>1. DeliveryInv /\ [DeliveryNext]_deliveryVars =>
          [\A j \in ResultJobs : sweep = {<<j, "discarded">>} /\ finalRow[j] = "ready"
               => finalRow'[j] = "ready" \/ sweep' = sweep \/ jobs' = <<>>]_deliveryVars
    BY DeliveryStepPromises
  <2> QED
    BY <1>2, <2>1, PTL DEF DeliverySpec, SweepKeepsValidRows
<1>4. DeliverySpec => RemovedWereCharged
  <2>1. DeliveryInv /\ [DeliveryNext]_deliveryVars =>
          [TaskExists /\ jobs' = <<>> =>
             \A j \in ResultJobs : jobs[j].consumed => jobs[j].accounted]_deliveryVars
    BY DeliveryStepPromises
  <2> QED
    BY <1>2, <2>1, PTL DEF DeliverySpec, RemovedWereCharged
<1> QED
  BY <1>1, <1>2, <1>3, <1>4, PTL DEF ResultsAreAccounted

-----------------------------------------------------------------------------
(* The conversations that the claims of a job start, record and delete.    *)

Streaming == {"connect", "stream", "events", "recover", "result"}
Idle == {"new", "settle", "ended"}
JobSeen == [stage : {"queued", "leased", "generating", "failed"} \cup SavedStages,
            conv : ConvOrNone, ids : BOOLEAN, urls : BOOLEAN]
SeenRow == [conv : ConvOrNone, ids : BOOLEAN, failure : {"none", "mode", "text", "fatal"}]
RunRow == [at : Steps, job : JobSeen,
           managed : SUBSET Conversations, checkpointed : SUBSET Conversations,
           committed : BOOLEAN, restored : BOOLEAN, current : ConvOrNone, seen : SeenRow,
           emitted : BOOLEAN, regular : BOOLEAN, viaFallback : BOOLEAN,
           tries : Nat, submitted : Nat]

\* The conversations a claim knows, and those among them that are its own:
\* it was not given them to resume from.
Known(s) == s.managed \cup {s.current, s.seen.conv}
Own(s) == Known(s) \ {NoConv, s.job.conv}

\* A claim that was given a conversation knows no other, and will preserve it.
Resumes(s) ==
  s.job.conv # NoConv =>
    /\ s.job.stage \in SavedStages
    /\ Known(s) \cup s.checkpointed \subseteq {NoConv, s.job.conv}

\* How many conversations a claim has started, at each of its steps.
Submits(s) ==
  /\ s.seen.failure # "none" \/ s.regular => s.emitted
  /\ s.submitted <= s.tries + (IF s.regular THEN 1 ELSE 0)
  /\ s.at = "stream" => s.submitted < s.tries + (IF s.regular THEN 1 ELSE 0)
  /\ s.at = "connect" => s.submitted <= s.tries /\ ~s.emitted
  /\ s.restored \/ s.job.conv # NoConv \/ s.job.urls => s.submitted = 0 /\ s.at \notin Streaming

\* What a claim is like before it begins, and after it ended.
Begins(s) ==
  /\ s.at = "new" => s = NewRun
  /\ s.at = "open" => ~s.restored /\ s.checkpointed = {} /\ s.submitted = 0 /\ ~s.emitted
  /\ s.at \in Idle => Own(s) = {}

RunHolds(s) == Resumes(s) /\ Submits(s) /\ Begins(s)

\* A conversation of a claim that nobody adopted is open; if the row names it,
\* the claim has recorded it.
OwnIsOpen(s) ==
  \A c \in Own(s) \ foundBySearch : upstream[c] = "open" /\ (c = row.conv => c \in s.checkpointed)

\* Two claims share only conversations that were adopted.
OwnersApart ==
  \A k, l \in ClaimIds : k # l => Own(run[k]) \cap Own(run[l]) \subseteq foundBySearch

\* The row under a claim names what the claim was given or has recorded.
RowIsKnown(k) ==
  Fenced(k) /\ run[k].at \notin Idle =>
    row.conv = run[k].job.conv \/ row.conv \in run[k].checkpointed

GenTypes ==
  /\ row \in Row
  /\ run \in [ClaimIds -> RunRow]
  /\ upstream \in [Conversations -> {"none", "open", "deleted"}]
  /\ foundBySearch \in SUBSET Conversations

SharedInv ==
  row.status # "done" =>
    /\ row.conv # NoConv /\ row.status # "failed" => row.stage \in SavedStages
    /\ \A c \in foundBySearch : upstream[c] # "none"
    /\ \A k \in ClaimIds : OwnIsOpen(run[k]) /\ RowIsKnown(k)
    /\ OwnersApart
    /\ ResumableConversationKept

GenerationInv == GenTypes /\ (\A k \in ClaimIds : RunHolds(run[k])) /\ SharedInv

\* What becomes of the run r when it is s: it knows nothing new but F, and
\* forgets what it recorded only when it ends.
GoesOn(r, s, F) ==
  /\ s \in RunRow /\ RunHolds(s)
  /\ Own(s) \subseteq Own(r) \cup F
  /\ s.at \notin Idle => r.at \notin Idle /\ s.job = r.job
  /\ r.checkpointed \subseteq s.checkpointed \/ (s.at \in Idle /\ Own(s) = {})

\* A step of one claim that leaves the row and the upstream alone.
LEMMA QuietStep ==
  ASSUME GenerationInv, NEW k \in ClaimIds, NEW s \in RunRow, NEW F \in SUBSET Conversations,
         GoesOn(run[k], s, F), run' = [run EXCEPT ![k] = s],
         foundBySearch' = foundBySearch \cup F, \A c \in F : upstream[c] # "none",
         UNCHANGED <<row, upstream>>
  PROVE  GenerationInv'
<1>1. /\ run'[k] = s /\ \A l \in ClaimIds \ {k} : run'[l] = run[l]
      /\ GenTypes'
  BY DEF GenerationInv, GenTypes
<1>2. \A l \in ClaimIds : RunHolds(run'[l])
  BY <1>1 DEF GenerationInv, GoesOn
<1>3. ASSUME row.status # "done" PROVE SharedInv'
  <2>1. \A c \in foundBySearch' : upstream'[c] # "none"
    BY <1>3 DEF GenerationInv, SharedInv
  <2>2. \A l \in ClaimIds : OwnIsOpen(run[l]) /\ RowIsKnown(l)
    BY <1>3 DEF GenerationInv, SharedInv
  <2>3. OwnIsOpen(s)'
    BY <2>2 DEF OwnIsOpen, GoesOn
  <2>4. \A l \in ClaimIds \ {k} : OwnIsOpen(run[l])'
    BY <1>1, <2>2 DEF OwnIsOpen
  <2>a. OwnIsOpen(run[k])'
    BY <1>1, <2>3 DEF OwnIsOpen
  <2>5. \A l \in ClaimIds : OwnIsOpen(run[l])'
    BY <2>4, <2>a
  <2>6. RowIsKnown(k)'
    BY <1>1, <2>2 DEF RowIsKnown, Fenced, GoesOn
  <2>7. \A l \in ClaimIds \ {k} : RowIsKnown(l)'
    BY <1>1, <2>2 DEF RowIsKnown, Fenced
  <2>8. OwnersApart'
    <3>1. OwnersApart /\ Own(s) \subseteq Own(run[k]) \cup F
      BY <1>3 DEF GenerationInv, SharedInv, GoesOn
    <3> QED
      BY <1>1, <3>1 DEF OwnersApart
  <2>9. ResumableConversationKept'
    BY <1>3 DEF GenerationInv, SharedInv, ResumableConversationKept
  <2>10. row.conv # NoConv /\ row.status # "failed" => row.stage \in SavedStages
    BY <1>3 DEF GenerationInv, SharedInv
  <2>11. row' = row
    OBVIOUS
  <2> QED
    BY <2>1, <2>5, <2>6, <2>7, <2>8, <2>9, <2>10, <2>11 DEF SharedInv
<1>4. row.status = "done" => SharedInv'
  BY DEF SharedInv
<1> QED
  BY <1>1, <1>2, <1>3, <1>4 DEF GenerationInv
\* A step of the claim that has the row, which writes to it what the claim has
\* recorded.
LEMMA RecordingStep ==
  ASSUME GenerationInv, NEW k \in ClaimIds, NEW s \in RunRow,
         GoesOn(run[k], s, {}), run' = [run EXCEPT ![k] = s],
         Fenced(k), run[k].at \notin Idle, s.at \notin Idle,
         row' \in Row, row'.status = row.status, row'.owner = row.owner,
         \/ row'.conv = row.conv
         \/ /\ row'.conv \in (Own(run[k]) \cup {run[k].job.conv}) \ {NoConv}
            /\ row'.conv \in s.checkpointed,
         row'.conv # NoConv => row'.stage \in SavedStages,
         UNCHANGED <<upstream, foundBySearch>>
  PROVE  GenerationInv'
<1>1. /\ run'[k] = s /\ \A l \in ClaimIds \ {k} : run'[l] = run[l]
      /\ GenTypes'
  BY DEF GenerationInv, GenTypes
<1>2. \A l \in ClaimIds : RunHolds(run[l])'
  <2>1. \A l \in ClaimIds : RunHolds(run'[l])
    BY <1>1 DEF GenerationInv, GoesOn
  <2> QED
    BY <2>1 DEF RunHolds, Resumes, Submits, Begins, Own, Known
<1>3. row.status = "active" /\ row'.status = "active"
  BY DEF Fenced
<1>4. /\ \A c \in foundBySearch : upstream[c] # "none"
      /\ \A l \in ClaimIds : OwnIsOpen(run[l]) /\ RowIsKnown(l)
      /\ OwnersApart /\ ResumableConversationKept
  BY <1>3 DEF GenerationInv, SharedInv
<1>5. row'.conv = row.conv \/ (row'.conv \in Own(run[k]) /\ row'.conv \in s.checkpointed)
  <2>1. ASSUME row'.conv = run[k].job.conv, row'.conv # NoConv PROVE row'.conv = row.conv
    <3>1. run[k].checkpointed \subseteq {NoConv, run[k].job.conv}
      BY <2>1 DEF GenerationInv, RunHolds, Resumes
    <3>2. row.conv = run[k].job.conv \/ row.conv \in run[k].checkpointed
      BY <1>4 DEF RowIsKnown
    <3>3. NoConv \notin run[k].checkpointed
      BY GenerationAssumption DEF GenerationInv, GenTypes, RunRow
    <3> QED
      BY <2>1, <3>1, <3>2, <3>3
  <2> QED
    BY <2>1
<1>6. \A l \in ClaimIds : OwnIsOpen(run[l])'
  <2>1. ASSUME NEW l \in ClaimIds \ {k}, NEW c \in Own(run[l]) \ foundBySearch
        PROVE  upstream[c] = "open" /\ (c = row'.conv => c \in run[l].checkpointed)
    <3>1. upstream[c] = "open" /\ (c = row.conv => c \in run[l].checkpointed)
      BY <1>4 DEF OwnIsOpen
    <3>2. c \notin Own(run[k])
      BY <1>4 DEF OwnersApart
    <3> QED
      BY <1>5, <3>1, <3>2
  <2>2. ASSUME NEW c \in Own(s) \ foundBySearch
        PROVE  upstream[c] = "open" /\ (c = row'.conv => c \in s.checkpointed)
    <3>1. c \in Own(run[k])
      BY DEF GoesOn
    <3>2. upstream[c] = "open" /\ (c = row.conv => c \in run[k].checkpointed)
      BY <1>4, <3>1 DEF OwnIsOpen
    <3> QED
      BY <1>5, <3>2 DEF GoesOn
  <2> QED
    BY <1>1, <2>1, <2>2 DEF OwnIsOpen
<1>7. \A l \in ClaimIds : RowIsKnown(l)'
  <2>1. RowIsKnown(k)'
    BY <1>1, <1>4, <1>5 DEF RowIsKnown, Fenced, GoesOn
  <2>2. ASSUME NEW l \in ClaimIds \ {k} PROVE RowIsKnown(l)'
    BY <1>1, <2>2 DEF RowIsKnown, Fenced
  <2> QED
    BY <2>1, <2>2
<1>8. OwnersApart'
  <2>1. Own(s) \subseteq Own(run[k])
    BY DEF GoesOn
  <2> QED
    BY <1>1, <1>4, <2>1 DEF OwnersApart
<1>9. ResumableConversationKept'
  <2>1. row.conv \notin foundBySearch \cup {NoConv} => upstream[row.conv] = "open"
    BY <1>3, <1>4 DEF ResumableConversationKept
  <2>2. \A c \in Own(run[k]) \ foundBySearch : upstream[c] = "open"
    BY <1>4 DEF OwnIsOpen
  <2> QED
    BY <1>5, <2>1, <2>2 DEF ResumableConversationKept
<1> QED
  BY <1>1, <1>2, <1>4, <1>6, <1>7, <1>8, <1>9 DEF GenerationInv, SharedInv

\* The claim starts a conversation.
LEMMA SubmittingStep ==
  ASSUME GenerationInv, NEW k \in ClaimIds, NEW s \in RunRow, NEW c \in Conversations,
         RunHolds(s), run' = [run EXCEPT ![k] = s],
         Own(s) \subseteq Own(run[k]) \cup {c},
         s.at \notin Idle, run[k].at \notin Idle, s.job = run[k].job,
         s.checkpointed = run[k].checkpointed,
         upstream[c] = "none", upstream' = [upstream EXCEPT ![c] = "open"],
         UNCHANGED <<row, foundBySearch>>
  PROVE  GenerationInv'
<1>1. /\ run'[k] = s /\ \A l \in ClaimIds \ {k} : run'[l] = run[l]
      /\ GenTypes'
  BY DEF GenerationInv, GenTypes
<1>2. \A l \in ClaimIds : RunHolds(run[l])'
  <2>1. \A l \in ClaimIds : RunHolds(run'[l])
    BY <1>1 DEF GenerationInv
  <2> QED
    BY <2>1 DEF RunHolds, Resumes, Submits, Begins, Own, Known
<1>3. upstream'[c] = "open" /\ \A d \in Conversations \ {c} : upstream'[d] = upstream[d]
  BY DEF GenerationInv, GenTypes
<1>4. ASSUME row.status # "done" PROVE SharedInv'
  <2>1. /\ \A d \in foundBySearch : upstream[d] # "none"
        /\ \A l \in ClaimIds : OwnIsOpen(run[l]) /\ RowIsKnown(l)
        /\ OwnersApart /\ ResumableConversationKept
        /\ row.conv # NoConv /\ row.status # "failed" => row.stage \in SavedStages
    BY <1>4 DEF GenerationInv, SharedInv
  <2>2. row.conv \in ConvOrNone /\ foundBySearch \subseteq Conversations
    BY DEF GenerationInv, GenTypes, Row
  <2>3. c \notin foundBySearch /\ c # row.conv /\ \A l \in ClaimIds : c \notin Own(run[l])
    <3>1. c # NoConv
      BY GenerationAssumption
    <3> QED
      BY <1>4, <2>1, <3>1 DEF OwnIsOpen, ResumableConversationKept
  <2>4. \A l \in ClaimIds : Own(run[l]) \subseteq Conversations
    BY DEF GenerationInv, GenTypes, RunRow, SeenRow, ConvOrNone, Own, Known
  <2>5. \A l \in ClaimIds \ {k} : OwnIsOpen(run[l])'
    BY <1>1, <1>3, <2>1, <2>3, <2>4 DEF OwnIsOpen
  <2>6. OwnIsOpen(run[k])'
    <3>1. ASSUME NEW d \in Own(s) \ foundBySearch
          PROVE  upstream'[d] = "open" /\ (d = row.conv => d \in s.checkpointed)
      BY <1>3, <2>1, <2>3, <2>4, <3>1 DEF OwnIsOpen
    <3> QED
      BY <1>1, <3>1 DEF OwnIsOpen
  <2>7. \A l \in ClaimIds : RowIsKnown(l)'
    BY <1>1, <2>1 DEF RowIsKnown, Fenced
  <2>8. OwnersApart'
    BY <1>1, <2>1, <2>3 DEF OwnersApart
  <2>9. ResumableConversationKept'
    BY <1>3, <1>4, <2>1, <2>2, <2>3 DEF ResumableConversationKept, ConvOrNone
  <2>10. \A d \in foundBySearch' : upstream'[d] # "none"
    BY <1>3, <2>1, <2>2, <2>3
  <2>11. row' = row
    OBVIOUS
  <2> QED
    BY <2>1, <2>5, <2>6, <2>7, <2>8, <2>9, <2>10, <2>11 DEF SharedInv
<1>5. row.status = "done" => SharedInv'
  BY DEF SharedInv
<1> QED
  BY <1>1, <1>2, <1>4, <1>5 DEF GenerationInv

\* The claim ends, deleting what it does not preserve.
LEMMA DeletingStep ==
  ASSUME GenerationInv, NEW k \in ClaimIds, NEW s \in RunRow, RunHolds(s),
         Own(s) = {}, s.at \in Idle, run' = [run EXCEPT ![k] = s],
         upstream' = Deleted(run[k].managed \ Preserved(k)),
         UNCHANGED <<row, foundBySearch>>
  PROVE  GenerationInv'
<1>1. /\ run'[k] = s /\ \A l \in ClaimIds \ {k} : run'[l] = run[l]
      /\ GenTypes'
  BY DEF GenerationInv, GenTypes, Deleted
<1>2. \A l \in ClaimIds : RunHolds(run[l])'
  <2>1. \A l \in ClaimIds : RunHolds(run'[l])
    BY <1>1 DEF GenerationInv
  <2> QED
    BY <2>1 DEF RunHolds, Resumes, Submits, Begins, Own, Known
<1>3. \A d \in Conversations : \/ upstream'[d] = upstream[d]
                               \/ /\ upstream'[d] = "deleted"
                                  /\ d \in Own(run[k]) /\ d \notin run[k].checkpointed
  <2>1. ASSUME NEW d \in Conversations, d \in run[k].managed \ Preserved(k)
        PROVE  d \in Own(run[k]) /\ d \notin run[k].checkpointed
    <3>1. d \notin run[k].checkpointed /\ d # NoConv
      BY <2>1, GenerationAssumption DEF Preserved
    <3>2. d # run[k].job.conv
      <4>1. run[k].job.conv # NoConv => run[k].job.stage \in SavedStages
        BY DEF GenerationInv, RunHolds, Resumes
      <4> QED
        BY <2>1, <3>1, <4>1 DEF Preserved, Some
    <3> QED
      BY <2>1, <3>1, <3>2 DEF Own, Known
  <2> QED
    BY <2>1 DEF Deleted
<1>4. ASSUME row.status # "done" PROVE SharedInv'
  <2>1. /\ \A d \in foundBySearch : upstream[d] # "none"
        /\ \A l \in ClaimIds : OwnIsOpen(run[l]) /\ RowIsKnown(l)
        /\ OwnersApart /\ ResumableConversationKept
        /\ row.conv # NoConv /\ row.status # "failed" => row.stage \in SavedStages
    BY <1>4 DEF GenerationInv, SharedInv
  <2>2. row.conv \in ConvOrNone /\ foundBySearch \subseteq Conversations
    BY DEF GenerationInv, GenTypes, Row
  <2>4. \A l \in ClaimIds : Own(run[l]) \subseteq Conversations
    BY DEF GenerationInv, GenTypes, RunRow, SeenRow, ConvOrNone, Own, Known
  <2>5. \A l \in ClaimIds \ {k} : OwnIsOpen(run[l])'
    <3>1. ASSUME NEW l \in ClaimIds \ {k}, NEW d \in Own(run[l]) \ foundBySearch
          PROVE  upstream'[d] = "open" /\ (d = row.conv => d \in run[l].checkpointed)
      BY <1>3, <2>1, <2>4, <3>1 DEF OwnIsOpen, OwnersApart
    <3> QED
      BY <1>1, <3>1 DEF OwnIsOpen
  <2>6. OwnIsOpen(run[k])'
    BY <1>1 DEF OwnIsOpen
  <2>7. \A l \in ClaimIds : RowIsKnown(l)'
    BY <1>1, <2>1 DEF RowIsKnown, Fenced
  <2>8. OwnersApart'
    BY <1>1, <2>1 DEF OwnersApart
  <2>9. ResumableConversationKept'
    BY <1>3, <1>4, <2>1, <2>2 DEF ResumableConversationKept, ConvOrNone, OwnIsOpen
  <2>10. \A d \in foundBySearch' : upstream'[d] # "none"
    BY <1>3, <2>1, <2>2
  <2>11. row' = row
    OBVIOUS
  <2> QED
    BY <2>1, <2>5, <2>6, <2>7, <2>8, <2>9, <2>10, <2>11 DEF SharedInv
<1>5. row.status = "done" => SharedInv'
  BY DEF SharedInv
<1> QED
  BY <1>1, <1>2, <1>4, <1>5 DEF GenerationInv

\* The claim completes the job.
LEMMA CompletingStep ==
  ASSUME GenerationInv, NEW k \in ClaimIds, NEW s \in RunRow, RunHolds(s),
         run' = [run EXCEPT ![k] = s], row' \in Row, row'.status = "done",
         NEW D, upstream' = Deleted(D), UNCHANGED foundBySearch
  PROVE  GenerationInv'
<1>1. /\ run'[k] = s /\ \A l \in ClaimIds \ {k} : run'[l] = run[l]
      /\ GenTypes'
  BY DEF GenerationInv, GenTypes, Deleted
<1>2. \A l \in ClaimIds : RunHolds(run[l])'
  <2>1. \A l \in ClaimIds : RunHolds(run'[l])
    BY <1>1 DEF GenerationInv
  <2> QED
    BY <2>1 DEF RunHolds, Resumes, Submits, Begins, Own, Known
<1> QED
  BY <1>1, <1>2 DEF GenerationInv, SharedInv

\* The row is taken from a claim, or given back, and the claim may end.
LEMMA ReleasingStep ==
  ASSUME GenerationInv, NEW s \in RunRow, RunHolds(s), Own(s) = {},
         run' = run \/ \E k \in ClaimIds : run' = [run EXCEPT ![k] = s],
         s.at \in Idle,
         row.status = "active", row' \in Row, row'.status \notin {"active", "done"},
         row'.conv \in {row.conv, NoConv},
         row'.conv # NoConv /\ row'.status # "failed" => row'.stage \in SavedStages,
         UNCHANGED <<upstream, foundBySearch>>
  PROVE  GenerationInv'
<1>1. GenTypes' /\ \A l \in ClaimIds : run'[l] \in {run[l], s}
  BY DEF GenerationInv, GenTypes
<1>2. \A l \in ClaimIds : RunHolds(run[l])'
  <2>1. \A l \in ClaimIds : RunHolds(run'[l])
    BY <1>1 DEF GenerationInv
  <2> QED
    BY <2>1 DEF RunHolds, Resumes, Submits, Begins, Own, Known
<1>3. /\ \A d \in foundBySearch : upstream[d] # "none"
      /\ \A l \in ClaimIds : OwnIsOpen(run[l])
      /\ OwnersApart /\ ResumableConversationKept
  BY DEF GenerationInv, SharedInv
<1>4. \A l \in ClaimIds : OwnIsOpen(run[l])'
  <2>1. ASSUME NEW l \in ClaimIds, NEW d \in Own(run[l]) \ foundBySearch
        PROVE  upstream[d] = "open" /\ (d = row'.conv => d \in run[l].checkpointed)
    <3>1. d # NoConv
      BY <2>1 DEF Own
    <3> QED
      BY <1>3, <2>1, <3>1 DEF OwnIsOpen
  <2> QED
    BY <1>1, <2>1 DEF OwnIsOpen
<1>5. \A l \in ClaimIds : RowIsKnown(l)'
  BY DEF RowIsKnown, Fenced
<1>6. OwnersApart'
  BY <1>1, <1>3 DEF OwnersApart
<1>7. ResumableConversationKept'
  BY <1>3 DEF ResumableConversationKept
<1> QED
  BY <1>1, <1>2, <1>3, <1>4, <1>5, <1>6, <1>7 DEF GenerationInv, SharedInv
-----------------------------------------------------------------------------
(* Steps of one claim, by what they make of its run. *)

\* What a run is like.
LEMMA RunFields ==
  \A r \in RunRow :
    /\ r.at \in Steps /\ r.job \in JobSeen /\ r.job.conv \in ConvOrNone
    /\ r.job.stage \in {"queued", "leased", "generating", "failed"} \cup SavedStages
    /\ r.managed \in SUBSET Conversations /\ r.checkpointed \in SUBSET Conversations
    /\ r.current \in ConvOrNone /\ r.seen \in SeenRow /\ r.seen.conv \in ConvOrNone
    /\ r.seen.failure \in {"none", "mode", "text", "fatal"}
    /\ r.restored \in BOOLEAN /\ r.emitted \in BOOLEAN /\ r.regular \in BOOLEAN
    /\ r.tries \in Nat /\ r.submitted \in Nat
  BY DEF RunRow, JobSeen, SeenRow

\* The new run.
LEMMA NewRuns ==
  /\ NewRun \in RunRow /\ RunHolds(NewRun)
  /\ Own(NewRun) = {} /\ NewRun.at = "new"
<1>1. Unseen \in SeenRow /\ Unseen.conv = NoConv /\ Unseen.failure = "none"
  BY DEF Unseen, SeenRow, ConvOrNone
<1>2. NewRun.job \in JobSeen /\ NewRun.job.conv = NoConv /\ NewRun.job.urls = FALSE
  BY DEF NewRun, JobSeen, ConvOrNone
<1>3. "new" \in Steps
  BY DEF Steps
<1>4. NewRun \in RunRow
  BY <1>1, <1>2, <1>3 DEF NewRun, RunRow, ConvOrNone, JobSeen
<1>5. /\ NewRun.at = "new" /\ NewRun.managed = {} /\ NewRun.current = NoConv
      /\ NewRun.seen.conv = NoConv /\ NewRun.seen.failure = "none" /\ ~NewRun.regular
      /\ ~NewRun.emitted
      /\ ~NewRun.restored /\ NewRun.tries = 0 /\ NewRun.submitted = 0
      /\ NewRun.checkpointed = {}
  BY DEF NewRun, Unseen
<1>6. Own(NewRun) = {}
  BY <1>5 DEF Own, Known
<1>7. Submits(NewRun)
  BY <1>2, <1>5 DEF Submits
<1> QED
  BY <1>2, <1>4, <1>5, <1>6, <1>7 DEF RunHolds, Resumes, Begins

\* A claim that has ended, or has only to be settled.
LEMMA EndedRuns ==
  ASSUME NEW step \in {"settle", "ended"}
  PROVE  LET s == [NewRun EXCEPT !.at = step]
         IN  s \in RunRow /\ RunHolds(s) /\ Own(s) = {} /\ s.at = step
<1> DEFINE s == [NewRun EXCEPT !.at = step]
<1>1. step \in Steps
  BY DEF Steps
<1>2. s \in RunRow
  BY <1>1, NewRuns DEF RunRow
<1>3. /\ s.at = step /\ s.managed = {} /\ s.current = NoConv
      /\ s.seen.conv = NoConv /\ s.seen.failure = "none" /\ ~s.regular
      /\ ~s.restored /\ s.tries = 0 /\ s.submitted = 0
      /\ s.checkpointed = {} /\ s.job.conv = NoConv /\ s.job.urls = FALSE
  BY DEF NewRun, Unseen
<1> HIDE DEF s
<1>4. Own(s) = {}
  BY <1>3 DEF Own, Known
<1>5. Submits(s)
  BY <1>3 DEF Submits
<1>6. RunHolds(s)
  BY <1>3, <1>4, <1>5 DEF RunHolds, Resumes, Begins
<1> QED
  BY <1>2, <1>3, <1>4, <1>6 DEF s

\* A claim goes on with the same job: it knows nothing new but F.
LEMMA Continues ==
  ASSUME NEW r \in RunRow, RunHolds(r), r.at \notin Idle,
         NEW s \in RunRow, s.at \notin Idle \cup {"open"}, s.job = r.job, NEW F,
         Known(s) \subseteq Known(r) \cup {NoConv, r.job.conv} \cup F,
         F = {} \/ r.job.conv = NoConv,
         r.checkpointed \subseteq s.checkpointed,
         s.checkpointed \subseteq r.checkpointed \cup Known(r) \cup {NoConv, r.job.conv} \cup F,
         Submits(s)
  PROVE  GoesOn(r, s, F)
<1>1. Own(s) \subseteq Own(r) \cup F
  BY DEF Own
<1>2. Resumes(s)
  BY DEF RunHolds, Resumes
<1>3. Begins(s)
  BY DEF Begins, Idle
<1> QED
  BY <1>1, <1>2, <1>3 DEF GoesOn, RunHolds

\* What a claim still knows once its stream is over.
Left(r) == [r EXCEPT !.current = NoConv, !.seen = [Unseen EXCEPT !.conv = r.seen.conv],
                     !.emitted = FALSE, !.regular = FALSE, !.tries = 0, !.submitted = 0]

\* A run that leaves its step for a failure, or for its result, keeps what it knows of its conversations.
LEMMA LeftRuns ==
  ASSUME NEW r \in RunRow, RunHolds(r), r.at \notin Idle, NEW C \in SUBSET Conversations,
         C \subseteq Known(r) \cup {r.job.conv},
         NEW step \in {"raised", "format"}
  PROVE  /\ LET s == [Left(r) EXCEPT !.at = step, !.managed = r.managed \cup C]
            IN  s \in RunRow /\ s.at = step /\ GoesOn(r, s, {}) 
<1> DEFINE u == [Unseen EXCEPT !.conv = r.seen.conv]
           s == [Left(r) EXCEPT !.at = step, !.managed = r.managed \cup C]
<1>1. u \in SeenRow /\ u.conv = r.seen.conv /\ u.failure = "none"
  BY RunFields DEF Unseen, SeenRow
<1>2. step \in Steps
  BY DEF Steps, LiveSteps
<1> HIDE DEF u
<1>3. s \in RunRow
  BY <1>1, <1>2 DEF Left, RunRow, ConvOrNone, u
<1>4. /\ s.at = step /\ s.job = r.job /\ s.managed = r.managed \cup C
      /\ s.checkpointed = r.checkpointed /\ s.current = NoConv /\ s.seen = u
      /\ s.restored = r.restored
      /\ s.tries = 0 /\ s.submitted = 0 /\ ~s.regular
  BY DEF Left, RunRow, u
<1> HIDE DEF s
<1>5. Submits(s)
  BY <1>1, <1>4 DEF Submits, Streaming
<1>6. Known(s) \subseteq Known(r) \cup {NoConv, r.job.conv}
  BY <1>1, <1>4 DEF Known
<1>7. GoesOn(r, s, {})
  BY <1>3, <1>4, <1>5, <1>6, Continues DEF Idle
<1> QED
  BY <1>3, <1>4, <1>7 DEF s
\* A step of the claim that only it sees.
LEMMA InnerStep ==
  ASSUME GenerationInv, NEW k \in ClaimIds, NEW s \in RunRow, GoesOn(run[k], s, {}),
         run' = [run EXCEPT ![k] = s], UNCHANGED <<row, upstream, foundBySearch>>
  PROVE  GenerationInv'
<1>1. {} \in SUBSET Conversations /\ \A c \in {} : upstream[c] # "none"
  OBVIOUS
<1>2. foundBySearch' = foundBySearch \cup {}
  OBVIOUS
<1> QED
  BY <1>1, <1>2, QuietStep

\* What a checkpoint writes.
LEMMA CheckpointedRow ==
  ASSUME row \in Row, NEW stage \in {"generating"} \cup SavedStages, NEW c \in ConvOrNone,
         NEW ids \in BOOLEAN, NEW urls \in BOOLEAN
  PROVE  LET w == Checkpointed(stage, c, ids, urls)
         IN  /\ w \in Row /\ w.status = row.status /\ w.owner = row.owner /\ w.stage = stage
             /\ w.conv = IF c = NoConv THEN row.conv ELSE c
<1>1. PICK w0 \in Row : w0 = row
  OBVIOUS
<1>2. /\ w0.ids \in BOOLEAN /\ w0.urls \in BOOLEAN /\ w0.paid \in BOOLEAN
      /\ w0.conv \in ConvOrNone /\ w0.status \in {"queued", "active", "waiting", "done", "failed"}
      /\ w0.owner \in 0..MaxClaims
  BY DEF Row
<1>3. PICK i, u, p \in BOOLEAN : i = (w0.ids \/ ids) /\ u = (w0.urls \/ urls) /\ p = (w0.paid \/ urls)
  OBVIOUS
<1>4. PICK d \in ConvOrNone : d = IF c = NoConv THEN w0.conv ELSE c
  BY <1>2
<1>5. Checkpointed(stage, c, ids, urls)
        = [w0 EXCEPT !.stage = stage, !.conv = d, !.ids = i, !.urls = u, !.paid = p]
  BY <1>1, <1>3, <1>4 DEF Checkpointed
<1>6. stage \in {"queued", "leased", "generating", "failed"} \cup SavedStages
  OBVIOUS
<1> QED
  BY <1>1, <1>4, <1>5, <1>6 DEF Row

\* A claim records what it knows, or finds that it lost the row.
Records(k, r, stage, c, ids, urls, next) ==
  /\ r = run[k] /\ r.at \notin Idle
  /\ stage \in {"generating"} \cup SavedStages /\ c \in ConvOrNone
  /\ ids \in BOOLEAN /\ urls \in BOOLEAN
  /\ c \in Known(r) \cup {NoConv, r.job.conv}
  /\ stage = "generating" => c = NoConv /\ (Fenced(k) => row.conv = NoConv)
  /\ next.at \notin Idle \cup {"open"} /\ next.job = r.job
  /\ Known(next) \subseteq Known(r) \cup {NoConv, r.job.conv}
  /\ next.checkpointed = r.checkpointed /\ Submits(next)
  /\ Checkpoint(k, stage, c, ids, urls, next) /\ UNCHANGED <<upstream, foundBySearch>>

\* What a checkpoint writes while its lease is good, or leaves.
LEMMA CheckpointStep ==
  ASSUME GenerationInv, NEW k \in ClaimIds, NEW r \in RunRow, NEW stage, NEW c, NEW ids, NEW urls,
         NEW next \in RunRow, Records(k, r, stage, c, ids, urls, next)
  PROVE  GenerationInv'
<1>0. /\ r = run[k] /\ r.at \notin Idle
      /\ stage \in {"generating"} \cup SavedStages /\ c \in ConvOrNone
      /\ ids \in BOOLEAN /\ urls \in BOOLEAN
      /\ c \in Known(r) \cup {NoConv, r.job.conv}
      /\ stage = "generating" => c = NoConv /\ (Fenced(k) => row.conv = NoConv)
      /\ next.at \notin Idle \cup {"open"} /\ next.job = r.job
      /\ Known(next) \subseteq Known(r) \cup {NoConv, r.job.conv}
      /\ next.checkpointed = r.checkpointed /\ Submits(next)
      /\ Checkpoint(k, stage, c, ids, urls, next) /\ UNCHANGED <<upstream, foundBySearch>>
  BY DEF Records
<1> USE <1>0
<1>1. RunHolds(r) /\ row \in Row
  BY DEF GenerationInv, GenTypes
<1>2. Some(c) \in SUBSET Conversations /\ Some(c) \subseteq Known(r) \cup {r.job.conv}
  BY DEF Some, ConvOrNone
<1>3. CASE Fenced(k)
  <2> DEFINE s == [next EXCEPT !.managed = next.managed \cup Some(c),
                               !.checkpointed = next.checkpointed \cup Some(c)]
  <2>1. s \in RunRow
    BY <1>2 DEF RunRow
  <2>2. /\ s.at = next.at /\ s.job = next.job /\ s.managed = next.managed \cup Some(c)
        /\ s.checkpointed = r.checkpointed \cup Some(c) /\ s.seen = next.seen
        /\ s.current = next.current /\ s.restored = next.restored /\ s.regular = next.regular
        /\ s.emitted = next.emitted /\ s.tries = next.tries /\ s.submitted = next.submitted
    BY DEF RunRow
  <2>3. run' = [run EXCEPT ![k] = s] /\ row' = Checkpointed(stage, c, ids, urls)
    BY <1>3 DEF Checkpoint
  <2> HIDE DEF s
  <2>4. Submits(s)
    BY <2>2 DEF Submits
  <2>5. Known(s) \subseteq Known(r) \cup {NoConv, r.job.conv}
    BY <1>2, <2>2 DEF Known
  <2>6. GoesOn(r, s, {})
    BY <1>1, <1>2, <2>1, <2>2, <2>4, <2>5, Continues
  <2>7. /\ row' \in Row /\ row'.status = row.status /\ row'.owner = row.owner
        /\ row'.stage = stage /\ row'.conv = IF c = NoConv THEN row.conv ELSE c
    BY <1>1, <2>3, CheckpointedRow
  <2>8. \/ row'.conv = row.conv
        \/ /\ row'.conv \in (Own(run[k]) \cup {run[k].job.conv}) \ {NoConv}
           /\ row'.conv \in s.checkpointed
    BY <2>2, <2>7 DEF Own, Some
  <2>9. row'.conv # NoConv => row'.stage \in SavedStages
    BY <1>3, <2>7
  <2> QED
    BY <1>3, <2>1, <2>2, <2>3, <2>6, <2>7, <2>8, <2>9, RecordingStep
<1>4. CASE ~Fenced(k)
  <2>1. PICK s : s = [Left(r) EXCEPT !.at = "raised", !.managed = r.managed \cup Some(c)]
    OBVIOUS
  <2>2. row' = row /\ run' = [run EXCEPT ![k] = s]
    <3>1. row' = row /\ run' = [run EXCEPT ![k] = [StreamLeft(k) EXCEPT
                                  !.at = "raised", !.managed = @ \cup Some(c)]]
      BY <1>4 DEF Checkpoint
    <3>2. StreamLeft(k) = Left(r) /\ Left(r).managed = r.managed
      BY DEF StreamLeft, Left, RunRow
    <3> QED
      BY <2>1, <3>1, <3>2
  <2>3. s \in RunRow /\ GoesOn(r, s, {})
    BY <1>1, <1>2, <2>1, LeftRuns
  <2> QED
    BY <2>2, <2>3, InnerStep
<1> QED
  BY <1>3, <1>4

\* An exception reaches the handler.
LEMMA RaiseStep ==
  ASSUME GenerationInv, NEW k \in ClaimIds, run[k].at \notin Idle,
         Raise(k) \/ run' = [run EXCEPT ![k] = [StreamLeft(k) EXCEPT !.at = "raised"]],
         UNCHANGED <<row, upstream, foundBySearch>>
  PROVE  GenerationInv'
<1>1. PICK r \in RunRow : r = run[k] /\ RunHolds(r)
  BY DEF GenerationInv, GenTypes
<1>2. StreamLeft(k) = Left(r) /\ Left(r).managed = r.managed
  BY <1>1 DEF StreamLeft, Left, RunRow
<1>3. ASSUME NEW C \in {{}, Some(r.seen.conv)},
             run' = [run EXCEPT ![k] = [Left(r) EXCEPT !.at = "raised", !.managed = r.managed \cup C]]
      PROVE  GenerationInv'
  <2>1. C \in SUBSET Conversations /\ C \subseteq Known(r) \cup {r.job.conv}
    BY RunFields DEF Some, Known, ConvOrNone
  <2>2. PICK s : s = [Left(r) EXCEPT !.at = "raised", !.managed = r.managed \cup C]
    OBVIOUS
  <2>3. s \in RunRow /\ GoesOn(r, s, {})
    BY <1>1, <2>1, <2>2, LeftRuns
  <2> QED
    BY <1>1, <1>3, <2>2, <2>3, InnerStep
<1>4. CASE Raise(k)
  <2>1. run' = [run EXCEPT ![k] = [Left(r) EXCEPT !.at = "raised",
                                     !.managed = r.managed \cup Some(r.seen.conv)]]
    BY <1>1, <1>2, <1>4 DEF Raise
  <2> QED
    BY <1>3, <2>1
<1>5. CASE run' = [run EXCEPT ![k] = [StreamLeft(k) EXCEPT !.at = "raised"]]
  <2>1. [Left(r) EXCEPT !.at = "raised"] = [Left(r) EXCEPT !.at = "raised", !.managed = r.managed \cup {}]
    <3>1. Left(r) \in RunRow
      <4>1. Unseen \in SeenRow
        BY DEF Unseen, SeenRow, ConvOrNone
      <4>2. [Unseen EXCEPT !.conv = r.seen.conv] \in SeenRow
        BY <4>1, RunFields DEF SeenRow
      <4> QED
        BY <4>2 DEF Left, RunRow, ConvOrNone
    <3> QED
      BY <1>2, <3>1 DEF RunRow
  <2>2. run' = [run EXCEPT ![k] = [Left(r) EXCEPT !.at = "raised", !.managed = r.managed \cup {}]]
    BY <1>2, <1>5, <2>1
  <2> QED
    BY <1>3, <2>2
<1> QED
  BY <1>4, <1>5

\* The claim goes to another step.
LEMMA GoStep ==
  ASSUME GenerationInv, NEW k \in ClaimIds, run[k].at \notin Idle,
         NEW step \in Steps \ (Idle \cup {"open", "stream", "connect"}), Go(k, step),
         step \in Streaming => run[k].at \in Streaming,
         UNCHANGED <<row, upstream, foundBySearch>>
  PROVE  GenerationInv'
<1>1. PICK r \in RunRow : r = run[k] /\ RunHolds(r)
  BY DEF GenerationInv, GenTypes
<1>2. PICK s : s = [r EXCEPT !.at = step]
  OBVIOUS
<1>3. /\ s \in RunRow /\ s.at = step /\ s.job = r.job /\ s.managed = r.managed
      /\ s.checkpointed = r.checkpointed /\ s.current = r.current /\ s.seen = r.seen
      /\ s.restored = r.restored /\ s.regular = r.regular /\ s.emitted = r.emitted
      /\ s.tries = r.tries /\ s.submitted = r.submitted
  BY <1>2 DEF RunRow
<1>4. run' = [run EXCEPT ![k] = s]
  BY <1>1, <1>2 DEF Go
<1>5. Submits(s)
  BY <1>1, <1>3 DEF RunHolds, Submits
<1>6. Known(s) = Known(r)
  BY <1>3 DEF Known
<1>7. GoesOn(r, s, {})
  BY <1>1, <1>3, <1>5, <1>6, Continues
<1> QED
  BY <1>1, <1>3, <1>4, <1>7, InnerStep

\* A claim begins, with the conversation of the row or with none.
LEMMA StartHolds ==
  ASSUME GenerationInv, NEW k \in ClaimIds, StartClaim(k)
  PROVE  GenerationInv'
<1>1. PICK r \in RunRow : r = run[k] /\ r = NewRun
  BY DEF GenerationInv, GenTypes, RunHolds, Begins, StartClaim
<1>2. PICK o \in Row : o = row
  BY DEF GenerationInv, GenTypes
<1>3. /\ o.status \in {"queued", "waiting"} /\ o.conv \in ConvOrNone /\ o.paid \in BOOLEAN
      /\ o.ids \in BOOLEAN /\ o.urls \in BOOLEAN
      /\ o.stage \in {"queued", "leased", "generating", "failed"} \cup SavedStages
  BY <1>2 DEF StartClaim, Row
<1>4. PICK stage : stage = IF o.stage = "queued" THEN "leased" ELSE o.stage
  OBVIOUS
<1>5. stage \in {"queued", "leased", "generating", "failed"} \cup SavedStages
  BY <1>3, <1>4
<1>6. row' = [o EXCEPT !.status = "active", !.owner = k, !.stage = stage]
  BY <1>2, <1>4 DEF StartClaim
<1>7. /\ row' \in Row /\ row'.status = "active" /\ row'.owner = k /\ row'.stage = stage
      /\ row'.conv = o.conv
  <2>1. k \in 0..MaxClaims
    BY GenerationAssumption DEF ClaimIds
  <2> QED
    BY <1>2, <1>5, <1>6, <2>1 DEF Row
<1>8. PICK job \in JobSeen : job = [stage |-> stage, conv |-> o.conv, ids |-> o.ids, urls |-> o.urls]
  BY <1>3, <1>5 DEF JobSeen
<1>9. job.conv = o.conv /\ job.stage = stage
  BY <1>8
<1>10. PICK s : s = [r EXCEPT !.at = "open", !.committed = o.paid, !.job = job,
                              !.managed = Some(o.conv)]
  OBVIOUS
<1>11. run' = [run EXCEPT ![k] = s]
  BY <1>1, <1>2, <1>7, <1>8, <1>10 DEF StartClaim
<1>12. s \in RunRow
  BY <1>1, <1>3, <1>8, <1>10 DEF RunRow, Steps, LiveSteps, Some, ConvOrNone
<1>13. /\ s.at = "open" /\ s.job = job /\ s.managed = Some(o.conv) /\ s.checkpointed = {}
       /\ ~s.restored /\ s.current = NoConv /\ s.seen.conv = NoConv
       /\ s.seen.failure = "none" /\ ~s.regular /\ ~s.emitted /\ s.tries = 0 /\ s.submitted = 0
  BY <1>1, <1>10 DEF NewRun, Unseen
<1>14. Own(s) = {}
  BY <1>9, <1>13 DEF Own, Known, Some
<1>15. /\ \A c \in foundBySearch : upstream[c] # "none"
       /\ \A l \in ClaimIds : OwnIsOpen(run[l])
       /\ OwnersApart /\ ResumableConversationKept
       /\ o.conv # NoConv => o.stage \in SavedStages
  BY <1>2, <1>3 DEF GenerationInv, SharedInv
<1>16. o.conv # NoConv => stage \in SavedStages
  BY <1>4, <1>15 DEF SavedStages
<1>17. RunHolds(s)
  <2>1. Submits(s)
    BY <1>13 DEF Submits, Streaming
  <2>2. Resumes(s)
    BY <1>9, <1>13, <1>16 DEF Resumes, Known, Some
  <2>3. Begins(s)
    BY <1>13 DEF Begins, Idle
  <2> QED
    BY <2>1, <2>2, <2>3 DEF RunHolds
<1>18. /\ run'[k] = s /\ \A l \in ClaimIds \ {k} : run'[l] = run[l]
       /\ GenTypes' /\ row'.conv = row.conv /\ UNCHANGED <<upstream, foundBySearch>>
  <2>1. UNCHANGED <<upstream, foundBySearch>>
    BY DEF StartClaim
  <2>2. /\ run \in [ClaimIds -> RunRow]
        /\ upstream \in [Conversations -> {"none", "open", "deleted"}]
        /\ foundBySearch \in SUBSET Conversations
    BY DEF GenerationInv, GenTypes
  <2>3. /\ run' \in [ClaimIds -> RunRow]
        /\ run'[k] = s /\ \A l \in ClaimIds \ {k} : run'[l] = run[l]
    BY <1>11, <1>12, <2>2
  <2> QED
    BY <1>2, <1>7, <2>1, <2>2, <2>3 DEF GenTypes
<1>19. \A l \in ClaimIds : RunHolds(run[l])'
  <2>1. \A l \in ClaimIds : RunHolds(run'[l])
    BY <1>17, <1>18 DEF GenerationInv
  <2> QED
    BY <2>1 DEF RunHolds, Resumes, Submits, Begins, Own, Known
<1>20. \A l \in ClaimIds : OwnIsOpen(run[l])'
  BY <1>14, <1>15, <1>18 DEF OwnIsOpen
<1>21. \A l \in ClaimIds : RowIsKnown(l)'
  BY <1>2, <1>7, <1>9, <1>13, <1>18 DEF RowIsKnown, Fenced
<1>22. OwnersApart'
  BY <1>14, <1>15, <1>18 DEF OwnersApart
<1>23. ResumableConversationKept'
  BY <1>2, <1>3, <1>15, <1>18 DEF ResumableConversationKept
<1> QED
  BY <1>2, <1>7, <1>15, <1>16, <1>18, <1>19, <1>20, <1>21, <1>22, <1>23 DEF GenerationInv, SharedInv

\* What is left to resume from decides the stage of a row that is given back.
LEMMA ReclaimedStages ==
  /\ ReclaimedStage \in {"generating"} \cup SavedStages
  /\ row.conv # NoConv => ReclaimedStage \in SavedStages
  BY DEF ReclaimedStage, SavedStages

\* The lease of a claim is lost to another one.
LEMMA LoseHolds == ASSUME GenerationInv, LoseLease PROVE GenerationInv'
<1>1. PICK stage \in {"generating"} \cup SavedStages : stage = ReclaimedStage
  BY ReclaimedStages
<1>2. row.conv # NoConv => stage \in SavedStages
  BY <1>1, ReclaimedStages
<1>3. PICK o \in Row : o = row
  BY DEF GenerationInv, GenTypes
<1>4. row' = [o EXCEPT !.status = "queued", !.stage = stage] /\ row.status = "active"
  BY <1>1, <1>3 DEF LoseLease
<1>5. row' \in Row /\ row'.status = "queued" /\ row'.stage = stage /\ row'.conv = row.conv
  BY <1>3, <1>4 DEF Row
<1>6. PICK s \in RunRow : s = [NewRun EXCEPT !.at = "ended"] /\ RunHolds(s) /\ Own(s) = {} /\ s.at = "ended"
  BY EndedRuns
<1>7. run' = run \/ \E k \in ClaimIds : run' = [run EXCEPT ![k] = s]
  <2>1. run' = run \/ run' = [run EXCEPT ![row.owner] = s]
    BY <1>6 DEF LoseLease, End
  <2>2. row.owner \notin ClaimIds => [run EXCEPT ![row.owner] = s] = run
    BY DEF GenerationInv, GenTypes
  <2> QED
    BY <2>1, <2>2
<1>8. UNCHANGED <<upstream, foundBySearch>> /\ s.at \in Idle
  BY <1>6 DEF LoseLease, Idle
<1> QED
  BY <1>2, <1>4, <1>5, <1>6, <1>7, <1>8, ReleasingStep

\* A claim ends with its outcome.
LEMMA SettleHolds ==
  ASSUME GenerationInv, NEW k \in ClaimIds, SettleClaim(k)
  PROVE  GenerationInv'
<1>1. PICK s \in RunRow : s = [NewRun EXCEPT !.at = "ended"] /\ RunHolds(s) /\ Own(s) = {} /\ s.at = "ended"
  BY EndedRuns
<1>2. run' = [run EXCEPT ![k] = s] /\ s.at \in Idle /\ UNCHANGED <<upstream, foundBySearch>>
  BY <1>1 DEF SettleClaim, End, Idle
<1>3. PICK o \in Row : o = row
  BY DEF GenerationInv, GenTypes
<1>4. ASSUME Fenced(k), row' \in Row, row'.status \notin {"active", "done"},
             row'.conv \in {row.conv, NoConv},
             row'.conv # NoConv /\ row'.status # "failed" => row'.stage \in SavedStages
      PROVE  GenerationInv'
  <2>1. row.status = "active"
    BY <1>4 DEF Fenced
  <2> QED
    BY <1>1, <1>2, <1>4, <2>1, ReleasingStep
<1>5. ASSUME Fenced(k), NEW switch \in BOOLEAN,
             row' = [row EXCEPT !.status = "waiting",
                             !.conv = IF switch THEN NoConv ELSE @,
                             !.ids = ~switch /\ @]
      PROVE  GenerationInv'
  <2>1. PICK c \in ConvOrNone, ids \in BOOLEAN :
           c = (IF switch THEN NoConv ELSE o.conv) /\ ids = (~switch /\ o.ids)
    BY <1>3 DEF Row, ConvOrNone
  <2>2. row' = [o EXCEPT !.status = "waiting", !.conv = c, !.ids = ids]
    BY <1>3, <1>5, <2>1
  <2>3. row' \in Row /\ row'.status = "waiting" /\ row'.conv = c /\ row'.stage = row.stage
    BY <1>3, <2>2 DEF Row
  <2>4. c \in {row.conv, NoConv}
    BY <1>3, <2>1
  <2>5. row.conv # NoConv => row.stage \in SavedStages
    BY <1>5 DEF Fenced, GenerationInv, SharedInv
  <2> QED
    BY <1>4, <1>5, <2>3, <2>4, <2>5
<1>6. ASSUME Fenced(k), row' = [row EXCEPT !.status = "queued", !.stage = ReclaimedStage]
      PROVE  GenerationInv'
  <2>1. PICK stage \in {"generating"} \cup SavedStages : stage = ReclaimedStage
    BY ReclaimedStages
  <2>2. row' = [o EXCEPT !.status = "queued", !.stage = stage]
    BY <1>3, <1>6, <2>1
  <2>3. row' \in Row /\ row'.status = "queued" /\ row'.stage = stage /\ row'.conv = row.conv
    BY <1>3, <2>2 DEF Row
  <2>4. row.conv # NoConv => stage \in SavedStages
    BY <2>1, ReclaimedStages
  <2> QED
    BY <1>4, <1>6, <2>3, <2>4
<1>7. ASSUME Fenced(k), row' = [row EXCEPT !.status = "failed", !.stage = "failed"]
      PROVE  GenerationInv'
  <2>1. row' \in Row /\ row'.status = "failed" /\ row'.conv = row.conv
    BY <1>3, <1>7 DEF Row
  <2> QED
    BY <1>4, <1>7, <2>1
<1>8. ASSUME UNCHANGED row PROVE GenerationInv'
  <2>1. GoesOn(run[k], s, {})
    BY <1>1, <1>2 DEF GoesOn
  <2> QED
    BY <1>1, <1>2, <1>8, <2>1, InnerStep
<1> QED
  BY <1>5, <1>6, <1>7, <1>8 DEF SettleClaim

\* The claim finds what an earlier claim left.
LEMMA RecoverHolds ==
  ASSUME GenerationInv, NEW k \in ClaimIds,
         RecoverFinal(k) \/ RecoverUpscaled(k) \/ RecoverDownloaded(k) \/ Resume(k)
  PROVE  GenerationInv'
<1>1. PICK r \in RunRow : r = run[k] /\ RunHolds(r)
  BY DEF GenerationInv, GenTypes
<1>2. /\ r.at = "open" /\ r.at \notin Idle /\ UNCHANGED foundBySearch
      /\ r.checkpointed = {} /\ r.submitted = 0 /\ ~r.emitted /\ ~r.restored
  BY <1>1 DEF RecoverFinal, RecoverUpscaled, RecoverDownloaded, Resume, Nothing, RunHolds,
              Begins, Idle
<1>3. /\ r.job.conv \in ConvOrNone /\ r.job.ids \in BOOLEAN /\ r.job.urls \in BOOLEAN
      /\ r.seen.failure \in {"none", "mode", "text", "fatal"} /\ r.tries \in Nat
      /\ r.seen.failure = "none" /\ ~r.regular
  <2>1. /\ r.job \in JobSeen /\ r.seen \in SeenRow /\ r.tries \in Nat
        /\ r.seen.failure \in {"none", "mode", "text", "fatal"}
    BY RunFields
  <2>2. r.seen.failure = "none" /\ ~r.regular
    BY <1>1, <1>2 DEF RunHolds, Submits
  <2> QED
    BY <2>1, <2>2 DEF JobSeen
<1>4. CASE RecoverFinal(k)
  <2>1. CASE Fenced(k)
    <3>1. PICK s \in RunRow : s = [NewRun EXCEPT !.at = "ended"] /\ RunHolds(s)
      BY EndedRuns
    <3>2. row' \in Row /\ row'.status = "done"
      BY <1>4, <2>1 DEF RecoverFinal, Completed, Row, GenerationInv, GenTypes
    <3>3. run' = [run EXCEPT ![k] = s] /\ upstream' = Deleted(run[k].managed)
      BY <1>4, <2>1, <3>1 DEF RecoverFinal, End
    <3> QED
      BY <1>2, <3>1, <3>2, <3>3, CompletingStep
  <2>2. CASE ~Fenced(k)
    <3>1. Raise(k) /\ UNCHANGED <<row, upstream>>
      BY <1>4, <2>2 DEF RecoverFinal
    <3> QED
      BY <1>1, <1>2, <3>1, RaiseStep
  <2> QED
    BY <2>1, <2>2
<1>5. CASE RecoverUpscaled(k)
  <2>1. PICK next : next = [r EXCEPT !.at = "persist", !.restored = TRUE]
    OBVIOUS
  <2>2. /\ next \in RunRow /\ next.at = "persist" /\ next.job = r.job /\ next.managed = r.managed
        /\ next.checkpointed = r.checkpointed /\ next.current = r.current /\ next.seen = r.seen
        /\ next.restored /\ next.regular = r.regular /\ next.emitted = r.emitted
        /\ next.tries = r.tries /\ next.submitted = r.submitted
    BY <2>1 DEF RunRow, Steps, LiveSteps
  <2>3. Submits(next) /\ Known(next) = Known(r) /\ next.at \notin Idle \cup {"open"}
    BY <1>2, <1>3, <2>2 DEF Submits, Known, Streaming, Idle
  <2>4. /\ Checkpoint(k, "saving", r.job.conv, r.job.ids, r.job.urls, next)
        /\ UNCHANGED <<upstream, foundBySearch>>
    BY <1>1, <1>5, <2>1 DEF RecoverUpscaled
  <2>5. "saving" \in {"generating"} \cup SavedStages
    BY DEF SavedStages
  <2>6. r.job.conv \in Known(r) \cup {NoConv, r.job.conv} /\ "saving" # "generating"
    OBVIOUS
  <2>7. Records(k, r, "saving", r.job.conv, r.job.ids, r.job.urls, next)
    BY <1>1, <1>2, <1>3, <2>2, <2>3, <2>4, <2>5, <2>6 DEF Records
  <2> QED
    BY <2>2, <2>7, CheckpointStep
<1>6. CASE RecoverDownloaded(k)
  <2>1. CASE Fenced(k)
    <3>1. PICK u \in SeenRow : u = [r.seen EXCEPT !.conv = r.job.conv] /\ u.conv = r.job.conv
                               /\ u.failure = r.seen.failure
      <4>1. PICK v \in SeenRow : v = r.seen
        BY RunFields
      <4>2. PICK u : u = [v EXCEPT !.conv = r.job.conv]
        OBVIOUS
      <4>3. u \in SeenRow /\ u.conv = r.job.conv /\ u.failure = v.failure
        BY <1>3, <4>2 DEF SeenRow
      <4> QED
        BY <4>1, <4>2, <4>3
    <3>2. PICK s : s = [r EXCEPT !.at = "format", !.restored = TRUE, !.seen = u]
      OBVIOUS
    <3>3. /\ s \in RunRow /\ s.at = "format" /\ s.job = r.job /\ s.managed = r.managed
          /\ s.checkpointed = r.checkpointed /\ s.current = r.current /\ s.seen = u
          /\ s.restored /\ s.regular = r.regular /\ s.emitted = r.emitted
          /\ s.tries = r.tries /\ s.submitted = r.submitted
      BY <3>2 DEF RunRow, Steps, LiveSteps
    <3>4. /\ Submits(s) /\ Known(s) \subseteq Known(r) \cup {NoConv, r.job.conv}
          /\ s.at \notin Idle \cup {"open"}
      BY <1>2, <1>3, <3>1, <3>3 DEF Submits, Known, Streaming, Idle
    <3>5. GoesOn(r, s, {})
      BY <1>1, <1>2, <3>3, <3>4, Continues
    <3>6. run' = [run EXCEPT ![k] = s]
      <4>1. run' = [run EXCEPT ![k].at = "format", ![k].restored = TRUE,
                                ![k].seen.conv = run[k].job.conv]
        BY <1>6, <2>1 DEF RecoverDownloaded
      <4>2. run' = [run EXCEPT ![k].at = "format", ![k].restored = TRUE, ![k].seen = u]
        BY <1>1, <3>1, <4>1
      <4> QED
        BY <1>1, <3>2, <4>2
    <3> QED
      BY <1>1, <1>6, <3>3, <3>5, <3>6, InnerStep DEF RecoverDownloaded
  <2>2. CASE ~Fenced(k)
    <3>1. Raise(k) /\ UNCHANGED <<row, upstream>>
      BY <1>6, <2>2 DEF RecoverDownloaded
    <3> QED
      BY <1>1, <1>2, <3>1, RaiseStep
  <2> QED
    BY <2>1, <2>2
<1>7. CASE Resume(k)
  <2>1. PICK step \in {"fetch", "resolve", "connect"} : step = ResumeAt(k)
    BY DEF ResumeAt
  <2>2. PICK c \in ConvOrNone : c = IF step # "connect" THEN r.job.conv ELSE NoConv
    BY <1>3 DEF ConvOrNone
  <2>3. PICK ids \in BOOLEAN : ids = (step # "connect" /\ r.job.ids)
    OBVIOUS
  <2>4. PICK urls \in BOOLEAN : urls = (step = "fetch")
    OBVIOUS
  <2>5. PICK u \in SeenRow : u = [r.seen EXCEPT !.conv = c] /\ u.conv = c
                             /\ u.failure = r.seen.failure
    <3>1. PICK v \in SeenRow : v = r.seen
      BY RunFields
    <3>2. PICK u : u = [v EXCEPT !.conv = c]
      OBVIOUS
    <3>3. u \in SeenRow /\ u.conv = c /\ u.failure = v.failure
      BY <3>2 DEF SeenRow
    <3> QED
      BY <3>1, <3>2, <3>3
  <2>6. PICK next : next = [r EXCEPT !.at = step, !.seen = u]
    OBVIOUS
  <2>7. /\ next \in RunRow /\ next.at = step /\ next.job = r.job /\ next.managed = r.managed
        /\ next.checkpointed = r.checkpointed /\ next.current = r.current /\ next.seen = u
        /\ next.restored = r.restored /\ next.regular = r.regular /\ next.emitted = r.emitted
        /\ next.tries = r.tries /\ next.submitted = r.submitted
    BY <2>6 DEF RunRow, Steps, LiveSteps
  <2>8. step = "connect" => r.job.conv = NoConv /\ ~r.job.urls
    BY <1>1, <2>1 DEF ResumeAt
  <2>9. /\ Submits(next) /\ Known(next) \subseteq Known(r) \cup {NoConv, r.job.conv}
        /\ next.at \notin Idle \cup {"open"}
    BY <1>2, <1>3, <2>2, <2>5, <2>7, <2>8 DEF Submits, Known, Streaming, Idle
  <2>10. PICK stage \in {"generating"} \cup SavedStages :
           stage = StageOf(step) /\ (stage = "generating" => step = "connect")
    BY DEF StageOf, SavedStages
  <2>11. /\ Checkpoint(k, stage, c, ids, urls, next)
         /\ UNCHANGED <<upstream, foundBySearch>>
    <3>1. /\ UNCHANGED <<upstream, foundBySearch>>
          /\ Checkpoint(k, StageOf(step), IF step # "connect" THEN r.job.conv ELSE NoConv,
                step # "connect" /\ r.job.ids, step = "fetch",
                [r EXCEPT !.at = step,
                          !.seen.conv = IF step # "connect" THEN r.job.conv ELSE NoConv])
      BY <1>1, <1>7, <2>1 DEF Resume
    <3>2. [r EXCEPT !.at = step, !.seen.conv = IF step # "connect" THEN r.job.conv ELSE NoConv]
            = next
      BY <2>2, <2>5, <2>6
    <3> QED
      BY <2>2, <2>3, <2>4, <2>10, <3>1, <3>2
  <2>12. stage = "generating" => c = NoConv /\ (Fenced(k) => row.conv = NoConv)
    <3>1. ASSUME stage = "generating", Fenced(k) PROVE row.conv = NoConv
      <4>1. row.conv = r.job.conv \/ row.conv \in r.checkpointed
        BY <1>1, <1>2, <3>1 DEF GenerationInv, SharedInv, RowIsKnown, Fenced
      <4> QED
        BY <1>2, <2>8, <2>10, <3>1, <4>1
    <3> QED
      BY <2>2, <2>10, <3>1
  <2>13. c \in Known(r) \cup {NoConv, r.job.conv}
    BY <2>2
  <2>14. Records(k, r, stage, c, ids, urls, next)
    BY <1>1, <1>2, <2>7, <2>9, <2>11, <2>12, <2>13 DEF Records
  <2> QED
    BY <2>7, <2>14, CheckpointStep
<1> QED
  BY <1>4, <1>5, <1>6, <1>7

\* A run at another step.
Moved(r, step) == [r EXCEPT !.at = step]

\* A run that goes on to another step is a run of the same job.
LEMMA MovedRuns ==
  ASSUME NEW r \in RunRow, RunHolds(r), NEW step \in Steps \ (Idle \cup Streaming \cup {"open"})
  PROVE  /\ Moved(r, step) \in RunRow /\ Moved(r, step).at = step /\ Moved(r, step).job = r.job
         /\ Moved(r, step).at \notin Idle \cup {"open"}
         /\ Known(Moved(r, step)) = Known(r) /\ Moved(r, step).checkpointed = r.checkpointed
         /\ Submits(Moved(r, step))
<1>1. PICK s : s = Moved(r, step)
  OBVIOUS
<1>2. /\ s \in RunRow /\ s.at = step /\ s.job = r.job /\ s.managed = r.managed
      /\ s.checkpointed = r.checkpointed /\ s.current = r.current /\ s.seen = r.seen
      /\ s.restored = r.restored /\ s.regular = r.regular /\ s.emitted = r.emitted
      /\ s.tries = r.tries /\ s.submitted = r.submitted
  BY <1>1 DEF RunRow, Moved
<1>3. Submits(s)
  BY <1>2 DEF RunHolds, Submits, Streaming
<1>4. Known(s) = Known(r)
  BY <1>2 DEF Known
<1> QED
  BY <1>1, <1>2, <1>3, <1>4

\* The stored conversation is resolved.
LEMMA ResolveHolds ==
  ASSUME GenerationInv, NEW k \in ClaimIds, ResolveCheckpoint(k)
  PROVE  GenerationInv'
<1>1. PICK r \in RunRow : r = run[k] /\ RunHolds(r)
  BY DEF GenerationInv, GenTypes
<1>2. r.at \notin Idle /\ UNCHANGED <<upstream, foundBySearch>>
  BY <1>1 DEF ResolveCheckpoint, Idle
<1>3. ASSUME NEW step \in {"refetch", "format", "raised"},
             Checkpoint(k, "downloading", r.job.conv, TRUE, TRUE, Moved(r, step))
      PROVE  GenerationInv'
  <2>1. step \in Steps \ (Idle \cup Streaming \cup {"open"})
    BY DEF Steps, LiveSteps, Idle, Streaming
  <2>2. r.job.conv \in ConvOrNone /\ "downloading" \in SavedStages
    BY RunFields DEF SavedStages
  <2>3. Records(k, r, "downloading", r.job.conv, TRUE, TRUE, Moved(r, step))
    BY <1>1, <1>2, <1>3, <2>1, <2>2, MovedRuns DEF Records
  <2> QED
    BY <1>1, <2>1, <2>3, MovedRuns, CheckpointStep
<1>4. CASE Raise(k) /\ UNCHANGED row
  BY <1>1, <1>2, <1>4, RaiseStep
<1>5. CASE \E step \in {"refetch", "format", "raised"} :
             Checkpoint(k, "downloading", r.job.conv, TRUE, TRUE, Moved(r, step))
  BY <1>3, <1>5
<1>6. [r EXCEPT !.at = IF @ = "again" THEN "refetch" ELSE "format"]
        \in {Moved(r, "refetch"), Moved(r, "format")}
  BY DEF Moved
<1> QED
  BY <1>1, <1>4, <1>5, <1>6 DEF ResolveCheckpoint, Moved

\* The steps of a stream and of a result that touch no conversation.
LEMMA PlainHolds ==
  ASSUME GenerationInv, NEW k \in ClaimIds,
         \/ FetchUrls(k) \/ StreamFails(k) \/ StreamEnds(k) \/ StreamBreaks(k)
         \/ RejectResult(k) \/ PersistGenerated(k) \/ Interrupt(k)
  PROVE  GenerationInv'
<1>1. UNCHANGED <<row, upstream, foundBySearch>>
  BY DEF FetchUrls, StreamFails, StreamEnds, StreamBreaks, RejectResult, PersistGenerated, Interrupt
<1>2. run[k].at \notin Idle
  BY DEF FetchUrls, StreamFails, StreamEnds, StreamBreaks, RejectResult, PersistGenerated,
         Interrupt, Idle, LiveSteps
<1>3. CASE Raise(k) \/ run' = [run EXCEPT ![k] = [StreamLeft(k) EXCEPT !.at = "raised"]]
  BY <1>1, <1>2, <1>3, RaiseStep
<1>4. ASSUME NEW step \in {"format", "again", "result", "recover", "commit"}, Go(k, step),
             step \in {"result", "recover"} => run[k].at = "events"
      PROVE  GenerationInv'
  <2>1. step \in Steps \ (Idle \cup {"open", "stream", "connect"})
    BY DEF Steps, LiveSteps, Idle
  <2>2. step \in Streaming => run[k].at \in Streaming
    BY <1>4 DEF Streaming
  <2> QED
    BY <1>1, <1>2, <1>4, <2>1, <2>2, GoStep
<1>5. \/ Raise(k) \/ run' = [run EXCEPT ![k] = [StreamLeft(k) EXCEPT !.at = "raised"]]
      \/ \E step \in {"format", "again", "result", "recover", "commit"} :
           Go(k, step) /\ (step \in {"result", "recover"} => run[k].at = "events")
  BY DEF FetchUrls, StreamFails, StreamEnds, StreamBreaks, RejectResult, PersistGenerated, Interrupt
<1> QED
  BY <1>3, <1>4, <1>5

\* The claim connects, and again after an early failure.
LEMMA ConnectHolds ==
  ASSUME GenerationInv, NEW k \in ClaimIds, Connect(k) \/ EarlyRetry(k)
  PROVE  GenerationInv'
<1>1. PICK r \in RunRow : r = run[k] /\ RunHolds(r)
  BY DEF GenerationInv, GenTypes
<1>2. /\ r.seen.failure \in {"none", "mode", "text", "fatal"} /\ r.tries \in Nat
      /\ r.submitted \in Nat /\ r.regular \in BOOLEAN /\ r.emitted \in BOOLEAN
  BY RunFields
<1>3. ASSUME NEW s \in RunRow, s.at \in {"stream", "connect"}, r.at \in Streaming, s.job = r.job,
             s.managed = r.managed, s.checkpointed = r.checkpointed, s.current = r.current,
             s.seen = r.seen, Submits(s), run' = [run EXCEPT ![k] = s],
             UNCHANGED <<row, upstream, foundBySearch>>
      PROVE  GenerationInv'
  <2>1. Known(s) = Known(r)
    BY <1>3 DEF Known
  <2>2. r.at \notin Idle /\ s.at \notin Idle \cup {"open"}
    BY <1>3 DEF Idle, Streaming
  <2>3. GoesOn(r, s, {})
    BY <1>1, <1>3, <2>1, <2>2, Continues
  <2> QED
    BY <1>1, <1>3, <2>3, InnerStep
<1>4. CASE Connect(k)
  <2>1. PICK n \in Nat : n = r.tries + 1
    BY <1>2
  <2>2. PICK s : s = [r EXCEPT !.at = "stream", !.tries = n, !.viaFallback = FALSE,
                                !.regular = FALSE, !.emitted = FALSE]
    OBVIOUS
  <2>3. /\ s \in RunRow /\ s.at = "stream" /\ s.job = r.job /\ s.managed = r.managed
        /\ s.checkpointed = r.checkpointed /\ s.current = r.current /\ s.seen = r.seen
        /\ s.restored = r.restored /\ ~s.regular /\ ~s.emitted
        /\ s.tries = n /\ s.submitted = r.submitted
    BY <2>2 DEF RunRow, Steps, LiveSteps
  <2>4. run' = [run EXCEPT ![k] = s] /\ UNCHANGED <<row, upstream, foundBySearch>>
    BY <1>1, <1>4, <2>1, <2>2 DEF Connect
  <2>5. r.at = "connect"
    BY <1>1, <1>4 DEF Connect
  <2>6. Submits(s)
    BY <1>1, <1>2, <2>1, <2>3, <2>5 DEF RunHolds, Submits, Streaming
  <2> QED
    BY <1>3, <2>3, <2>4, <2>5, <2>6 DEF Streaming
<1>5. CASE EarlyRetry(k)
  <2>1. PICK s : s = [r EXCEPT !.at = "connect"]
    OBVIOUS
  <2>2. /\ s \in RunRow /\ s.at = "connect" /\ s.job = r.job /\ s.managed = r.managed
        /\ s.checkpointed = r.checkpointed /\ s.current = r.current /\ s.seen = r.seen
        /\ s.restored = r.restored /\ s.regular = r.regular /\ s.emitted = r.emitted
        /\ s.tries = r.tries /\ s.submitted = r.submitted
    BY <2>1 DEF RunRow, Steps, LiveSteps
  <2>3. run' = [run EXCEPT ![k] = s] /\ UNCHANGED <<row, upstream, foundBySearch>>
    BY <1>1, <1>5, <2>1 DEF EarlyRetry, Go
  <2>4. r.at \in {"stream", "events"} /\ ~r.emitted
    BY <1>1, <1>5 DEF EarlyRetry
  <2>5. Submits(s)
    BY <1>1, <1>2, <2>2, <2>4 DEF RunHolds, Submits, Streaming
  <2> QED
    BY <1>3, <2>2, <2>3, <2>4, <2>5 DEF Streaming
<1> QED
  BY <1>4, <1>5

\* A submission opens a conversation, or fails after it may have done so.
LEMMA SubmitHolds ==
  ASSUME GenerationInv, NEW k \in ClaimIds, Submit(k)
  PROVE  GenerationInv'
<1>1. PICK r \in RunRow : r = run[k] /\ RunHolds(r)
  BY DEF GenerationInv, GenTypes
<1>2. /\ r.tries \in Nat /\ r.submitted \in Nat /\ r.regular \in BOOLEAN /\ r.emitted \in BOOLEAN
      /\ Unseen \in SeenRow /\ Unseen.conv = NoConv /\ Unseen.failure = "none"
  BY RunFields DEF Unseen, SeenRow, ConvOrNone
<1>3. PICK c \in Conversations : /\ upstream[c] = "none"
                                 /\ c = CHOOSE free \in Conversations : upstream[free] = "none"
  BY DEF Submit
<1>4. PICK n \in Nat : n = r.submitted + 1
  BY <1>2
<1>5. PICK s : s = [r EXCEPT !.at = "events", !.submitted = n, !.current = c, !.seen = Unseen]
  OBVIOUS
<1>6. /\ s \in RunRow /\ s.at = "events" /\ s.job = r.job /\ s.managed = r.managed
      /\ s.checkpointed = r.checkpointed /\ s.current = c /\ s.seen = Unseen
      /\ s.restored = r.restored /\ s.regular = r.regular /\ s.emitted = r.emitted
      /\ s.tries = r.tries /\ s.submitted = n
  BY <1>2, <1>5 DEF RunRow, Steps, LiveSteps, ConvOrNone
<1>7. /\ run' = [run EXCEPT ![k] = s] /\ upstream' = [upstream EXCEPT ![c] = "open"]
      /\ UNCHANGED <<row, foundBySearch>> /\ r.at = "stream"
  BY <1>1, <1>3, <1>4, <1>5 DEF Submit
<1>8. r.job.conv = NoConv /\ ~r.restored /\ ~r.job.urls /\ r.submitted < r.tries + (IF r.regular THEN 1 ELSE 0)
  BY <1>1, <1>7 DEF RunHolds, Submits, Streaming
<1>9. Submits(s)
  BY <1>1, <1>2, <1>4, <1>6, <1>8 DEF RunHolds, Submits
<1>10. RunHolds(s)
  BY <1>6, <1>8, <1>9 DEF RunHolds, Resumes, Begins, Idle
<1>11. Own(s) \subseteq Own(r) \cup {c}
  BY <1>2, <1>6 DEF Own, Known
<1>12. s.at \notin Idle /\ r.at \notin Idle
  BY <1>6, <1>7 DEF Idle
<1> QED
  BY <1>1, <1>3, <1>6, <1>7, <1>10, <1>11, <1>12, SubmittingStep

\* A claim in its stream sees something, without a checkpoint.
LEMMA SeeingStep ==
  ASSUME GenerationInv, NEW k \in ClaimIds, NEW r \in RunRow, r = run[k], r.at \in Streaming,
         NEW s \in RunRow, s.at \in Streaming, s.job = r.job, s.managed = r.managed,
         s.checkpointed = r.checkpointed, s.current = r.current,
         s.seen.conv \in Known(r) \cup {NoConv}, Submits(s),
         run' = [run EXCEPT ![k] = s], UNCHANGED <<row, upstream, foundBySearch>>
  PROVE  GenerationInv'
<1>1. RunHolds(r)
  BY DEF GenerationInv
<1>2. Known(s) \subseteq Known(r) \cup {NoConv, r.job.conv}
  BY DEF Known
<1>3. r.at \notin Idle /\ s.at \notin Idle \cup {"open"}
  BY DEF Idle, Streaming
<1>4. GoesOn(r, s, {})
  BY <1>1, <1>2, <1>3, Continues
<1> QED
  BY <1>4, InnerStep

\* What the claim has seen after an event.
LEMMA UpdatedSeen ==
  ASSUME NEW v \in SeenRow, NEW c \in ConvOrNone, NEW ids \in BOOLEAN,
         NEW failure \in {"none", "mode", "text", "fatal"}
  PROVE  LET u == Updated(v, c, ids, failure)
         IN  u \in SeenRow /\ u.conv = (IF c = NoConv THEN v.conv ELSE c)
<1>1. v.ids \in BOOLEAN /\ v.conv \in ConvOrNone /\ v.failure \in {"none", "mode", "text", "fatal"}
  BY DEF SeenRow
<1>2. PICK i \in BOOLEAN : i = (v.ids \/ ids)
  OBVIOUS
<1>3. PICK f \in {"none", "mode", "text", "fatal"} :
         f = IF v.ids \/ ids THEN "none" ELSE IF failure = "none" THEN v.failure ELSE failure
  BY <1>1
<1>4. PICK d \in ConvOrNone : d = IF c = NoConv THEN v.conv ELSE c
  BY <1>1
<1>5. Updated(v, c, ids, failure) = [conv |-> d, ids |-> i, failure |-> f]
  BY <1>2, <1>3, <1>4 DEF Updated
<1> QED
  BY <1>4, <1>5 DEF SeenRow

\* After an event the claim has seen u, and may have recorded it.
Evented(k, u) ==
  \/ run' = [run EXCEPT ![k] = [run[k] EXCEPT !.seen = u, !.emitted = TRUE]] /\ UNCHANGED row
  \/ Checkpoint(k, "resolving", u.conv, u.ids, FALSE, [run[k] EXCEPT !.seen = u, !.emitted = TRUE])

\* An event of the stream names the conversation.
LEMMA EventHolds ==
  ASSUME GenerationInv, NEW k \in ClaimIds, StreamEvent(k)
  PROVE  GenerationInv'
<1>1. PICK r \in RunRow : r = run[k] /\ RunHolds(r)
  BY DEF GenerationInv, GenTypes
<1>2. PICK c \in {NoConv, r.current}, ids \in BOOLEAN, failure \in {"none", "mode", "text", "fatal"} :
        Evented(k, Updated(r.seen, c, ids, failure))
  <2>1. PICK named \in BOOLEAN, ids \in BOOLEAN, failure \in {"none", "mode", "text", "fatal"} :
          LET next == Updated(run[k].seen, IF named THEN run[k].current ELSE NoConv, ids, failure)
              on == [run[k] EXCEPT !.seen = next, !.emitted = TRUE]
          IN  /\ ids => next.conv # NoConv
              /\ next # run[k].seen \/ ~run[k].emitted
              /\ IF <<next.conv, next.ids>> = <<run[k].seen.conv, run[k].seen.ids>>
                 THEN run' = [run EXCEPT ![k] = on] /\ UNCHANGED row
                 ELSE Checkpoint(k, "resolving", next.conv, next.ids, FALSE, on)
    BY Zenon DEF StreamEvent
  <2>2. PICK c \in {NoConv, run[k].current} : c = IF named THEN run[k].current ELSE NoConv
    OBVIOUS
  <2>3. Evented(k, Updated(run[k].seen, c, ids, failure))
    BY <2>1, <2>2 DEF Evented
  <2> QED
    BY <1>1, <2>3
<1>3. PICK v \in SeenRow : v = r.seen
  BY RunFields
<1>4. c \in ConvOrNone
  BY RunFields DEF ConvOrNone
<1>5. PICK u \in SeenRow : /\ u = Updated(v, c, ids, failure)
                           /\ u.conv = IF c = NoConv THEN v.conv ELSE c
  BY <1>4, UpdatedSeen
<1>6. PICK on : on = [r EXCEPT !.seen = u, !.emitted = TRUE]
  OBVIOUS
<1>7. /\ on \in RunRow /\ on.at = r.at /\ on.job = r.job /\ on.managed = r.managed
      /\ on.checkpointed = r.checkpointed /\ on.current = r.current /\ on.seen = u
      /\ on.restored = r.restored /\ on.regular = r.regular /\ on.emitted
      /\ on.tries = r.tries /\ on.submitted = r.submitted
  BY <1>6 DEF RunRow
<1>8. \/ run' = [run EXCEPT ![k] = on] /\ UNCHANGED row
      \/ Checkpoint(k, "resolving", u.conv, u.ids, FALSE, on)
  <2>1. Evented(k, u)
    BY <1>1, <1>2, <1>3, <1>4, <1>5
  <2> QED
    BY <1>1, <1>6, <2>1 DEF Evented
<1>9. r.at = "events" /\ UNCHANGED <<upstream, foundBySearch>>
  BY <1>1 DEF StreamEvent
<1>10. u.conv \in Known(r) /\ u.conv \in ConvOrNone /\ u.ids \in BOOLEAN
  BY <1>3, <1>4, <1>5 DEF Known, SeenRow
<1>11. Submits(on)
  BY <1>1, <1>7, <1>9 DEF RunHolds, Submits, Streaming
<1>12. CASE run' = [run EXCEPT ![k] = on] /\ UNCHANGED row
  <2>1. r.at \in Streaming
    BY <1>9 DEF Streaming
  <2> QED
    BY <1>1, <1>7, <1>9, <1>10, <1>11, <1>12, <2>1, SeeingStep
<1>13. CASE Checkpoint(k, "resolving", u.conv, u.ids, FALSE, on)
  <2>1. /\ Known(on) \subseteq Known(r) \cup {NoConv, r.job.conv}
        /\ r.at \notin Idle /\ on.at \notin Idle \cup {"open"}
        /\ "resolving" \in SavedStages
    BY <1>7, <1>9, <1>10 DEF Known, Idle, SavedStages
  <2>2. Records(k, r, "resolving", u.conv, u.ids, FALSE, on)
    BY <1>1, <1>7, <1>9, <1>10, <1>11, <1>13, <2>1 DEF Records
  <2> QED
    BY <1>7, <2>2, CheckpointStep
<1> QED
  BY <1>8, <1>12, <1>13

\* The regular mode, a probe of the conversation, a look at the task list.
LEMMA SeenHolds ==
  ASSUME GenerationInv, NEW k \in ClaimIds,
         RetryMode(k) \/ ProbeConversation(k) \/ TaskDiagnostics(k)
  PROVE  GenerationInv'
<1>1. PICK r \in RunRow : r = run[k] /\ RunHolds(r)
  BY DEF GenerationInv, GenTypes
<1>2. /\ r.at \in Streaming /\ r.at \notin Idle
      /\ UNCHANGED <<row, upstream, foundBySearch>>
  BY <1>1 DEF RetryMode, ProbeConversation, TaskDiagnostics, Streaming, Idle
<1>3. PICK v \in SeenRow : v = r.seen
  BY RunFields
<1>4. v.conv \in Known(r) /\ r.tries \in Nat /\ r.submitted \in Nat /\ r.regular \in BOOLEAN
      /\ r.emitted \in BOOLEAN
  BY <1>3, RunFields DEF Known
<1>5. CASE Raise(k)
  BY <1>1, <1>2, <1>5, RaiseStep
<1>6. ASSUME NEW u \in SeenRow, u.conv = v.conv, u.failure = v.failure \/ v.failure = "text",
             run' = [run EXCEPT ![k] = [r EXCEPT !.seen = u]], r.at # "stream"
      PROVE  GenerationInv'
  <2>1. PICK s : s = [r EXCEPT !.seen = u]
    OBVIOUS
  <2>2. /\ s \in RunRow /\ s.at = r.at /\ s.job = r.job /\ s.managed = r.managed
        /\ s.checkpointed = r.checkpointed /\ s.current = r.current /\ s.seen = u
        /\ s.restored = r.restored /\ s.regular = r.regular /\ s.emitted = r.emitted
        /\ s.tries = r.tries /\ s.submitted = r.submitted
    BY <2>1 DEF RunRow
  <2>3. Submits(s)
    BY <1>1, <1>3, <1>6, <2>2 DEF RunHolds, Submits
  <2>4. s.seen.conv \in Known(r) \cup {NoConv}
    BY <1>4, <1>6, <2>2
  <2>5. s.at \in Streaming /\ run' = [run EXCEPT ![k] = s]
    BY <1>2, <1>6, <2>1, <2>2
  <2> QED
    BY <1>1, <1>2, <2>2, <2>3, <2>4, <2>5, SeeingStep
<1>7. CASE ProbeConversation(k) /\ ~Raise(k)
  <2>1. PICK u : u = [v EXCEPT !.ids = TRUE]
    OBVIOUS
  <2>2. u \in SeenRow /\ u.conv = v.conv /\ u.failure = v.failure
    BY <2>1 DEF SeenRow
  <2>3. run' = [run EXCEPT ![k] = [r EXCEPT !.seen = u]] /\ r.at # "stream"
    BY <1>1, <1>3, <1>7, <2>1 DEF ProbeConversation
  <2> QED
    BY <1>6, <2>2, <2>3
<1>8. CASE TaskDiagnostics(k)
  <2>1. PICK u : u = [v EXCEPT !.failure = "mode"]
    OBVIOUS
  <2>2. u \in SeenRow /\ u.conv = v.conv
    BY <2>1 DEF SeenRow
  <2>3. run' = [run EXCEPT ![k] = [r EXCEPT !.seen = u]] /\ r.at # "stream" /\ v.failure = "text"
    BY <1>1, <1>3, <1>8, <2>1 DEF TaskDiagnostics
  <2> QED
    BY <1>6, <2>2, <2>3
<1>9. CASE RetryMode(k)
  <2>1. Unseen \in SeenRow /\ Unseen.conv = NoConv
    BY DEF Unseen, SeenRow, ConvOrNone
  <2>2. PICK s : s = [r EXCEPT !.at = "stream", !.regular = TRUE, !.seen = Unseen]
    OBVIOUS
  <2>3. /\ s \in RunRow /\ s.at = "stream" /\ s.job = r.job /\ s.managed = r.managed
        /\ s.checkpointed = r.checkpointed /\ s.current = r.current /\ s.seen = Unseen
        /\ s.restored = r.restored /\ s.regular /\ s.emitted = r.emitted
        /\ s.tries = r.tries /\ s.submitted = r.submitted
    BY <2>1, <2>2 DEF RunRow, Steps, LiveSteps
  <2>4. run' = [run EXCEPT ![k] = s] /\ r.seen.failure = "mode" /\ ~r.regular
    BY <1>1, <1>9, <2>2 DEF RetryMode, ModeBlocked
  <2>5. Submits(s)
    BY <1>1, <1>2, <1>4, <2>3, <2>4 DEF RunHolds, Submits
  <2>6. s.at \in Streaming
    BY <2>3 DEF Streaming
  <2> QED
    BY <1>1, <1>2, <2>1, <2>3, <2>4, <2>5, <2>6, SeeingStep
<1> QED
  BY <1>5, <1>7, <1>8, <1>9

\* The account's conversations are searched.
LEMMA SearchHolds ==
  ASSUME GenerationInv, NEW k \in ClaimIds, SearchConversation(k)
  PROVE  GenerationInv'
<1>1. PICK r \in RunRow : r = run[k] /\ RunHolds(r)
  BY DEF GenerationInv, GenTypes
<1>2. r.at \in {"recover", "result"} /\ r.at \notin Idle /\ UNCHANGED <<row, upstream>>
  BY <1>1 DEF SearchConversation, Idle
<1>3. CASE Raise(k) /\ UNCHANGED foundBySearch
  BY <1>1, <1>2, <1>3, RaiseStep
<1>4. ASSUME NEW c \in Conversations, upstream[c] = "open",
             run' = [run EXCEPT ![k].seen.conv = c],
             foundBySearch' = foundBySearch \cup ({c} \ {run[k].current})
      PROVE  GenerationInv'
  <2>1. PICK v \in SeenRow : v = r.seen
    BY RunFields
  <2>2. PICK u : u = [v EXCEPT !.conv = c]
    OBVIOUS
  <2>3. u \in SeenRow /\ u.conv = c /\ u.failure = v.failure
    BY <2>2 DEF SeenRow, ConvOrNone
  <2>4. PICK s : s = [r EXCEPT !.seen = u]
    OBVIOUS
  <2>5. /\ s \in RunRow /\ s.at = r.at /\ s.job = r.job /\ s.managed = r.managed
        /\ s.checkpointed = r.checkpointed /\ s.current = r.current /\ s.seen = u
        /\ s.restored = r.restored /\ s.regular = r.regular /\ s.emitted = r.emitted
        /\ s.tries = r.tries /\ s.submitted = r.submitted
    BY <2>3, <2>4 DEF RunRow
  <2>6. run' = [run EXCEPT ![k] = s]
    BY <1>1, <1>4, <2>1, <2>2, <2>4
  <2>7. Submits(s)
    BY <1>1, <2>1, <2>3, <2>5 DEF RunHolds, Submits
  <2>8. PICK F \in SUBSET Conversations : F = {c} \ {r.current}
    OBVIOUS
  <2>9. Known(s) \subseteq Known(r) \cup {NoConv, r.job.conv} \cup F
    BY <2>3, <2>5, <2>8 DEF Known
  <2>10. r.job.conv = NoConv
    BY <1>1, <1>2 DEF RunHolds, Submits, Streaming
  <2>11. s.at \notin Idle \cup {"open"}
    BY <1>2, <2>5 DEF Idle
  <2>12. GoesOn(r, s, F)
    BY <1>1, <1>2, <2>5, <2>7, <2>9, <2>10, <2>11, Continues
  <2>13. foundBySearch' = foundBySearch \cup F /\ \A d \in F : upstream[d] # "none"
    BY <1>1, <1>4, <2>8
  <2> QED
    BY <1>1, <1>2, <2>5, <2>6, <2>12, <2>13, QuietStep
<1> QED
  BY <1>3, <1>4 DEF SearchConversation

\* The checkpoint with the urls of the result.
LEMMA DeliverHolds ==
  ASSUME GenerationInv, NEW k \in ClaimIds, run[k].at \notin Idle, Deliver(k),
         UNCHANGED <<upstream, foundBySearch>>
  PROVE  GenerationInv'
<1>1. PICK r \in RunRow : r = run[k] /\ RunHolds(r)
  BY DEF GenerationInv, GenTypes
<1>2. PICK step \in {"format", "raised"} :
        Checkpoint(k, "downloading", r.seen.conv, FALSE, TRUE, [StreamLeft(k) EXCEPT !.at = step])
  BY <1>1 DEF Deliver
<1>3. PICK u : u = [Unseen EXCEPT !.conv = r.seen.conv]
  OBVIOUS
<1>4. u \in SeenRow /\ u.conv = r.seen.conv /\ u.failure = "none"
  BY <1>3, RunFields DEF Unseen, SeenRow
<1>5. PICK next : next = [r EXCEPT !.at = step, !.current = NoConv, !.seen = u,
                     !.emitted = FALSE, !.regular = FALSE, !.tries = 0, !.submitted = 0]
  OBVIOUS
<1>6. /\ next \in RunRow /\ next.at = step /\ next.job = r.job /\ next.managed = r.managed
      /\ next.checkpointed = r.checkpointed /\ next.current = NoConv /\ next.seen = u
      /\ next.restored = r.restored /\ ~next.regular /\ ~next.emitted
      /\ next.tries = 0 /\ next.submitted = 0
  BY <1>4, <1>5 DEF RunRow, ConvOrNone, Steps, LiveSteps
<1>7. [StreamLeft(k) EXCEPT !.at = step] = next
  BY <1>1, <1>3, <1>5 DEF StreamLeft, RunRow
<1>8. Submits(next)
  BY <1>4, <1>6 DEF Submits, Streaming
<1>9. /\ Known(next) \subseteq Known(r) \cup {NoConv, r.job.conv}
      /\ r.seen.conv \in Known(r) \cup {NoConv, r.job.conv} /\ r.seen.conv \in ConvOrNone
      /\ next.at \notin Idle \cup {"open"} /\ "downloading" \in SavedStages
  BY <1>4, <1>6, RunFields DEF Known, Idle, SavedStages
<1>10. Records(k, r, "downloading", r.seen.conv, FALSE, TRUE, next)
  BY <1>1, <1>2, <1>6, <1>7, <1>8, <1>9 DEF Records
<1> QED
  BY <1>6, <1>10, CheckpointStep

\* Polling and the search for the conversation of a result.
LEMMA FollowHolds ==
  ASSUME GenerationInv, NEW k \in ClaimIds, FollowUp(k) \/ ResolveResult(k)
  PROVE  GenerationInv'
<1>1. run[k].at \notin Idle /\ UNCHANGED <<upstream, foundBySearch>>
  BY DEF FollowUp, ResolveResult, Idle
<1>2. Deliver(k) \/ (Raise(k) /\ UNCHANGED row)
  BY DEF FollowUp, ResolveResult
<1> QED
  BY <1>1, <1>2, DeliverHolds, RaiseStep

\* The image is there and its quota is spent.
LEMMA FormatHolds ==
  ASSUME GenerationInv, NEW k \in ClaimIds, FormatResult(k)
  PROVE  GenerationInv'
<1>1. PICK r \in RunRow : r = run[k] /\ RunHolds(r)
  BY DEF GenerationInv, GenTypes
<1>2. r.at \notin Idle /\ UNCHANGED <<upstream, foundBySearch>>
  BY <1>1 DEF FormatResult, Idle
<1>3. CASE ~Fenced(k)
  <2>1. Raise(k) /\ UNCHANGED row
    BY <1>3 DEF FormatResult
  <2> QED
    BY <1>1, <1>2, <2>1, RaiseStep
<1>4. CASE Fenced(k)
  <2>1. PICK o \in Row : o = row
    BY DEF GenerationInv, GenTypes
  <2>2. /\ row' \in Row /\ row'.status = row.status /\ row'.owner = row.owner
        /\ row'.stage = row.stage /\ row'.conv = row.conv
    BY <1>4, <2>1 DEF FormatResult, Row
  <2>3. row.conv # NoConv => row.stage \in SavedStages
    BY <1>4 DEF GenerationInv, SharedInv, Fenced
  <2>4. PICK step \in {"upscale", "store"} : step = IF "downloaded" \in files THEN "upscale" ELSE "store"
    OBVIOUS
  <2>5. PICK m \in SUBSET Conversations : m = r.managed \cup Some(r.seen.conv)
    BY RunFields DEF Some, ConvOrNone
  <2>6. PICK s : s = [r EXCEPT !.at = step, !.committed = TRUE, !.managed = m]
    OBVIOUS
  <2>7. /\ s \in RunRow /\ s.at = step /\ s.job = r.job /\ s.managed = m
        /\ s.checkpointed = r.checkpointed /\ s.current = r.current /\ s.seen = r.seen
        /\ s.restored = r.restored /\ s.regular = r.regular /\ s.emitted = r.emitted
        /\ s.tries = r.tries /\ s.submitted = r.submitted
    BY <2>6 DEF RunRow, Steps, LiveSteps
  <2>8. run' = [run EXCEPT ![k] = s]
    BY <1>1, <1>4, <2>4, <2>5, <2>6 DEF FormatResult
  <2>9. Submits(s)
    BY <1>1, <2>7 DEF RunHolds, Submits, Streaming
  <2>10. Known(s) \subseteq Known(r) \cup {NoConv, r.job.conv}
    BY <2>5, <2>7 DEF Known, Some
  <2>11. s.at \notin Idle \cup {"open"} /\ s.at \notin Idle
    BY <2>7 DEF Idle
  <2>12. GoesOn(r, s, {})
    BY <1>1, <1>2, <2>7, <2>9, <2>10, <2>11, Continues
  <2> QED
    BY <1>1, <1>2, <1>4, <2>2, <2>3, <2>7, <2>8, <2>11, <2>12, RecordingStep
<1> QED
  BY <1>3, <1>4

\* A file is staged and recorded.
LEMMA StoreHolds ==
  ASSUME GenerationInv, NEW k \in ClaimIds, StoreDownloaded(k) \/ StoreUpscaled(k)
  PROVE  GenerationInv'
<1>1. PICK r \in RunRow : r = run[k] /\ RunHolds(r)
  BY DEF GenerationInv, GenTypes
<1>2. r.at \notin Idle /\ UNCHANGED <<upstream, foundBySearch>>
  BY <1>1 DEF StoreDownloaded, StoreUpscaled, StoreStage, Idle
<1>3. ASSUME NEW stage \in {"transforming", "saving"}, NEW step \in {"upscale", "persist"},
             Checkpoint(k, stage, r.seen.conv, FALSE, FALSE, Moved(r, step))
      PROVE  GenerationInv'
  <2>1. step \in Steps \ (Idle \cup Streaming \cup {"open"})
    BY DEF Steps, LiveSteps, Idle, Streaming
  <2>2. /\ r.seen.conv \in ConvOrNone /\ r.seen.conv \in Known(r)
        /\ stage \in SavedStages /\ stage # "generating"
    BY RunFields DEF SavedStages, Known
  <2>3. Records(k, r, stage, r.seen.conv, FALSE, FALSE, Moved(r, step))
    BY <1>1, <1>2, <1>3, <2>1, <2>2, MovedRuns DEF Records
  <2> QED
    BY <1>1, <2>1, <2>3, MovedRuns, CheckpointStep
<1>4. CASE Raise(k) /\ UNCHANGED row
  BY <1>1, <1>2, <1>4, RaiseStep
<1>5. \/ Raise(k) /\ UNCHANGED row
      \/ \E stage \in {"transforming", "saving"}, step \in {"upscale", "persist"} :
           Checkpoint(k, stage, r.seen.conv, FALSE, FALSE, Moved(r, step))
  BY <1>1 DEF StoreDownloaded, StoreUpscaled, StoreStage, Moved
<1> QED
  BY <1>3, <1>4, <1>5

\* The job is completed, or the claim fails.
LEMMA FinishHolds ==
  ASSUME GenerationInv, NEW k \in ClaimIds, CommitResult(k) \/ HandleError(k)
  PROVE  GenerationInv'
<1>1. CASE CommitResult(k)
  <2>1. CASE Raise(k) /\ UNCHANGED <<row, upstream>>
    <3>1. run[k].at \notin Idle /\ UNCHANGED foundBySearch
      BY <1>1 DEF CommitResult, Idle
    <3> QED
      BY <2>1, <3>1, RaiseStep
  <2>2. CASE row' = Completed(k) /\ upstream' = Deleted(run[k].managed) /\ End(k)
    <3>1. PICK s \in RunRow : s = [NewRun EXCEPT !.at = "ended"] /\ RunHolds(s)
      BY EndedRuns
    <3>2. row' \in Row /\ row'.status = "done"
      BY <2>2 DEF Completed, Row, GenerationInv, GenTypes
    <3>3. run' = [run EXCEPT ![k] = s] /\ UNCHANGED foundBySearch
      BY <1>1, <2>2, <3>1 DEF CommitResult, End
    <3> QED
      BY <2>2, <3>1, <3>2, <3>3, CompletingStep
  <2> QED
    BY <1>1, <2>1, <2>2 DEF CommitResult
<1>2. CASE HandleError(k)
  <2>1. PICK s \in RunRow : s = [NewRun EXCEPT !.at = "settle"] /\ RunHolds(s) /\ Own(s) = {}
                            /\ s.at = "settle"
    BY EndedRuns
  <2>2. /\ run' = [run EXCEPT ![k] = s] /\ s.at \in Idle
        /\ upstream' = Deleted(run[k].managed \ Preserved(k))
        /\ UNCHANGED <<row, foundBySearch>>
    BY <1>2, <2>1 DEF HandleError, Idle
  <2> QED
    BY <2>1, <2>2, DeletingStep
<1> QED
  BY <1>1, <1>2

\* At the start there is no claim.
LEMMA GenerationStarts == GenerationInit => GenerationInv
<1> SUFFICES ASSUME GenerationInit PROVE GenerationInv
  OBVIOUS
<1>1. /\ row.status = "queued" /\ row.conv = NoConv /\ foundBySearch = {}
      /\ \A k \in ClaimIds : run[k] = NewRun
  BY DEF GenerationInit
<1>2. GenTypes
  <2>1. row \in Row
    BY GenerationAssumption DEF GenerationInit, Row, ConvOrNone
  <2>2. run \in [ClaimIds -> RunRow]
    <3>1. run = [k \in ClaimIds |-> NewRun] /\ NewRun \in RunRow
      BY NewRuns DEF GenerationInit
    <3> QED
      BY <3>1
  <2> QED
    BY <2>1, <2>2 DEF GenerationInit, GenTypes
<1>3. \A k \in ClaimIds : RunHolds(run[k]) /\ OwnIsOpen(run[k])
  BY <1>1, NewRuns DEF OwnIsOpen
<1>4. \A k \in ClaimIds : RowIsKnown(k)
  BY <1>1, NewRuns DEF RowIsKnown, Idle
<1>5. OwnersApart /\ ResumableConversationKept
  BY <1>1, NewRuns DEF OwnersApart, ResumableConversationKept
<1> QED
  BY <1>1, <1>2, <1>3, <1>4, <1>5 DEF GenerationInv, SharedInv

\* One step of a claim, of upstream or of a lease.
LEMMA GenerationSteps == GenerationInv /\ [GenerationNext]_genVars => GenerationInv'
<1> SUFFICES ASSUME GenerationInv, [GenerationNext]_genVars PROVE GenerationInv'
  OBVIOUS
<1>1. CASE UNCHANGED genVars
  <2>1. UNCHANGED <<row, run, upstream, foundBySearch>>
    BY <1>1 DEF genVars
  <2> QED
    BY <2>1 DEF GenerationInv, GenTypes, SharedInv, OwnIsOpen, RowIsKnown, Fenced, OwnersApart,
                ResumableConversationKept, RunHolds, Resumes, Submits, Begins, Own, Known
<1>2. ASSUME NEW k \in ClaimIds, StartClaim(k) \/ ExecutionStep(k) \/ SettleClaim(k)
      PROVE  GenerationInv'
  <2>1. CASE StartClaim(k) \/ SettleClaim(k)
    BY <2>1, StartHolds, SettleHolds
  <2>2. CASE RecoverFinal(k) \/ RecoverUpscaled(k) \/ RecoverDownloaded(k) \/ Resume(k)
    BY <2>2, RecoverHolds
  <2>3. CASE ResolveCheckpoint(k)
    BY <2>3, ResolveHolds
  <2>4. CASE \/ FetchUrls(k) \/ StreamFails(k) \/ StreamEnds(k) \/ StreamBreaks(k)
             \/ RejectResult(k) \/ PersistGenerated(k) \/ Interrupt(k)
    BY <2>4, PlainHolds
  <2>5. CASE Connect(k) \/ EarlyRetry(k)
    BY <2>5, ConnectHolds
  <2>6. CASE Submit(k)
    BY <2>6, SubmitHolds
  <2>7. CASE StreamEvent(k)
    BY <2>7, EventHolds
  <2>8. CASE RetryMode(k) \/ ProbeConversation(k) \/ TaskDiagnostics(k)
    BY <2>8, SeenHolds
  <2>9. CASE SearchConversation(k)
    BY <2>9, SearchHolds
  <2>10. CASE FollowUp(k) \/ ResolveResult(k)
    BY <2>10, FollowHolds
  <2>11. CASE FormatResult(k)
    BY <2>11, FormatHolds
  <2>12. CASE StoreDownloaded(k) \/ StoreUpscaled(k)
    BY <2>12, StoreHolds
  <2>13. CASE CommitResult(k) \/ HandleError(k)
    BY <2>13, FinishHolds
  <2> QED
    BY <1>2, <2>1, <2>2, <2>3, <2>4, <2>5, <2>6, <2>7, <2>8, <2>9, <2>10, <2>11, <2>12, <2>13
    DEF ExecutionStep
<1>3. CASE LoseLease
  BY <1>3, LoseHolds
<1> QED
  BY <1>1, <1>2, <1>3 DEF GenerationNext

\* ConversationsAreKept, for any number of claims, connections and
\* conversations: whatever the upstream answers and wherever a claim loses its
\* row, the clean-up of a failed claim (cleanup_failed_conversations) spares
\* the conversation that the unfinished job could resume from, and a claim
\* starts no more conversations than it connects, but one for the second mode.
THEOREM ConversationsStayKept == GenerationSpec => []ConversationsAreKept
<1>1. GenerationInv => ConversationsAreKept
  <2> SUFFICES ASSUME GenerationInv PROVE ConversationsAreKept
    OBVIOUS
  <2>1. ResumableConversationKept
    BY DEF GenerationInv, SharedInv, ResumableConversationKept
  <2>2. SubmissionsBounded
    BY DEF GenerationInv, RunHolds, Submits, SubmissionsBounded
  <2> QED
    BY <2>1, <2>2 DEF ConversationsAreKept
<1> QED
  BY <1>1, GenerationStarts, GenerationSteps, PTL DEF GenerationSpec

-----------------------------------------------------------------------------
(* The projection and the call records behind it.                          *)

Modes == {"rebuild", "checkpoint", "increment"}
Words == {"queued", "final"}
CallRow == [task : {"running", "ended", "handled"}, record : {"none", "writing", "kept", "gone"},
            says : Words, seq : Nat, checked : BOOLEAN]
Cell == [n : {0, 1}, v : {"none", "queued", "final"}]
StateRow == [gen : Nat, seq : Nat, ready : BOOLEAN]
LoadedRow == [at : {"loaded"}, mode : Modes, tries : Nat, fresh : BOOLEAN, from : Nat, gen : Nat]
Pictures == UNION {[D -> Words] : D \in SUBSET LoggedCalls}
TakenRow == [at : {"aggregated"}, mode : Modes, fresh : BOOLEAN, gen : Nat, end : Nat, tries : Nat,
             says : Pictures]
SyncRow == {SyncAtRest} \cup LoadedRow \cup TakenRow

ViewTypes == board \in [LoggedCalls -> Cell] /\ state \in StateRow
ProjTypes ==
  /\ call \in [LoggedCalls -> CallRow] /\ lastSeq \in Nat /\ generation \in Nat
  /\ ViewTypes
  /\ sync \in [Syncers -> SyncRow]

Writing(c) == call[c].record = "writing"
Public(c) == call[c].record \in {"kept", "gone"}

\* Sequence numbers are given out in order; with one writer a record that is
\* written has the greatest.  Only a record that shows is checked.
CallsInv ==
  /\ \A c \in LoggedCalls : /\ call[c].seq <= lastSeq
                            /\ call[c].record # "none" => call[c].seq > 0
                            /\ call[c].checked => Public(c)
  /\ OneWriter => \A c, o \in LoggedCalls : Writing(c) /\ c # o => call[o].seq < call[c].seq
  /\ EndedCallsAreFinal

\* Only a record that showed is counted, and while the projection is ready
\* those that are kept are behind its cursor.
BoardInv ==
  /\ state.gen <= generation /\ state.seq <= lastSeq
  /\ \A c \in LoggedCalls : board[c].n > 0 =>
       Public(c) /\ (state.ready /\ call[c].record = "kept" => call[c].seq <= state.seq)
  /\ OneWriter => \A c \in LoggedCalls : Writing(c) => state.seq < call[c].seq
  /\ ProjectionAgrees

\* What a synchronisation loaded; fresh, it is the state there is.
LoadIsSound(y) ==
  /\ y.gen <= generation /\ y.from <= lastSeq
  /\ y.mode # "increment" => y.from = 0
  /\ OneWriter => \A c \in LoggedCalls : Writing(c) => y.from < call[c].seq
  /\ y.fresh /\ y.mode = "increment" => state.ready /\ y.from = state.seq /\ y.gen = state.gen

\* The picture is of records that showed, up to the end of the window, and
\* as they are while their generation lasts.
PictureIsTrue(y) ==
  /\ y.gen <= generation /\ y.end <= lastSeq
  /\ OneWriter => \A c \in LoggedCalls : Writing(c) => y.end < call[c].seq
  /\ \A c \in DOMAIN y.says :
       /\ c \in LoggedCalls /\ Public(c) /\ call[c].seq <= y.end
       /\ y.gen = generation => y.says[c] = call[c].says
  /\ y.mode = "checkpoint" => DOMAIN y.says = {}

\* A fresh picture continues the projection there is, and with one writer
\* leaves no record out.
PictureFits(y) ==
  /\ y.mode = "increment" =>
       /\ state.ready /\ y.gen = state.gen /\ state.seq <= y.end
       /\ \A c \in DOMAIN y.says : state.seq < call[c].seq /\ board[c].n = 0
  /\ y.mode = "checkpoint" =>
       \A c \in LoggedCalls : call[c].record = "kept" /\ board[c].n > 0 => call[c].seq <= y.end
  /\ OneWriter /\ y.mode # "checkpoint" =>
       \A c \in LoggedCalls :
         /\ call[c].record = "kept" /\ call[c].seq <= y.end
         /\ y.mode = "increment" => state.seq < call[c].seq
         => c \in DOMAIN y.says

SyncSound(y) ==
  /\ y.at = "loaded" => LoadIsSound(y)
  /\ y.at = "aggregated" => PictureIsTrue(y) /\ (y.fresh => PictureFits(y))

ProjInv ==
  ProjTypes /\ CallsInv /\ BoardInv /\ \A s \in Syncers : SyncSound(sync[s])

\* A set of numbers up to a number has a greatest element.
LEMMA TopExists ==
  ASSUME NEW S \in SUBSET Nat, NEW k \in Nat, \A n \in S : n <= k, S # {}
  PROVE  \E n \in S : \A m \in S : m <= n
<1> DEFINE D == {d \in Nat : \E n \in S : n + d = k}
<1>1. D \subseteq Nat /\ D # {}
  <2>1. PICK n \in S : TRUE
    OBVIOUS
  <2>2. k - n \in Nat /\ n + (k - n) = k
    BY <2>1
  <2> QED
    BY <2>1, <2>2
<1>2. PICK d \in D : \A e \in D : ~ (<<e, d>> \in OpToRel(<, Nat))
  BY <1>1, NatLessThanWellFounded, WFMin, Zenon
<1>3. \A e \in D : ~(e < d)
  BY <1>1, <1>2 DEF OpToRel
<1>4. PICK n \in S : n + d = k
  BY <1>2
<1>5. ASSUME NEW m \in S PROVE m <= n
  <2>1. k - m \in D
    BY <1>5
  <2>2. ~(k - m < d)
    BY <1>3, <2>1
  <2>3. m \in Nat /\ n \in Nat /\ d \in Nat
    BY <1>1, <1>2, <1>4, <1>5
  <2> QED
    BY <1>4, <2>2, <2>3
<1> QED
  BY <1>4, <1>5

\* The last sequence number of a set of numbers.
LEMMA TopIsGreatest ==
  ASSUME NEW S \in SUBSET Nat, NEW k \in Nat, \A n \in S : n <= k
  PROVE  /\ Top(S) \in Nat /\ Top(S) <= k
         /\ \A n \in S : n <= Top(S)
         /\ S # {} => Top(S) \in S
<1>1. CASE S = {}
  BY <1>1 DEF Top
<1>2. CASE S # {}
  <2>1. \E n \in S : \A m \in S : m <= n
    BY <1>2, TopExists
  <2>2. Top(S) \in S /\ \A m \in S : m <= Top(S)
    BY <1>2, <2>1 DEF Top
  <2> QED
    BY <2>2
<1> QED
  BY <1>1, <1>2

-----------------------------------------------------------------------------
\* Rows of synchronisations.
LEMMA SyncRows ==
  /\ SyncAtRest \in SyncRow /\ SyncAtRest.at = "rest"
  /\ \A y \in SyncRow : y = SyncAtRest \/ y \in LoadedRow \/ y \in TakenRow
  /\ \A y \in SyncRow : y.at = "loaded" => y \in LoadedRow
  /\ \A y \in SyncRow : y.at = "aggregated" => y \in TakenRow
  /\ \A y \in LoadedRow : y.at = "loaded" /\ y \in SyncRow
  /\ \A y \in TakenRow : y.at = "aggregated" /\ y \in SyncRow
BY DEF SyncRow, SyncAtRest, LoadedRow, TakenRow

\* Nothing is recorded or counted.
LEMMA InitProj == ProjectionInit => ProjInv
<1> SUFFICES ASSUME ProjectionInit PROVE ProjInv
  OBVIOUS
<1>1. \A c \in LoggedCalls :
        /\ call[c] \in CallRow /\ call[c].record = "none" /\ call[c].seq = 0 /\ ~call[c].checked
        /\ board[c] \in Cell /\ board[c].n = 0
  BY DEF ProjectionInit, CallRow, Cell, Words, Uncounted
<1>2. state \in StateRow /\ state.gen = 0 /\ state.seq = 0 /\ ~state.ready
  BY DEF ProjectionInit, StateRow, NoRow
<1>3. \A s \in Syncers : sync[s] = SyncAtRest
  BY DEF ProjectionInit
<1>4. lastSeq = 0 /\ generation = 1
  BY DEF ProjectionInit
<1>5. ProjTypes
  <2>1. call \in [LoggedCalls -> CallRow] /\ board \in [LoggedCalls -> Cell]
    BY <1>1 DEF ProjectionInit
  <2>2. sync \in [Syncers -> SyncRow]
    BY SyncRows DEF ProjectionInit
  <2> QED
    BY <1>2, <1>4, <2>1, <2>2 DEF ProjTypes, ViewTypes
<1>6. CallsInv
  BY <1>1, <1>4 DEF CallsInv, Writing, Public, EndedCallsAreFinal, Kept
<1>7. BoardInv
  BY <1>1, <1>2, <1>4 DEF BoardInv, Writing, Public, ProjectionAgrees
<1>8. \A s \in Syncers : SyncSound(sync[s])
  BY <1>3, SyncRows DEF SyncSound
<1> QED
  BY <1>5, <1>6, <1>7, <1>8 DEF ProjInv

-----------------------------------------------------------------------------
(* Steps of the records                                                    *)

\* What a step of the record c may do: everything about other records stays, a
\* sequence number stays unless c is inserted, the record moves on, and what it
\* says changes only with the generation.
RecordMoves(c) ==
  /\ call' \in [LoggedCalls -> CallRow] /\ lastSeq' \in Nat /\ generation' \in Nat
  /\ generation' >= generation /\ lastSeq' >= lastSeq
  /\ \A o \in LoggedCalls \ {c} : call'[o] = call[o]
  /\ \/ call'[c].record = call[c].record
     \/ call[c].record = "writing" /\ call'[c].record = "kept"
     \/ call[c].record = "kept" /\ call'[c].record = "gone"
     \/ call[c].record = "none" /\ call'[c].record = "writing"
  /\ \/ call'[c].seq = call[c].seq /\ ~(call[c].record = "none" /\ call'[c].record = "writing")
     \/ /\ call[c].record = "none" /\ call'[c].record = "writing"
        /\ call'[c].seq = lastSeq + 1 /\ lastSeq' = lastSeq + 1
        /\ OneWriter => \A o \in LoggedCalls : ~Writing(o)
  /\ call'[c].says = call[c].says \/ (generation' > generation /\ call[c].record = "kept")
  /\ UNCHANGED <<view, sync, untaken>>

\* One field of a row changes.
LEMMA RowFields ==
  \A r \in CallRow : r.seq \in Nat /\ r.says \in Words /\ r.checked \in BOOLEAN
BY DEF CallRow

\* The task of a call ends, or its end has been handled.
LEMMA TaskChanges ==
  ASSUME NEW r \in CallRow, NEW v \in {"running", "ended", "handled"}
  PROVE  /\ [r EXCEPT !.task = v] \in CallRow /\ [r EXCEPT !.task = v].task = v
         /\ [r EXCEPT !.task = v].record = r.record
         /\ [r EXCEPT !.task = v].says = r.says
         /\ [r EXCEPT !.task = v].seq = r.seq
         /\ [r EXCEPT !.task = v].checked = r.checked
BY DEF CallRow

\* The record of a call changes its place: written, kept or gone.
LEMMA RecordChanges ==
  ASSUME NEW r \in CallRow, NEW v \in {"none", "writing", "kept", "gone"}
  PROVE  /\ [r EXCEPT !.record = v] \in CallRow /\ [r EXCEPT !.record = v].record = v
         /\ [r EXCEPT !.record = v].task = r.task
         /\ [r EXCEPT !.record = v].says = r.says
         /\ [r EXCEPT !.record = v].seq = r.seq
         /\ [r EXCEPT !.record = v].checked = r.checked
BY DEF CallRow

\* The record says something else.
LEMMA WordChanges ==
  ASSUME NEW r \in CallRow, NEW v \in Words
  PROVE  /\ [r EXCEPT !.says = v] \in CallRow /\ [r EXCEPT !.says = v].says = v
         /\ [r EXCEPT !.says = v].task = r.task
         /\ [r EXCEPT !.says = v].record = r.record
         /\ [r EXCEPT !.says = v].seq = r.seq
         /\ [r EXCEPT !.says = v].checked = r.checked
BY DEF CallRow

\* The record gets a number of the sequence.
LEMMA NumberChanges ==
  ASSUME NEW r \in CallRow, NEW v \in Nat
  PROVE  /\ [r EXCEPT !.seq = v] \in CallRow /\ [r EXCEPT !.seq = v].seq = v
         /\ [r EXCEPT !.seq = v].task = r.task
         /\ [r EXCEPT !.seq = v].record = r.record
         /\ [r EXCEPT !.seq = v].says = r.says
         /\ [r EXCEPT !.seq = v].checked = r.checked
BY DEF CallRow

\* The record has been checked against the task.
LEMMA CheckChanges ==
  ASSUME NEW r \in CallRow, NEW v \in BOOLEAN
  PROVE  /\ [r EXCEPT !.checked = v] \in CallRow /\ [r EXCEPT !.checked = v].checked = v
         /\ [r EXCEPT !.checked = v].task = r.task
         /\ [r EXCEPT !.checked = v].record = r.record
         /\ [r EXCEPT !.checked = v].says = r.says
         /\ [r EXCEPT !.checked = v].seq = r.seq
BY DEF CallRow

\* A record that moves keeps the view and the pictures of the records sound.
LEMMA MovesKeepView ==
  ASSUME ProjInv, NEW c \in LoggedCalls, RecordMoves(c), CallsInv'
  PROVE  ProjTypes' /\ BoardInv' /\ \A s \in Syncers : SyncSound(sync[s])'
<1>0. UNCHANGED board /\ UNCHANGED state /\ UNCHANGED sync /\ UNCHANGED untaken
  BY DEF RecordMoves, view
<1>1. ProjTypes'
  BY <1>0 DEF ProjInv, ProjTypes, ViewTypes, RecordMoves
<1>2. \A o \in LoggedCalls :
        /\ call[o].seq \in Nat /\ call'[o].seq \in Nat /\ call[o].seq <= lastSeq
        /\ board[o].n \in Nat
  BY DEF ProjInv, ProjTypes, ViewTypes, CallsInv, RecordMoves, CallRow, Cell
<1>3. state.gen \in Nat /\ state.seq \in Nat /\ generation \in Nat /\ lastSeq \in Nat
      /\ generation' \in Nat /\ lastSeq' \in Nat
  BY DEF ProjInv, ProjTypes, ViewTypes, StateRow, RecordMoves
<1>4. \A o \in LoggedCalls :
        /\ Public(o) => Public(o)' /\ call'[o].seq = call[o].seq
        /\ call'[o].record = "kept" => call'[o].seq = call[o].seq
        /\ Writing(o)' => \/ Writing(o) /\ call'[o].seq = call[o].seq
                          \/ call'[o].seq = lastSeq + 1
        /\ call'[o].record = "kept" => call[o].record = "kept" \/ Writing(o)
  BY DEF RecordMoves, Public, Writing
<1>5. BoardInv'
  <2>1. /\ state.gen <= generation' /\ state.seq <= lastSeq'
    BY <1>3 DEF ProjInv, BoardInv, RecordMoves
  <2>2. ASSUME NEW o \in LoggedCalls, board[o].n > 0
        PROVE  Public(o)' /\ (state.ready /\ call'[o].record = "kept" => call'[o].seq <= state.seq)
    BY <1>4, <2>2 DEF ProjInv, BoardInv, Public, Writing
  <2>3. ASSUME OneWriter, NEW o \in LoggedCalls, Writing(o)' PROVE state.seq < call'[o].seq
    BY <1>2, <1>3, <1>4, <2>3 DEF ProjInv, BoardInv
  <2>4. ProjectionAgrees'
    <3> SUFFICES ASSUME state.ready, state.gen = generation', NEW o \in LoggedCalls
                 PROVE  /\ o \notin untaken => board[o].n <= 1
                        /\ call'[o].record = "kept" /\ board[o].n > 0 /\ o \notin untaken
                             => board[o].v = call'[o].says
                        /\ OneWriter /\ call'[o].record = "kept" /\ o \notin untaken
                           /\ call'[o].seq <= state.seq => board[o].n = 1
      BY <1>0 DEF ProjectionAgrees, Kept
    <3>1. generation' = generation /\ state.gen = generation
      BY <1>3 DEF RecordMoves, ProjInv, BoardInv
    <3>2. call'[o].says = call[o].says
      BY <1>3, <3>1 DEF RecordMoves
    <3>3. call'[o].record = "kept" /\ call[o].record # "kept" =>
            board[o].n = 0 /\ (OneWriter => state.seq < call'[o].seq)
      BY <1>2, <1>4 DEF ProjInv, BoardInv, Public, Writing
    <3>4. /\ o \notin untaken => board[o].n <= 1
          /\ call[o].record = "kept" /\ board[o].n > 0 /\ o \notin untaken
               => board[o].v = call[o].says
          /\ OneWriter /\ call[o].record = "kept" /\ o \notin untaken
             /\ call[o].seq <= state.seq => board[o].n = 1
      BY <3>1 DEF ProjInv, BoardInv, ProjectionAgrees, Kept
    <3> QED
      BY <1>2, <1>3, <1>4, <3>2, <3>3, <3>4
  <2> QED
    BY <1>0, <2>1, <2>2, <2>3, <2>4 DEF BoardInv, Public, Writing
<1>6. ASSUME NEW s \in Syncers PROVE SyncSound(sync[s])'
  <2> DEFINE y == sync[s]
  <2>1. sync'[s] = y /\ y \in SyncRow /\ SyncSound(y)
    BY <1>0 DEF ProjInv, ProjTypes
  <2>2. y.at = "loaded" => LoadIsSound(y)'
    <3> SUFFICES ASSUME y.at = "loaded" PROVE LoadIsSound(y)'
      OBVIOUS
    <3>1. y \in LoadedRow /\ LoadIsSound(y)
      BY <2>1, SyncRows DEF SyncSound
    <3>2. y.gen \in Nat /\ y.from \in Nat
      BY <3>1 DEF LoadedRow
    <3>3. y.gen <= generation' /\ y.from <= lastSeq'
      BY <1>3, <3>1, <3>2 DEF LoadIsSound, RecordMoves
    <3>4. ASSUME OneWriter, NEW o \in LoggedCalls, Writing(o)' PROVE y.from < call'[o].seq
      BY <1>2, <1>3, <1>4, <3>1, <3>2, <3>4 DEF LoadIsSound
    <3> QED
      BY <1>0, <2>1, <3>1, <3>3, <3>4 DEF LoadIsSound, Writing
  <2>3. y.at = "aggregated" => PictureIsTrue(y)' /\ (y.fresh => PictureFits(y)')
    <3> SUFFICES ASSUME y.at = "aggregated"
                 PROVE  PictureIsTrue(y)' /\ (y.fresh => PictureFits(y)')
      OBVIOUS
    <3>1. y \in TakenRow /\ PictureIsTrue(y) /\ (y.fresh => PictureFits(y))
      BY <2>1, SyncRows DEF SyncSound
    <3>2. y.gen \in Nat /\ y.end \in Nat
      BY <3>1 DEF TakenRow
    <3>3. y.gen <= generation' /\ y.end <= lastSeq'
      BY <1>3, <3>1, <3>2 DEF PictureIsTrue, RecordMoves
    <3>4. ASSUME OneWriter, NEW o \in LoggedCalls, Writing(o)' PROVE y.end < call'[o].seq
      BY <1>2, <1>3, <1>4, <3>1, <3>2, <3>4 DEF PictureIsTrue
    <3>5. ASSUME NEW o \in DOMAIN y.says
          PROVE  /\ o \in LoggedCalls /\ Public(o)' /\ call'[o].seq = call[o].seq
                 /\ call'[o].seq <= y.end
                 /\ y.gen = generation' => y.says[o] = call'[o].says
      <4>1. /\ o \in LoggedCalls /\ Public(o) /\ call[o].seq <= y.end
            /\ y.gen = generation => y.says[o] = call[o].says
        BY <3>1, <3>5 DEF PictureIsTrue
      <4>2. Public(o)' /\ call'[o].seq = call[o].seq
        BY <4>1 DEF RecordMoves, Public
      <4>3. y.gen = generation' => generation' = generation /\ call'[o].says = call[o].says
        BY <1>3, <3>1, <3>2, <4>1 DEF RecordMoves, PictureIsTrue
      <4> QED
        BY <4>1, <4>2, <4>3
    <3>6. PictureIsTrue(y)'
      <4> QED
        BY <1>0, <2>1, <3>1, <3>3, <3>4, <3>5 DEF PictureIsTrue, Writing, Public
    <3>7. ASSUME y.fresh PROVE PictureFits(y)'
      <4>1. PictureFits(y)
        BY <3>1, <3>7
      <4>2. ASSUME y.mode = "increment"
            PROVE  /\ state.ready /\ y.gen = state.gen /\ state.seq <= y.end
                   /\ \A o \in DOMAIN y.says : state.seq < call'[o].seq /\ board[o].n = 0
        BY <3>5, <4>1, <4>2 DEF PictureFits
      <4>3. ASSUME y.mode = "checkpoint", NEW o \in LoggedCalls,
                   call'[o].record = "kept", board[o].n > 0
            PROVE  call'[o].seq <= y.end
        <5>1. call[o].record = "kept" /\ call'[o].seq = call[o].seq
          BY <1>4, <4>3 DEF ProjInv, BoardInv, Public, Writing
        <5> QED
          BY <4>1, <4>3, <5>1 DEF PictureFits
      <4>4. ASSUME OneWriter, y.mode # "checkpoint", NEW o \in LoggedCalls,
                   call'[o].record = "kept", call'[o].seq <= y.end,
                   y.mode = "increment" => state.seq < call'[o].seq
            PROVE  o \in DOMAIN y.says
        <5>1. call'[o].seq = call[o].seq
          BY <1>4, <4>4
        <5>2. ~Writing(o)
          BY <1>2, <3>1, <3>2, <4>4, <5>1 DEF PictureIsTrue
        <5>3. call[o].record = "kept"
          BY <1>4, <4>4, <5>2
        <5> QED
          BY <4>1, <4>4, <5>1, <5>3 DEF PictureFits
      <4> QED
        BY <1>0, <2>1, <4>2, <4>3, <4>4 DEF PictureFits
    <3> QED
      BY <3>6, <3>7
  <2> QED
    BY <2>1, <2>2, <2>3 DEF SyncSound
<1> QED
  BY <1>1, <1>5, <1>6

\* Each operation moves one record, and what CallsInv says of it stays.
LEMMA InsertMoves ==
  ASSUME ProjInv, NEW c \in LoggedCalls, AppendInserts(c)
  PROVE  RecordMoves(c) /\ CallsInv'
<1>1. lastSeq \in Nat /\ lastSeq + 1 \in Nat /\ generation \in Nat
  BY DEF ProjInv, ProjTypes
<1>2. /\ call[c] \in CallRow
  BY DEF ProjInv, ProjTypes
<1> DEFINE written == [call[c] EXCEPT !.record = "writing"]
<1>a. /\ written \in CallRow /\ written.record = "writing" /\ written.says = call[c].says
      /\ written.checked = call[c].checked
  BY <1>2, RecordChanges
<1> DEFINE numbered == [written EXCEPT !.seq = lastSeq + 1]
<1>3. call' = [call EXCEPT ![c] = numbered]
  BY <1>2 DEF AppendInserts, ProjInv, ProjTypes
<1>b. /\ numbered \in CallRow /\ numbered.record = "writing" /\ numbered.seq = lastSeq + 1
      /\ numbered.says = call[c].says /\ numbered.checked = call[c].checked
  <2> HIDE DEF written
  <2> QED
    BY <1>1, <1>a, NumberChanges
<1>4. /\ call'[c] \in CallRow /\ call'[c].record = "writing" /\ call'[c].seq = lastSeq + 1
      /\ call'[c].says = call[c].says /\ call'[c].checked = call[c].checked
  <2> HIDE DEF numbered
  <2> QED
    BY <1>3, <1>b DEF ProjInv, ProjTypes
<1>5. call' \in [LoggedCalls -> CallRow] /\ \A o \in LoggedCalls \ {c} : call'[o] = call[o]
  <2> HIDE DEF numbered
  <2> QED
    BY <1>3, <1>b DEF ProjInv, ProjTypes
<1>6. /\ call[c].record = "none" /\ lastSeq' = lastSeq + 1
      /\ UNCHANGED <<generation, view, sync, untaken>>
      /\ OneWriter => \A o \in LoggedCalls : ~Writing(o)
  BY DEF AppendInserts, Writing
<1>7. RecordMoves(c)
  BY <1>1, <1>4, <1>5, <1>6 DEF RecordMoves
<1>8. \A o \in LoggedCalls : call[o].seq \in Nat /\ call[o].seq <= lastSeq
  BY RowFields DEF ProjInv, ProjTypes, CallsInv
<1>9. CallsInv'
  <2>1. ASSUME NEW o \in LoggedCalls
        PROVE  /\ call'[o].seq <= lastSeq'
               /\ call'[o].record # "none" => call'[o].seq > 0
               /\ call'[o].checked => call'[o].record \in {"kept", "gone"}
    BY <1>1, <1>4, <1>5, <1>6, <1>8, <2>1 DEF ProjInv, CallsInv, Public
  <2>2. ASSUME OneWriter, NEW a \in LoggedCalls, NEW o \in LoggedCalls,
               call'[a].record = "writing", a # o
        PROVE  call'[o].seq < call'[a].seq
    BY <1>1, <1>4, <1>5, <1>6, <1>8, <2>2 DEF Writing
  <2>3. EndedCallsAreFinal'
    BY <1>4, <1>5 DEF ProjInv, CallsInv, EndedCallsAreFinal, Kept
  <2> QED
    BY <2>1, <2>2, <2>3 DEF CallsInv, Writing, Public
<1> QED
  BY <1>7, <1>9

\* What the other operations do to a record, with what CallsInv asks of them.
Touches(c) ==
  /\ call' \in [LoggedCalls -> CallRow] /\ lastSeq' = lastSeq /\ generation' \in Nat
  /\ generation' >= generation
  /\ \A o \in LoggedCalls \ {c} : call'[o] = call[o]
  /\ \/ call'[c].record = call[c].record
     \/ call[c].record = "writing" /\ call'[c].record = "kept"
     \/ call[c].record = "kept" /\ call'[c].record = "gone"
  /\ call'[c].seq = call[c].seq
  /\ call'[c].says = call[c].says \/ (generation' > generation /\ call[c].record = "kept")
  /\ call'[c].checked => Public(c)
  /\ call'[c].record = "kept" /\ call'[c].task = "handled" /\ call'[c].checked
       => call'[c].says = "final"
  /\ UNCHANGED <<view, sync, untaken>>

\* A step that keeps the number of the one call it is about moves its record.
LEMMA TouchesMoves ==
  ASSUME ProjInv, NEW c \in LoggedCalls, Touches(c)
  PROVE  RecordMoves(c) /\ CallsInv'
<1>1. RecordMoves(c)
  BY DEF Touches, RecordMoves, ProjInv, ProjTypes
<1>2. \A o \in LoggedCalls :
        /\ call'[o].seq = call[o].seq
        /\ call'[o].record = "none" <=> call[o].record = "none"
        /\ Public(o) => Public(o)'
        /\ call'[o].record = "writing" => Writing(o)
  BY DEF Touches, Public, Writing
<1>3. CallsInv'
  <2>1. ASSUME NEW o \in LoggedCalls
        PROVE  /\ call'[o].seq <= lastSeq'
               /\ call'[o].record # "none" => call'[o].seq > 0
               /\ call'[o].checked => Public(o)'
    BY <1>2, <2>1 DEF Touches, ProjInv, CallsInv
  <2>2. ASSUME OneWriter, NEW a \in LoggedCalls, NEW o \in LoggedCalls,
               call'[a].record = "writing", a # o
        PROVE  call'[o].seq < call'[a].seq
    BY <1>2, <2>2 DEF ProjInv, CallsInv
  <2>3. EndedCallsAreFinal'
    BY DEF Touches, ProjInv, CallsInv, EndedCallsAreFinal, Kept
  <2> QED
    BY <2>1, <2>2, <2>3 DEF CallsInv, Writing
<1> QED
  BY <1>1, <1>3

\* The writer commits a record.
LEMMA CommitTouches ==
  ASSUME ProjInv, NEW c \in LoggedCalls, AppendCommits(c)
  PROVE  Touches(c)
<1>1. call[c] \in CallRow /\ generation \in Nat /\ ~call[c].checked
  BY DEF ProjInv, ProjTypes, CallsInv, AppendCommits, Public
<1> DEFINE entry == [call[c] EXCEPT !.record = "kept"]
<1>2. call' = [call EXCEPT ![c] = entry]
  BY DEF AppendCommits
<1>3. /\ call'[c] \in CallRow /\ call'[c].record = "kept" /\ call'[c].seq = call[c].seq
      /\ call'[c].says = call[c].says /\ call'[c].checked = call[c].checked
  <2>1. /\ entry \in CallRow /\ entry.task = call[c].task /\ entry.seq = call[c].seq /\ entry.says = call[c].says
        /\ entry.checked = call[c].checked /\ entry.record = "kept"
    BY <1>1, RecordChanges
  <2> HIDE DEF entry
  <2> QED
    BY <1>2, <2>1 DEF ProjInv, ProjTypes
<1> QED
  BY <1>1, <1>2, <1>3 DEF Touches, AppendCommits, ProjInv, ProjTypes

\* The task of a call ends.
LEMMA EndTouches ==
  ASSUME ProjInv, NEW c \in LoggedCalls, TaskEnds(c)
  PROVE  Touches(c)
<1>1. call[c] \in CallRow /\ generation \in Nat
  BY DEF ProjInv, ProjTypes
<1> DEFINE entry == [call[c] EXCEPT !.task = "ended"]
<1>2. call' = [call EXCEPT ![c] = entry]
  BY DEF TaskEnds
<1>3. /\ call'[c] \in CallRow /\ call'[c].record = call[c].record /\ call'[c].seq = call[c].seq
      /\ call'[c].says = call[c].says /\ call'[c].checked = call[c].checked
      /\ call'[c].task = "ended"
  <2>1. /\ entry \in CallRow /\ entry.task = "ended" /\ entry.seq = call[c].seq /\ entry.says = call[c].says
        /\ entry.checked = call[c].checked /\ entry.record = call[c].record
    BY <1>1, TaskChanges
  <2> HIDE DEF entry
  <2> QED
    BY <1>2, <2>1 DEF ProjInv, ProjTypes
<1> QED
  BY <1>1, <1>2, <1>3 DEF Touches, TaskEnds, ProjInv, ProjTypes, CallsInv

\* A record is deleted, and keeps its number.
LEMMA DeleteTouches ==
  ASSUME ProjInv, NEW c \in LoggedCalls, DeleteRecord(c)
  PROVE  Touches(c)
<1>1. call[c] \in CallRow /\ generation \in Nat
  BY DEF ProjInv, ProjTypes
<1> DEFINE entry == [call[c] EXCEPT !.record = "gone"]
<1>2. call' = [call EXCEPT ![c] = entry]
  BY DEF DeleteRecord
<1>3. /\ call'[c] \in CallRow /\ call'[c].record = "gone" /\ call'[c].seq = call[c].seq
      /\ call'[c].says = call[c].says
  <2>1. /\ entry \in CallRow /\ entry.task = call[c].task /\ entry.seq = call[c].seq /\ entry.says = call[c].says
        /\ entry.checked = call[c].checked /\ entry.record = "gone"
    BY <1>1, RecordChanges
  <2> HIDE DEF entry
  <2> QED
    BY <1>2, <2>1 DEF ProjInv, ProjTypes
<1> QED
  BY <1>1, <1>2, <1>3 DEF Touches, DeleteRecord, ProjInv, ProjTypes, Public

\* A record is finalized.
LEMMA FinalizeTouches ==
  ASSUME ProjInv, NEW c \in LoggedCalls, NEW mark \in CallRow, FinalizedAt(c, mark),
         mark.record = call[c].record, mark.seq = call[c].seq, mark.says = call[c].says,
         mark.checked => Public(c),
         UNCHANGED <<lastSeq, view, sync, untaken>>
  PROVE  Touches(c)
<1>1. generation \in Nat /\ call[c].says \in Words
  BY RowFields DEF ProjInv, ProjTypes
<1>2. CASE call[c].record = "kept" /\ call[c].says = "queued"
  <2> DEFINE entry == [mark EXCEPT !.says = "final"]
  <2>1. call' = [call EXCEPT ![c] = entry] /\ generation' = generation + 1
    BY <1>2 DEF FinalizedAt, Rotated
  <2>2. /\ call'[c] \in CallRow /\ call'[c].record = call[c].record /\ call'[c].seq = call[c].seq
        /\ call'[c].says = "final" /\ call'[c].checked = mark.checked
    <3>1. /\ entry \in CallRow /\ entry.record = mark.record /\ entry.seq = mark.seq
          /\ entry.says = "final" /\ entry.checked = mark.checked
      BY WordChanges DEF Words
    <3> HIDE DEF entry
    <3> QED
      BY <2>1, <3>1 DEF ProjInv, ProjTypes
  <2> QED
    BY <1>1, <1>2, <2>1, <2>2 DEF Touches, ProjInv, ProjTypes
<1>3. CASE ~(call[c].record = "kept" /\ call[c].says = "queued")
  <2>1. call' = [call EXCEPT ![c] = mark] /\ generation' = generation
    BY <1>3 DEF FinalizedAt
  <2>2. call'[c] = mark
    BY <2>1 DEF ProjInv, ProjTypes
  <2>3. call[c].record = "kept" => call[c].says = "final"
    BY <1>1, <1>3 DEF Words
  <2> QED
    BY <1>1, <2>1, <2>2, <2>3 DEF Touches, ProjInv, ProjTypes
<1> QED
  BY <1>2, <1>3

\* The end of a task is handled, by its callback or by the reconciliation.
LEMMA HandleTouches ==
  ASSUME ProjInv, NEW c \in LoggedCalls, FinalizeEndedTask(c) \/ ReconcileCallRecord(c)
  PROVE  Touches(c)
<1>1. call[c] \in CallRow /\ generation \in Nat /\ (call[c].checked => Public(c))
  BY DEF ProjInv, ProjTypes, CallsInv
<1>2. CASE FinalizeEndedTask(c)
  <2>1. FinalizedAt(c, [call[c] EXCEPT !.task = "handled"]) /\ UNCHANGED <<lastSeq, view, sync, untaken>>
    BY <1>2 DEF FinalizeEndedTask
  <2>2. /\ [call[c] EXCEPT !.task = "handled"] \in CallRow
        /\ [call[c] EXCEPT !.task = "handled"].record = call[c].record
        /\ [call[c] EXCEPT !.task = "handled"].seq = call[c].seq
        /\ [call[c] EXCEPT !.task = "handled"].says = call[c].says
        /\ [call[c] EXCEPT !.task = "handled"].checked = call[c].checked
    BY <1>1, TaskChanges
  <2> QED
    BY <1>1, <2>1, <2>2, FinalizeTouches
<1>3. CASE ReconcileCallRecord(c)
  <2> DEFINE mark == [call[c] EXCEPT !.checked = TRUE]
  <2>1. /\ mark \in CallRow /\ mark.record = call[c].record /\ mark.seq = call[c].seq
        /\ mark.says = call[c].says /\ mark.checked /\ mark.task = call[c].task
    BY <1>1, CheckChanges
  <2>2. Public(c) /\ UNCHANGED <<lastSeq, view, sync, untaken>>
    BY <1>3 DEF ReconcileCallRecord, Public
  <2>3. CASE call[c].task # "running"
    <3>1. FinalizedAt(c, mark)
      BY <1>3, <2>3 DEF ReconcileCallRecord, ReconcileEnded
    <3> QED
      BY <2>1, <2>2, <3>1, FinalizeTouches
  <2>4. CASE call[c].task = "running"
    <3>1. call' = [call EXCEPT ![c] = mark] /\ UNCHANGED generation
      BY <1>3, <2>4 DEF ReconcileCallRecord, ReconcileEnded
    <3>2. call'[c] = mark
      BY <3>1 DEF ProjInv, ProjTypes
    <3> HIDE DEF mark
    <3> QED
      BY <1>1, <2>1, <2>2, <2>4, <3>1, <3>2 DEF Touches, ProjInv, ProjTypes
  <2> QED
    BY <2>3, <2>4
<1> QED
  BY <1>2, <1>3

\* The records move, whatever operation it is.
LEMMA RecordStepKeeps ==
  ASSUME ProjInv, NEW c \in LoggedCalls,
         \/ AppendInserts(c) \/ AppendCommits(c) \/ TaskEnds(c)
         \/ FinalizeEndedTask(c) \/ ReconcileCallRecord(c) \/ DeleteRecord(c)
  PROVE  ProjInv'
<1>1. RecordMoves(c) /\ CallsInv'
  BY InsertMoves, TouchesMoves, CommitTouches, EndTouches, DeleteTouches, HandleTouches
<1> QED
  BY <1>1, MovesKeepView DEF ProjInv

-----------------------------------------------------------------------------
(* Steps of the projection                                                 *)

\* Where a synchronisation is after a step.
LEMMA SyncIs ==
  ASSUME NEW s \in Syncers, NEW z, sync'[s] = z, SyncSound(z)'
  PROVE  SyncSound(sync[s])'
BY DEF SyncSound, LoadIsSound, PictureIsTrue, PictureFits, Public, Writing

\* One that goes on with the same records and view, and one at rest.
LEMMA SyncStays ==
  /\ \A y : SyncSound(y) /\ UNCHANGED <<records, view>> => SyncSound(y)'
  /\ SyncSound(SyncAtRest)'
<1>1. ASSUME NEW y, SyncSound(y), UNCHANGED <<records, view>> PROVE SyncSound(y)'
  BY <1>1 DEF records, view, SyncSound, LoadIsSound, PictureIsTrue, PictureFits, Public, Writing
<1>2. SyncSound(SyncAtRest)'
  BY DEF SyncSound, SyncAtRest
<1> QED
  BY <1>1, <1>2

\* What Revised makes of a synchronisation: nothing in it claims to be fresh.
Stale(y) == IF y = SyncAtRest THEN SyncAtRest ELSE [y EXCEPT !.fresh = FALSE]

\* A stale one is sound while the records stay.
LEMMA StaleStays ==
  ASSUME NEW y \in SyncRow, SyncSound(y), UNCHANGED records
  PROVE  Stale(y) \in SyncRow /\ SyncSound(Stale(y))'
<1>1. CASE y = SyncAtRest
  BY <1>1, SyncRows, SyncStays DEF Stale
<1>2. CASE y \in LoadedRow
  <2> DEFINE z == [y EXCEPT !.fresh = FALSE]
  <2>1. /\ z \in LoadedRow /\ ~z.fresh /\ z.gen = y.gen /\ z.from = y.from /\ z.mode = y.mode
        /\ z.at = "loaded"
    BY <1>2 DEF LoadedRow
  <2>2. Stale(y) = z
    BY <1>2, SyncRows DEF Stale, SyncAtRest
  <2>3. LoadIsSound(y)
    BY <1>2, SyncRows DEF SyncSound
  <2> HIDE DEF z
  <2>4. LoadIsSound(z)'
    BY <2>1, <2>3 DEF LoadIsSound, records, Writing
  <2>5. z \in SyncRow /\ SyncSound(z)'
    BY <2>1, <2>4, SyncRows DEF SyncSound
  <2> QED
    BY <2>2, <2>5
<1>3. CASE y \in TakenRow
  <2> DEFINE z == [y EXCEPT !.fresh = FALSE]
  <2>1. /\ z \in TakenRow /\ ~z.fresh /\ z.gen = y.gen /\ z.end = y.end /\ z.mode = y.mode
        /\ z.at = "aggregated" /\ z.says = y.says
    BY <1>3 DEF TakenRow
  <2>2. Stale(y) = z
    BY <1>3, SyncRows DEF Stale, SyncAtRest
  <2>3. PictureIsTrue(y)
    BY <1>3, SyncRows DEF SyncSound
  <2> HIDE DEF z
  <2>4. PictureIsTrue(z)'
    BY <2>1, <2>3 DEF PictureIsTrue, records, Writing, Public
  <2>5. z \in SyncRow /\ SyncSound(z)'
    BY <2>1, <2>4, SyncRows DEF SyncSound
  <2> QED
    BY <2>2, <2>5
<1> QED
  BY <1>1, <1>2, <1>3, SyncRows

\* The view moves, and all that others loaded is old.
LEMMA RevisedStays ==
  ASSUME ProjInv, UNCHANGED records, NEW s \in Syncers,
         sync' = Revised([sync EXCEPT ![s] = SyncAtRest])
  PROVE  sync' \in [Syncers -> SyncRow] /\ \A o \in Syncers : SyncSound(sync[o])'
<1>1. \A o \in Syncers : sync'[o] = IF o = s THEN SyncAtRest ELSE Stale(sync[o])
  BY DEF Revised, Stale, ProjInv, ProjTypes
<1>2. \A o \in Syncers : sync[o] \in SyncRow /\ SyncSound(sync[o])
  BY DEF ProjInv, ProjTypes
<1>3. ASSUME NEW o \in Syncers PROVE sync'[o] \in SyncRow /\ SyncSound(sync[o])'
  <2>1. CASE o = s
    BY <1>1, <2>1, SyncRows, SyncStays, SyncIs
  <2>2. CASE o # s
    <3>1. sync'[o] = Stale(sync[o])
      BY <1>1, <2>2
    <3>2. PICK z : z = sync[o]
      OBVIOUS
    <3>3. z \in SyncRow /\ SyncSound(z)
      BY <1>2, <3>2
    <3>4. Stale(z) \in SyncRow /\ SyncSound(Stale(z))'
      BY <3>3, StaleStays
    <3> QED
      BY <3>1, <3>2, <3>4, SyncIs
  <2> QED
    BY <2>1, <2>2
<1>4. sync' \in [Syncers -> SyncRow]
  BY <1>3 DEF Revised
<1> QED
  BY <1>3, <1>4

\* One synchronisation moves and nothing else.
LEMMA OneSync ==
  ASSUME ProjInv, UNCHANGED <<records, view, untaken>>, NEW s \in Syncers,
         NEW z \in SyncRow, SyncSound(z), sync' = [sync EXCEPT ![s] = z]
  PROVE  ProjInv'
<1>1. ASSUME NEW o \in Syncers PROVE SyncSound(sync[o])'
  <2>1. PICK y : y = sync'[o]
    OBVIOUS
  <2>2. SyncSound(y)
    BY <2>1 DEF ProjInv, ProjTypes
  <2> QED
    BY <2>1, <2>2, SyncStays, SyncIs
<1>2. ProjTypes'
  BY DEF ProjInv, ProjTypes, ViewTypes, records, view
<1>3. CallsInv'
  BY DEF ProjInv, CallsInv, EndedCallsAreFinal, Kept, Writing, Public, records
<1>4. BoardInv'
  BY DEF ProjInv, BoardInv, ProjectionAgrees, Kept, Writing, Public, records, view
<1> QED
  BY <1>1, <1>2, <1>3, <1>4 DEF ProjInv

\* What is loaded is the state there is.
LEMMA LoadKeeps ==
  ASSUME ProjInv, NEW s \in Syncers, NEW forced \in BOOLEAN, NEW tries \in Nat,
         Load(s, forced, tries), UNCHANGED <<records, view, untaken>>
  PROVE  ProjInv'
<1>1. PICK m \in Modes :
        /\ m = "increment" => state.ready
        /\ sync' = [sync EXCEPT ![s] = [at |-> "loaded", mode |-> m, tries |-> tries, fresh |-> TRUE,
                                         from |-> IF m = "increment" THEN state.seq ELSE 0,
                                         gen |-> IF m = "increment" THEN state.gen ELSE generation]]
  BY DEF Load, Modes
<1>2. PICK from \in Nat, gen \in Nat :
        /\ from = (IF m = "increment" THEN state.seq ELSE 0)
        /\ gen = (IF m = "increment" THEN state.gen ELSE generation)
  BY DEF ProjInv, ProjTypes, ViewTypes, StateRow
<1> DEFINE z == [at |-> "loaded", mode |-> m, tries |-> tries, fresh |-> TRUE,
                 from |-> from, gen |-> gen]
<1>3. /\ z \in LoadedRow /\ z.at = "loaded" /\ z.mode = m /\ z.from = from /\ z.gen = gen
      /\ sync' = [sync EXCEPT ![s] = z]
  BY <1>1, <1>2 DEF LoadedRow
<1> HIDE DEF z
<1>4. LoadIsSound(z)
  <2>1. gen <= generation /\ from <= lastSeq
    BY <1>2 DEF ProjInv, ProjTypes, ViewTypes, StateRow, BoardInv
  <2>2. OneWriter => \A c \in LoggedCalls : Writing(c) => from < call[c].seq
    BY <1>2 DEF ProjInv, BoardInv, CallsInv, Writing
  <2> QED
    BY <1>1, <1>2, <1>3, <2>1, <2>2 DEF LoadIsSound
<1>5. z \in SyncRow /\ SyncSound(z)
  BY <1>3, <1>4, SyncRows DEF SyncSound
<1> QED
  BY <1>3, <1>5, OneSync

\* The projection is given up until a rebuild.
LEMMA DegradeKeeps ==
  ASSUME ProjInv, NEW s \in Syncers, Degrade(s), UNCHANGED <<records, untaken>>
  PROVE  ProjInv'
<1>1. /\ state' = [state EXCEPT !.ready = FALSE] /\ UNCHANGED board
      /\ sync' = Revised([sync EXCEPT ![s] = SyncAtRest])
  BY DEF Degrade
<1>2. state' \in StateRow /\ state'.gen = state.gen /\ state'.seq = state.seq /\ ~state'.ready
  BY <1>1 DEF ProjInv, ProjTypes, ViewTypes, StateRow
<1>3. sync' \in [Syncers -> SyncRow] /\ \A o \in Syncers : SyncSound(sync[o])'
  BY <1>1, RevisedStays
<1>4. ProjTypes'
  BY <1>1, <1>2, <1>3 DEF ProjInv, ProjTypes, ViewTypes, records
<1>5. CallsInv'
  BY DEF ProjInv, CallsInv, EndedCallsAreFinal, Kept, Writing, Public, records
<1>6. BoardInv'
  BY <1>1, <1>2 DEF ProjInv, BoardInv, ProjectionAgrees, Writing, Public, records
<1> QED
  BY <1>3, <1>4, <1>5, <1>6 DEF ProjInv

\* Another attempt, or none.
LEMMA AgainKeeps ==
  ASSUME ProjInv, NEW s \in Syncers, NEW forced \in BOOLEAN, Again(s, forced),
         sync[s].at \in {"loaded", "aggregated"}, UNCHANGED <<records, untaken>>
  PROVE  ProjInv'
<1>1. sync[s].tries + 1 \in Nat
  BY SyncRows DEF ProjInv, ProjTypes, LoadedRow, TakenRow
<1> QED
  BY <1>1, DegradeKeeps, LoadKeeps DEF Again

\* The schema is made anew while nothing is synchronised.
LEMMA ResetKeeps ==
  ASSUME ProjInv, NEW s \in Syncers, ResetSchema(s)
  PROVE  ProjInv'
<1>1. UNCHANGED <<records, sync, untaken>> /\ state' = NoRow /\ \A o \in Syncers : sync[o] = SyncAtRest
  BY DEF ResetSchema
<1>2. state' \in StateRow /\ state'.gen = 0 /\ state'.seq = 0 /\ ~state'.ready
  BY <1>1 DEF NoRow, StateRow
<1>3. board' \in [LoggedCalls -> Cell] /\ \A c \in LoggedCalls : board'[c].n = board[c].n \/ board'[c].n = 0
  BY DEF ResetSchema, ProjInv, ProjTypes, ViewTypes, Uncounted, Cell
<1>4. \A o \in Syncers : SyncSound(sync[o])'
  BY <1>1, SyncStays, SyncIs
<1>5. ProjTypes'
  BY <1>1, <1>2, <1>3 DEF ProjInv, ProjTypes, ViewTypes, records
<1>6. CallsInv'
  BY <1>1 DEF ProjInv, CallsInv, EndedCallsAreFinal, Kept, Writing, Public, records
<1>7. BoardInv'
  <2>1. \A c \in LoggedCalls : Writing(c) => call[c].seq > 0
    BY DEF ProjInv, CallsInv, Writing
  <2>2. generation \in Nat /\ lastSeq \in Nat
    BY DEF ProjInv, ProjTypes
  <2>3. ~ProjectionAgrees' => FALSE
    BY <1>2 DEF ProjectionAgrees
  <2>4. \A c \in LoggedCalls : board'[c].n > 0 => Public(c)
    BY <1>3 DEF ProjInv, BoardInv
  <2> QED
    BY <1>1, <1>2, <2>1, <2>2, <2>3, <2>4 DEF BoardInv, Writing, Public, records
<1> QED
  BY <1>4, <1>5, <1>6, <1>7 DEF ProjInv

\* The window ends at the last record there is, or at the cursor.
LEMMA WindowEnds ==
  ASSUME ProjInv, NEW from \in Nat, from <= lastSeq,
         OneWriter => \A c \in LoggedCalls : Writing(c) => from < call[c].seq
  PROVE  LET end == Top({LastKept, from}) IN
         /\ end \in Nat /\ end <= lastSeq /\ from <= end
         /\ \A c \in Kept : call[c].seq <= end
         /\ OneWriter => \A c \in LoggedCalls : Writing(c) => end < call[c].seq
<1> DEFINE S == {call[c].seq : c \in Kept}
           end == Top({LastKept, from})
<1>1. S \in SUBSET Nat /\ lastSeq \in Nat /\ \A n \in S : n <= lastSeq
  BY RowFields DEF ProjInv, ProjTypes, CallsInv, Kept
<1>2. /\ LastKept \in Nat /\ LastKept <= lastSeq /\ \A n \in S : n <= LastKept
      /\ S # {} => LastKept \in S
      /\ S = {} => LastKept = 0
  BY <1>1, TopIsGreatest DEF LastKept, Top
<1>3. /\ end \in Nat /\ end <= lastSeq /\ from <= end /\ LastKept <= end
      /\ end \in {LastKept, from}
  BY <1>1, <1>2, TopIsGreatest
<1>4. ASSUME OneWriter, NEW c \in LoggedCalls, Writing(c) PROVE end < call[c].seq
  <2>1. from < call[c].seq
    BY <1>4
  <2>2. LastKept < call[c].seq
    <3>1. CASE S = {}
      BY <1>2, <1>4, <3>1 DEF ProjInv, CallsInv, Writing
    <3>2. CASE S # {}
      <4>1. PICK o \in Kept : LastKept = call[o].seq
        BY <1>2, <3>2
      <4>2. o # c /\ o \in LoggedCalls
        BY <1>4 DEF Kept, Writing
      <4> QED
        BY <1>4, <4>1, <4>2 DEF ProjInv, CallsInv
    <3> QED
      BY <3>1, <3>2
  <2> QED
    BY <1>3, <2>1, <2>2
<1>5. \A c \in Kept : call[c].seq <= end
  <2>1. \A c \in Kept : call[c].seq \in S
    OBVIOUS
  <2>2. \A c \in Kept : call[c].seq \in Nat /\ call[c].seq <= LastKept
    BY <1>1, <1>2, <2>1
  <2> HIDE DEF S, end
  <2> QED
    BY <1>2, <1>3, <2>2
<1> QED
  BY <1>3, <1>4, <1>5

\* A picture is taken of the records behind the cursor.
LEMMA OpenKeeps ==
  ASSUME ProjInv, NEW s \in Syncers, OpenCallWindow(s)
  PROVE  ProjInv'
<1>1. /\ sync[s].at = "loaded" /\ UNCHANGED <<records, untaken>>
      /\ sync[s] \in LoadedRow /\ LoadIsSound(sync[s])
  BY SyncRows DEF OpenCallWindow, ProjInv, ProjTypes, SyncSound
<1>2. PICK y \in LoadedRow : y = sync[s] /\ LoadIsSound(y)
  BY <1>1
<1>3. CASE y.gen # generation
  BY <1>1, <1>2, <1>3, AgainKeeps DEF OpenCallWindow
<1>4. CASE y.gen = generation
  <2> DEFINE items == IF y.mode = "checkpoint" THEN {} ELSE {c \in Kept : call[c].seq > y.from}
             pic == [c \in items |-> call[c].says]
  <2>1. PICK end : end = Top({LastKept, y.from})
    OBVIOUS
  <2>2. y.mode \in Modes /\ y.from \in Nat /\ y.gen \in Nat /\ y.tries \in Nat /\ y.fresh \in BOOLEAN
    BY DEF LoadedRow
  <2>3. /\ end \in Nat /\ end <= lastSeq /\ y.from <= end
        /\ \A c \in Kept : call[c].seq <= end
        /\ OneWriter => \A c \in LoggedCalls : Writing(c) => end < call[c].seq
    BY <1>2, <2>1, <2>2, WindowEnds DEF LoadIsSound
  <2>4. items \subseteq Kept /\ Kept \subseteq LoggedCalls
    BY DEF Kept
  <2>5. pic \in Pictures /\ DOMAIN pic = items /\ \A c \in items : pic[c] = call[c].says
    <3>1. items \in SUBSET LoggedCalls
      BY <2>4
    <3>2. \A c \in items : call[c].says \in Words
      BY <2>4, RowFields DEF ProjInv, ProjTypes
    <3>3. pic \in [items -> Words]
      BY <3>2
    <3> HIDE DEF items, pic
    <3>4. pic \in Pictures
      BY <3>1, <3>3 DEF Pictures
    <3> USE DEF pic
    <3> QED
      BY <3>4
  <2> DEFINE z == [at |-> "aggregated", mode |-> y.mode, fresh |-> y.fresh,
                   gen |-> y.gen, end |-> end, tries |-> y.tries, says |-> pic]
  <2>6. sync' = [sync EXCEPT ![s] = z] /\ UNCHANGED view
    BY <1>2, <1>4, <2>1 DEF OpenCallWindow
  <2> HIDE DEF pic
  <2>7. /\ z \in TakenRow /\ z.at = "aggregated" /\ z.mode = y.mode /\ z.fresh = y.fresh
        /\ z.gen = y.gen /\ z.end = end /\ z.says = pic
    BY <2>2, <2>3, <2>5 DEF TakenRow
  <2> HIDE DEF z
  <2>8. PictureIsTrue(z)
    <3>1. \A c \in DOMAIN z.says :
            /\ c \in LoggedCalls /\ Public(c) /\ call[c].seq <= z.end
            /\ z.says[c] = call[c].says
      BY <2>3, <2>4, <2>5, <2>7 DEF Public, Kept
    <3>2. z.mode = "checkpoint" => DOMAIN z.says = {}
      BY <2>5, <2>7
    <3>3. z.gen <= generation
      BY <1>2, <2>7 DEF LoadIsSound
    <3> QED
      BY <2>3, <2>7, <3>1, <3>2, <3>3 DEF PictureIsTrue
  <2>9. ASSUME z.fresh PROVE PictureFits(z)
    <3>1. ASSUME z.mode = "increment"
          PROVE  /\ state.ready /\ z.gen = state.gen /\ y.from = state.seq /\ state.seq <= z.end
                 /\ \A c \in DOMAIN z.says : state.seq < call[c].seq /\ board[c].n = 0
      <4>1. state.ready /\ y.from = state.seq /\ y.gen = state.gen
        BY <1>2, <2>7, <2>9, <3>1 DEF LoadIsSound
      <4>2. ASSUME NEW c \in items PROVE state.seq < call[c].seq /\ board[c].n = 0
        <5>1. c \in LoggedCalls /\ call[c].record = "kept" /\ call[c].seq > state.seq
          BY <2>4, <2>7, <3>1, <4>1 DEF Kept
        <5>2. call[c].seq \in Nat /\ state.seq \in Nat /\ board[c].n \in {0, 1}
          BY <5>1, RowFields DEF ProjInv, ProjTypes, ViewTypes, StateRow, Cell
        <5> QED
          BY <4>1, <5>1, <5>2 DEF ProjInv, BoardInv
      <4> QED
        BY <2>3, <2>5, <2>7, <4>1, <4>2
    <3>2. \A c \in LoggedCalls : call[c].record = "kept" => call[c].seq <= z.end
      BY <2>3, <2>7 DEF Kept
    <3>3. ASSUME z.mode # "checkpoint", NEW c \in LoggedCalls, call[c].record = "kept",
                 z.mode = "increment" => state.seq < call[c].seq
          PROVE  c \in DOMAIN z.says
      <4>1. y.from < call[c].seq
        <5>1. CASE z.mode = "increment"
          BY <3>1, <3>3, <5>1
        <5>2. CASE z.mode # "increment"
          BY <1>2, <2>7, <3>3, <5>2 DEF LoadIsSound, ProjInv, CallsInv
        <5> QED
          BY <5>1, <5>2
      <4> QED
        BY <2>2, <2>5, <2>7, <3>3, <4>1, RowFields DEF Kept, ProjInv, ProjTypes
    <3> QED
      BY <3>1, <3>2, <3>3 DEF PictureFits
  <2>10. z \in SyncRow /\ SyncSound(z)
    BY <2>7, <2>8, <2>9, SyncRows DEF SyncSound
  <2> QED
    BY <1>1, <2>6, <2>10, OneSync
<1> QED
  BY <1>3, <1>4

\* The picture is counted.
LEMMA WriteKeeps ==
  ASSUME ProjInv, NEW s \in Syncers, WriteProjection(s)
  PROVE  ProjInv'
<1>1. sync[s].at = "aggregated" /\ UNCHANGED records
  BY DEF WriteProjection
<1>2. PICK y \in TakenRow : y = sync[s] /\ PictureIsTrue(y) /\ (y.fresh => PictureFits(y))
  BY <1>1, SyncRows DEF ProjInv, ProjTypes, SyncSound
<1>3. CASE ~y.fresh \/ y.gen # generation
  BY <1>1, <1>2, <1>3, AgainKeeps DEF WriteProjection, SameRevision, SameSource
<1>4. CASE y.fresh /\ y.gen = generation
  <2> DEFINE next == [gen |-> y.gen, seq |-> y.end, ready |-> TRUE]
             counted(c) == [n |-> (IF y.mode = "increment" THEN board[c].n ELSE 0) + 1, v |-> y.says[c]]
  <2>1. /\ board' = [c \in LoggedCalls |->
                       IF c \in DOMAIN y.says THEN counted(c)
                       ELSE IF y.mode = "rebuild" THEN Uncounted ELSE board[c]]
        /\ state' = next
        /\ LET done == [sync EXCEPT ![s] = SyncAtRest] IN
           sync' = IF next = state /\ y.mode # "rebuild" THEN done ELSE Revised(done)
        /\ untaken' = IF y.mode = "checkpoint" THEN {c \in LoggedCalls : call[c].seq <= y.end}
                      ELSE IF y.mode = "rebuild" THEN {} ELSE untaken
    BY <1>2, <1>4 DEF WriteProjection, SameRevision, SameSource
  <2>2. y.mode \in Modes /\ y.gen \in Nat /\ y.end \in Nat /\ y.says \in Pictures
    BY DEF TakenRow
  <2>3. \A c \in DOMAIN y.says : y.says[c] \in Words
    BY <2>2 DEF Pictures
  <2>4. state' \in StateRow /\ state'.gen = generation /\ state'.seq = y.end /\ state'.ready
    BY <1>4, <2>1, <2>2 DEF StateRow
  <2>5. PictureIsTrue(y) /\ PictureFits(y)
    BY <1>2, <1>4
  <2>6. \A c \in LoggedCalls : board[c] \in Cell /\ board[c].n \in {0, 1} /\ call[c].seq \in Nat
    BY RowFields DEF ProjInv, ProjTypes, ViewTypes, Cell
  <2>7. ASSUME NEW c \in DOMAIN y.says
        PROVE  /\ c \in LoggedCalls /\ board'[c] \in Cell /\ board'[c].n = 1
               /\ board'[c].v = call[c].says /\ Public(c) /\ call[c].seq <= y.end
    <3>1. c \in LoggedCalls /\ Public(c) /\ call[c].seq <= y.end /\ y.says[c] = call[c].says
      BY <1>4, <2>5 DEF PictureIsTrue
    <3>2. board'[c] = counted(c)
      BY <2>1, <3>1
    <3>3. y.mode = "increment" => board[c].n = 0
      BY <2>5 DEF PictureFits
    <3>4. board'[c] = [n |-> 1, v |-> y.says[c]]
      BY <3>2, <3>3
    <3> QED
      BY <2>3, <3>1, <3>4 DEF Cell, Words
  <2>8. ASSUME NEW c \in LoggedCalls, c \notin DOMAIN y.says
        PROVE  /\ y.mode = "rebuild" => board'[c] \in Cell /\ board'[c].n = 0
               /\ y.mode # "rebuild" => board'[c] = board[c]
    BY <2>1, <2>8 DEF Uncounted, Cell
  <2>9. board' \in [LoggedCalls -> Cell]
    <3>1. \A c \in LoggedCalls : board'[c] \in Cell
      BY <2>6, <2>7, <2>8
    <3> HIDE DEF counted
    <3> QED
      BY <2>1, <3>1
  <2>10. y.mode = "increment" \/ y.mode = "checkpoint" \/ y.mode = "rebuild"
    BY <2>2 DEF Modes
  <2>11. y.mode = "increment" =>
           /\ state.ready /\ state.gen = generation /\ state.seq <= y.end /\ state.seq \in Nat
           /\ \A c \in DOMAIN y.says : state.seq < call[c].seq
    BY <1>4, <2>5 DEF PictureFits, ProjInv, ProjTypes, ViewTypes, StateRow
  <2>12. y.mode = "checkpoint" => DOMAIN y.says = {}
    BY <2>5 DEF PictureIsTrue
  <2>13. sync' \in [Syncers -> SyncRow] /\ \A o \in Syncers : SyncSound(sync[o])'
    <3>1. CASE next = state /\ y.mode # "rebuild"
      <4>1. DOMAIN y.says = {}
        <5>1. CASE y.mode = "increment"
          <6>1. state.seq = y.end
            BY <3>1
          <6> QED
            BY <2>2, <2>5, <2>6, <2>7, <2>11, <5>1, <6>1
        <5> QED
          BY <2>10, <2>12, <3>1, <5>1
      <4>2. UNCHANGED view
        <5>1. board' = board
          <6>1. \A c \in LoggedCalls : board'[c] = board[c]
            BY <2>8, <3>1, <4>1
          <6>2. board \in [LoggedCalls -> Cell]
            BY DEF ProjInv, ProjTypes, ViewTypes
          <6> QED
            BY <2>9, <6>1, <6>2
        <5> QED
          BY <2>1, <3>1, <5>1 DEF view
      <4>3. sync' = [sync EXCEPT ![s] = SyncAtRest]
        BY <2>1, <3>1
      <4>4. ASSUME NEW o \in Syncers PROVE SyncSound(sync[o])'
        <5>1. PICK z : z = sync'[o]
          OBVIOUS
        <5>2. SyncSound(z) \/ z = SyncAtRest
          BY <4>3, <5>1 DEF ProjInv, ProjTypes
        <5> QED
          BY <1>1, <4>2, <5>1, <5>2, SyncStays, SyncIs
      <4> QED
        BY <4>3, <4>4, SyncRows DEF ProjInv, ProjTypes
    <3>2. CASE ~(next = state /\ y.mode # "rebuild")
      <4>1. sync' = Revised([sync EXCEPT ![s] = SyncAtRest])
        BY <2>1, <3>2
      <4> QED
        BY <1>1, <4>1, RevisedStays
    <3> QED
      BY <3>1, <3>2
  <2>14. ProjTypes'
    BY <1>1, <2>4, <2>9, <2>13 DEF ProjInv, ProjTypes, ViewTypes, records
  <2>15. CallsInv'
    BY <1>1 DEF ProjInv, CallsInv, EndedCallsAreFinal, Kept, Writing, Public, records
  <2>16. BoardInv'
    <3>1. state'.gen <= generation /\ state'.seq <= lastSeq
      BY <2>4, <2>5 DEF PictureIsTrue, ProjInv, ProjTypes
    <3>2. ASSUME NEW c \in LoggedCalls, board'[c].n > 0
          PROVE  Public(c) /\ (call[c].record = "kept" => call[c].seq <= y.end)
      <4>1. CASE c \in DOMAIN y.says
        BY <2>7, <4>1
      <4>2. CASE c \notin DOMAIN y.says
        <5>1. y.mode # "rebuild" /\ board'[c] = board[c] /\ board[c].n > 0
          BY <2>8, <3>2, <4>2
        <5>2. Public(c) /\ (state.ready /\ call[c].record = "kept" => call[c].seq <= state.seq)
          BY <5>1 DEF ProjInv, BoardInv
        <5>3. CASE y.mode = "increment"
          BY <2>2, <2>6, <2>11, <5>2, <5>3
        <5>4. CASE y.mode = "checkpoint"
          BY <2>5, <5>1, <5>2, <5>4 DEF PictureFits
        <5> QED
          BY <2>10, <5>1, <5>3, <5>4
      <4> QED
        BY <4>1, <4>2
    <3>3. OneWriter => \A c \in LoggedCalls : Writing(c) => y.end < call[c].seq
      BY <2>5 DEF PictureIsTrue
    <3>4. ASSUME NEW c \in LoggedCalls
          PROVE  /\ board'[c].n <= 1
                 /\ call[c].record = "kept" /\ board'[c].n > 0 /\ c \notin untaken'
                      => board'[c].v = call[c].says
                 /\ OneWriter /\ call[c].record = "kept" /\ c \notin untaken'
                    /\ call[c].seq <= y.end => board'[c].n = 1
      <4>1. CASE c \in DOMAIN y.says
        BY <2>7, <4>1
      <4>2. CASE c \notin DOMAIN y.says /\ y.mode = "rebuild"
        <5>1. board'[c].n = 0
          BY <2>8, <4>2
        <5>2. OneWriter /\ call[c].record = "kept" /\ call[c].seq <= y.end => c \in DOMAIN y.says
          BY <2>5, <4>2 DEF PictureFits
        <5> QED
          BY <4>2, <5>1, <5>2
      <4>3. CASE c \notin DOMAIN y.says /\ y.mode = "checkpoint"
        <5>1. c \notin untaken' => call[c].seq > y.end
          BY <2>1, <2>2, <2>6, <4>3
        <5>2. board'[c] = board[c]
          BY <2>8, <4>3
        <5> QED
          BY <2>2, <2>6, <3>2, <5>1, <5>2
      <4>4. CASE c \notin DOMAIN y.says /\ y.mode = "increment"
        <5>1. board'[c] = board[c] /\ untaken' = untaken
          BY <2>1, <2>8, <4>4
        <5>2. /\ c \notin untaken => board[c].n <= 1
              /\ call[c].record = "kept" /\ board[c].n > 0 /\ c \notin untaken
                   => board[c].v = call[c].says
              /\ OneWriter /\ call[c].record = "kept" /\ c \notin untaken
                 /\ call[c].seq <= state.seq => board[c].n = 1
          BY <2>11, <4>4 DEF ProjInv, BoardInv, ProjectionAgrees, Kept
        <5>3. OneWriter /\ call[c].record = "kept" /\ call[c].seq <= y.end /\ state.seq < call[c].seq
                => c \in DOMAIN y.says
          BY <2>5, <4>4 DEF PictureFits
        <5> QED
          BY <2>6, <2>11, <4>4, <5>1, <5>2, <5>3
      <4> QED
        BY <2>10, <4>1, <4>2, <4>3, <4>4
    <3>5. ProjectionAgrees'
      BY <1>1, <2>4, <3>4 DEF ProjectionAgrees, Kept, records
    <3> QED
      BY <1>1, <2>4, <3>1, <3>2, <3>3, <3>5 DEF BoardInv, Writing, Public, records
  <2> QED
    BY <2>13, <2>14, <2>15, <2>16 DEF ProjInv
<1> QED
  BY <1>3, <1>4

\* Every step keeps the projection sound.
LEMMA ProjectionStepKeeps == ProjInv /\ [ProjectionNext]_projectionVars => ProjInv'
<1> SUFFICES ASSUME ProjInv, [ProjectionNext]_projectionVars PROVE ProjInv'
  OBVIOUS
<1>1. ASSUME NEW c \in LoggedCalls,
             \/ AppendInserts(c) \/ AppendCommits(c) \/ TaskEnds(c)
             \/ FinalizeEndedTask(c) \/ ReconcileCallRecord(c) \/ DeleteRecord(c)
      PROVE  ProjInv'
  BY <1>1, RecordStepKeeps
<1>2. ASSUME NEW s \in Syncers, ResetSchema(s) PROVE ProjInv'
  BY <1>2, ResetKeeps
<1>3. ASSUME NEW s \in Syncers, SyncFromLogService(s) PROVE ProjInv'
  BY <1>3, LoadKeeps DEF SyncFromLogService
<1>4. ASSUME NEW s \in Syncers, OpenCallWindow(s) PROVE ProjInv'
  BY <1>4, OpenKeeps
<1>5. ASSUME NEW s \in Syncers, WriteProjection(s) PROVE ProjInv'
  BY <1>5, WriteKeeps
<1>6. ASSUME NEW s \in Syncers, SyncFails(s) PROVE ProjInv'
  BY <1>6, DegradeKeeps DEF SyncFails
<1>7. CASE UNCHANGED projectionVars
  <2>1. UNCHANGED <<records, view, untaken>> /\ UNCHANGED sync
    BY <1>7 DEF projectionVars, records, view
  <2>2. ASSUME NEW o \in Syncers PROVE SyncSound(sync[o])'
    <3>1. PICK z : z = sync[o]
      OBVIOUS
    <3> QED
      BY <2>1, <3>1, SyncStays, SyncIs DEF ProjInv
  <2>3. ProjTypes'
    BY <2>1 DEF ProjInv, ProjTypes, ViewTypes, records, view
  <2>4. CallsInv'
    BY <2>1 DEF ProjInv, CallsInv, EndedCallsAreFinal, Kept, Writing, Public, records
  <2>5. BoardInv'
    BY <2>1 DEF ProjInv, BoardInv, ProjectionAgrees, Kept, Writing, Public, records, view
  <2> QED
    BY <2>2, <2>3, <2>4, <2>5 DEF ProjInv
<1> QED
  BY <1>1, <1>2, <1>3, <1>4, <1>5, <1>6, <1>7 DEF ProjectionNext

\* The dashboard counts what the call records say: while the projection follows
\* their generation no call is counted twice or as what it no longer is, with
\* one writer none behind the cursor is left out, and the records of ended
\* calls are final (sync_from_log_service, _write, _finalize_call_record_for_task).
THEOREM CallsStayProjected == ProjectionSpec => []CallsAreProjected
<1>1. ProjInv => CallsAreProjected
  BY DEF ProjInv, CallsInv, BoardInv, CallsAreProjected
<1> QED
  BY <1>1, InitProj, ProjectionStepKeeps, PTL DEF ProjectionSpec

-----------------------------------------------------------------------------
(* The records of the requests about one image task                        *)

AtSteps == {"idle", "preparing", "waiting", "unsettled", "replying", "logging", "recording", "ended"}
Answers == {"none", "queued", "pending", "success", "failed"}
Traces == {"none", "submitted", "working", "success", "failed"}
RecordRow == [shown : Answers, tied : BOOLEAN]
FinalizerRow == [at : {"idle", "called", "read", "monitored", "writing"}, found : SUBSET Calls]
Finalizers == Calls \cup {Worker}

CallTypes ==
  /\ kind \in [Calls -> Kinds]
  /\ task \in {"none", "active", "success", "failed"}
  /\ first \in Calls \cup {NoCall}
  /\ at \in [Calls -> AtSteps]
  /\ answer \in [Calls -> Answers]
  /\ monitor \in [Calls -> Traces]
  /\ record \in [Calls -> RecordRow]
  /\ finalizer \in [Finalizers -> FinalizerRow]
  /\ early \subseteq Calls
  /\ task # "none" => first \in Calls

\* Where a request of each kind may be, and what is there by then: a record only
\* of a request that has ended, and none that is shown as running.
StepsOfKinds(c) ==
  /\ kind[c] = "task" => at[c] \in {"idle", "recording", "ended"}
                         /\ monitor[c] \notin {"submitted", "working"}
  /\ kind[c] = "watch" =>
       /\ at[c] \in {"idle", "waiting", "unsettled", "replying", "ended"}
       /\ answer[c] \in {"none", "pending"} \/ (Ended(task) /\ answer[c] = task)
  /\ at[c] = "replying" => Ended(task)
  /\ at[c] \in {"logging", "recording"} => answer[c] # "none"

RecordsComeLast(c) ==
  /\ record[c] # NoRecord => at[c] = "ended"
  /\ at[c] = "recording" \/ record[c] # NoRecord => monitor[c] \notin {"submitted", "working"}
  /\ c \in early => record[c] # NoRecord

\* A finalizer that goes on knows that the task has ended, and writes records
\* that exist.
FinalizersKnow(f) ==
  /\ finalizer[f].at \in {"read", "monitored", "writing"} => Ended(task)
  /\ \A c \in finalizer[f].found : record[c] # NoRecord

\* The finalizer f will still finish the monitor, or the record of c.
ToMonitor(f) == finalizer[f].at \in {"called", "read"}
ToRecord(f, c) ==
  \/ finalizer[f].at \in {"called", "read", "monitored"}
  \/ finalizer[f].at = "writing" /\ c \in finalizer[f].found

\* When the task has ended, the call that made it is finished in the monitor,
\* or will be by the callback.
FirstIsFinished ==
  Ended(task) =>
    \A c \in Calls : c = first /\ (kind[c] = "task" \/ c \in early) =>
      ToMonitor(Worker) \/ monitor[c] = task

\* A queued call has a record of the task, that shows its end or will.
QueuedIsTied(c) ==
  kind[c] = "task" /\ at[c] = "ended" /\ answer[c] = "queued" =>
    /\ record[c].tied
    /\ Ended(task) => ToRecord(Worker, c) \/ ToRecord(c, c) \/ record[c].shown = task

\* A call that was logged before the end and made the task has the only record
\* the callback finds, unless another names the task.
EarlyIsFound(c) ==
  Ended(task) /\ c = first /\ c \in early /\ (\A d \in Calls \ {c} : ~record[d].tied) =>
    ToRecord(Worker, c) \/ record[c].shown = task

CallsAgreeInv ==
  /\ CallTypes
  /\ \A c \in Calls : StepsOfKinds(c) /\ RecordsComeLast(c)
  /\ \A f \in Finalizers : FinalizersKnow(f)
  /\ FirstIsFinished
  /\ \A c \in Calls : QueuedIsTied(c) /\ EarlyIsFound(c)

\* What a record is.
LEMMA RecordRows ==
  /\ NoRecord \in RecordRow /\ NoRecord.shown = "none" /\ ~NoRecord.tied
  /\ \A s \in Answers, t \in BOOLEAN :
       /\ [shown |-> s, tied |-> t] \in RecordRow
       /\ [shown |-> s, tied |-> t].shown = s /\ [shown |-> s, tied |-> t].tied = t
       /\ s # "none" => [shown |-> s, tied |-> t] # NoRecord
  /\ \A r \in RecordRow : r.tied \in BOOLEAN /\ r.shown \in Answers
BY DEF RecordRow, NoRecord, Answers

\* What a finalizer is, and one at rest.
LEMMA FinalizerRows ==
  /\ FinalizerAtRest \in FinalizerRow /\ FinalizerAtRest.at = "idle" /\ FinalizerAtRest.found = {}
  /\ \A r \in FinalizerRow : r.found \subseteq Calls /\ r.found \in SUBSET Calls
BY DEF FinalizerRow, FinalizerAtRest

\* A finalizer goes on to its next step.
LEMMA FinalizerGoesOn ==
  ASSUME NEW r \in FinalizerRow, NEW v \in {"idle", "called", "read", "monitored", "writing"}
  PROVE  /\ [r EXCEPT !.at = v] \in FinalizerRow
         /\ [r EXCEPT !.at = v].at = v /\ [r EXCEPT !.at = v].found = r.found
BY DEF FinalizerRow

\* A finalizer finds the calls it has to write.
LEMMA FinalizerFinds ==
  ASSUME NEW C \in SUBSET Calls
  PROVE  /\ [at |-> "writing", found |-> C] \in FinalizerRow
         /\ [at |-> "writing", found |-> C].at = "writing"
         /\ [at |-> "writing", found |-> C].found = C
         /\ \A r \in FinalizerRow :
              /\ [r EXCEPT !.found = C] \in FinalizerRow
              /\ [r EXCEPT !.found = C].found = C /\ [r EXCEPT !.found = C].at = r.at
BY DEF FinalizerRow

\* No call has begun.
LEMMA InitCalls == CallsInit => CallsAgreeInv
<1> SUFFICES ASSUME CallsInit PROVE CallsAgreeInv
  OBVIOUS
<1>1. \A c \in Calls : /\ at[c] = "idle" /\ answer[c] = "none" /\ monitor[c] = "none"
                       /\ record[c] = NoRecord
  BY DEF CallsInit
<1>2. \A f \in Finalizers : finalizer[f] = FinalizerAtRest
  BY DEF CallsInit, Finalizers
<1>3. CallTypes
  BY RecordRows, FinalizerRows DEF CallsInit, CallTypes, AtSteps, Answers, Traces, Finalizers
<1>4. ~Ended(task)
  BY DEF CallsInit, Ended, Outcomes
<1>5. \A c \in Calls : StepsOfKinds(c) /\ RecordsComeLast(c)
  BY <1>1 DEF CallsInit, StepsOfKinds, RecordsComeLast
<1>6. \A f \in Finalizers : FinalizersKnow(f)
  BY <1>2, FinalizerRows DEF FinalizersKnow
<1>7. FirstIsFinished /\ \A c \in Calls : QueuedIsTied(c) /\ EarlyIsFound(c)
  BY <1>1, <1>4 DEF FirstIsFinished, QueuedIsTied, EarlyIsFound
<1> QED
  BY <1>3, <1>5, <1>6, <1>7 DEF CallsAgreeInv

-----------------------------------------------------------------------------
\* A request that moves: only its own place, answer and trace change, and
\* perhaps the task is made.
RequestMoves(c) ==
  /\ CallTypes'
  /\ UNCHANGED <<kind, record, finalizer, early>>
  /\ \A o \in Calls \ {c} : at'[o] = at[o] /\ answer'[o] = answer[o] /\ monitor'[o] = monitor[o]
  /\ Ended(task) => UNCHANGED <<task, first>>
  /\ ~Ended(task) => ~Ended(task')
  /\ task # "none" => UNCHANGED first
  /\ record[c] = NoRecord
  /\ kind[c] = "task" => at'[c] = "recording" /\ UNCHANGED monitor
  /\ StepsOfKinds(c)'
  /\ at'[c] = "recording" => monitor'[c] \notin {"submitted", "working"}

\* A request that moves, and has no record yet, keeps the agreement.
LEMMA RequestMovesKeep ==
  ASSUME CallsAgreeInv, NEW c \in Calls, RequestMoves(c)
  PROVE  CallsAgreeInv'
<1>1. CallTypes' /\ UNCHANGED <<kind, record, finalizer, early>>
  BY DEF RequestMoves
<1>2. \A o \in Calls \ {c} : at'[o] = at[o] /\ answer'[o] = answer[o] /\ monitor'[o] = monitor[o]
  BY DEF RequestMoves
<1>3. record[c] = NoRecord /\ c \notin early
  BY DEF RequestMoves, CallsAgreeInv, RecordsComeLast
<1>4. ASSUME NEW o \in Calls PROVE StepsOfKinds(o)' /\ RecordsComeLast(o)'
  <2>1. CASE o = c
    BY <1>1, <1>3, <2>1 DEF RequestMoves, RecordsComeLast
  <2>2. CASE o # c
    <3>1. StepsOfKinds(o) /\ RecordsComeLast(o)
      BY DEF CallsAgreeInv
    <3>2. RecordsComeLast(o)'
      BY <1>1, <1>2, <2>2, <3>1 DEF RecordsComeLast
    <3>3. StepsOfKinds(o)'
      BY <1>1, <1>2, <2>2, <3>1 DEF StepsOfKinds, RequestMoves
    <3> QED
      BY <3>2, <3>3
  <2> QED
    BY <2>1, <2>2
<1>5. \A f \in Finalizers : FinalizersKnow(f)'
  BY <1>1 DEF CallsAgreeInv, FinalizersKnow, RequestMoves
<1>6. Ended(task)' => Ended(task) /\ UNCHANGED <<task, first>>
  BY DEF RequestMoves
<1>7. FirstIsFinished'
  <2> SUFFICES ASSUME Ended(task), UNCHANGED <<task, first>>, NEW o \in Calls, o = first,
                      kind[o] = "task" \/ o \in early
               PROVE  ToMonitor(Worker) \/ monitor'[o] = task
    BY <1>1, <1>6 DEF FirstIsFinished, ToMonitor
  <2>1. ToMonitor(Worker) \/ monitor[o] = task
    BY DEF CallsAgreeInv, FirstIsFinished
  <2>2. monitor'[o] = monitor[o]
    BY <1>2, <1>3 DEF RequestMoves
  <2> QED
    BY <2>1, <2>2
<1>8. ASSUME NEW o \in Calls PROVE QueuedIsTied(o)' /\ EarlyIsFound(o)'
  <2>1. QueuedIsTied(o) /\ EarlyIsFound(o)
    BY DEF CallsAgreeInv
  <2>2. EarlyIsFound(o)'
    BY <1>1, <1>6, <2>1 DEF EarlyIsFound, ToRecord
  <2>3. CASE o # c
    <3>1. QueuedIsTied(o)'
      BY <1>1, <1>2, <1>6, <2>1, <2>3 DEF QueuedIsTied, ToRecord
    <3> QED
      BY <2>2, <3>1
  <2>4. CASE o = c
    <3>1. kind[c] = "task" => at'[c] # "ended"
      BY DEF RequestMoves
    <3> QED
      BY <1>1, <2>2, <2>4, <3>1 DEF QueuedIsTied
  <2> QED
    BY <2>3, <2>4
<1> QED
  BY <1>1, <1>4, <1>5, <1>7, <1>8 DEF CallsAgreeInv

\* The answers and places of a request that moves.
LEMMA RequestKeeps ==
  ASSUME CallsAgreeInv, NEW c \in Calls,
         \/ RequestCall(c) \/ StageEvent(c) \/ SubmitTask(c) \/ SubmitProtocol(c) \/ Refused(c)
         \/ Subscribe(c) \/ Look(c) \/ LookAgain(c) \/ GiveUp(c) \/ Reply(c) \/ Leave(c)
         \/ Watch(c) \/ LogMonitor(c)
  PROVE  CallsAgreeInv'
<1>1. CallTypes /\ StepsOfKinds(c) /\ RecordsComeLast(c)
  BY DEF CallsAgreeInv
<1>2. kind[c] \in {"task", "document", "stream", "watch"}
  BY <1>1 DEF CallTypes, Kinds
<1> USE DEF RequestMoves, CallTypes, Ended, Outcomes, AtSteps, Answers, Traces
<1>3. CASE RequestCall(c)
  <2>1. RequestMoves(c)
    BY <1>1, <1>2, <1>3 DEF RequestCall, StartMonitor, ProtocolCalls, StepsOfKinds, RecordsComeLast
  <2> QED
    BY <2>1, RequestMovesKeep
<1>4. CASE StageEvent(c)
  <2>1. RequestMoves(c)
    BY <1>1, <1>2, <1>4 DEF StageEvent, StepsOfKinds, RecordsComeLast
  <2> QED
    BY <2>1, RequestMovesKeep
<1>5. CASE SubmitTask(c)
  <2>1. RequestMoves(c)
    BY <1>1, <1>2, <1>5 DEF SubmitTask, Enqueued, TaskCalls, StepsOfKinds, RecordsComeLast
  <2> QED
    BY <2>1, RequestMovesKeep
<1>6. CASE SubmitProtocol(c)
  <2>1. RequestMoves(c)
    BY <1>1, <1>2, <1>6 DEF SubmitProtocol, Enqueued, ProtocolCalls, StepsOfKinds, RecordsComeLast
  <2> QED
    BY <2>1, RequestMovesKeep
<1>7. CASE Refused(c)
  <2>1. RequestMoves(c)
    BY <1>1, <1>2, <1>7 DEF Refused, TaskCalls, StepsOfKinds, RecordsComeLast
  <2> QED
    BY <2>1, RequestMovesKeep
<1>8. CASE Subscribe(c) \/ Look(c) \/ LookAgain(c)
  <2>1. RequestMoves(c)
    BY <1>1, <1>2, <1>8 DEF Subscribe, Look, LookAgain, StepsOfKinds, RecordsComeLast
  <2> QED
    BY <2>1, RequestMovesKeep
<1>9. CASE GiveUp(c) \/ Reply(c)
  <2>1. RequestMoves(c)
    BY <1>1, <1>2, <1>9 DEF GiveUp, Reply, Results, ProtocolCalls, StepsOfKinds, RecordsComeLast
  <2> QED
    BY <2>1, RequestMovesKeep
<1>10. CASE Leave(c)
  <2>1. RequestMoves(c)
    BY <1>1, <1>2, <1>10 DEF Leave, StepsOfKinds, RecordsComeLast
  <2> QED
    BY <2>1, RequestMovesKeep
<1>11. CASE Watch(c)
  <2>1. RequestMoves(c)
    BY <1>1, <1>2, <1>11 DEF Watch, StepsOfKinds, RecordsComeLast
  <2> QED
    BY <2>1, RequestMovesKeep
<1>12. CASE LogMonitor(c)
  <2>1. RequestMoves(c)
    BY <1>1, <1>2, <1>12 DEF LogMonitor, Finish, StepsOfKinds, RecordsComeLast
  <2> QED
    BY <2>1, RequestMovesKeep
<1> QED
  BY <1>3, <1>4, <1>5, <1>6, <1>7, <1>8, <1>9, <1>10, <1>11, <1>12

\* A record is added, and a queued call is looked up again.
LEMMA AddKeeps ==
  ASSUME CallsAgreeInv, NEW c \in Calls, AddRecord(c)
  PROVE  CallsAgreeInv'
<1> DEFINE entry == [shown |-> answer[c], tied |-> Tied(c)]
<1>1. /\ at[c] = "recording" /\ record' = [record EXCEPT ![c] = entry]
      /\ at' = [at EXCEPT ![c] = "ended"]
      /\ early' = IF Ended(task) THEN early ELSE early \cup {c}
      /\ UNCHANGED <<kind, task, first, answer, monitor>>
  BY DEF AddRecord
<1>2. answer[c] \in Answers /\ answer[c] # "none" /\ Tied(c) \in BOOLEAN
  BY <1>1 DEF CallsAgreeInv, CallTypes, StepsOfKinds, Tied
<1>3. entry \in RecordRow /\ entry # NoRecord /\ entry.tied = Tied(c)
  BY <1>2, RecordRows
<1> HIDE DEF entry
<1>4. /\ finalizer' \in [Finalizers -> FinalizerRow]
      /\ \A f \in Finalizers \ {c} : finalizer'[f] = finalizer[f]
      /\ finalizer'[c].found = finalizer[c].found
      /\ finalizer'[c] = finalizer[c] \/ finalizer'[c].at = "called"
      /\ answer[c] = "queued" => finalizer'[c].at = "called"
  <2>1. c \in Finalizers /\ finalizer \in [Finalizers -> FinalizerRow]
    BY DEF Finalizers, CallsAgreeInv, CallTypes
  <2>2. CASE answer[c] = "queued"
    <3> DEFINE r == [finalizer[c] EXCEPT !.at = "called"]
    <3>1. finalizer' = [finalizer EXCEPT ![c] = r]
      BY <2>2 DEF AddRecord
    <3>2. r \in FinalizerRow /\ r.at = "called" /\ r.found = finalizer[c].found
      BY <2>1, FinalizerGoesOn
    <3> HIDE DEF r
    <3> QED
      BY <2>1, <2>2, <3>1, <3>2
  <2>3. CASE answer[c] # "queued"
    BY <2>1, <2>3 DEF AddRecord
  <2> QED
    BY <2>2, <2>3
<1>5. CallTypes'
  BY <1>1, <1>3, <1>4 DEF CallsAgreeInv, CallTypes, AtSteps
<1>6. record'[c] = entry /\ \A o \in Calls \ {c} : record'[o] = record[o] /\ at'[o] = at[o]
  BY <1>1 DEF CallsAgreeInv, CallTypes
<1>7. at'[c] = "ended" /\ record[c] = NoRecord /\ c \notin early /\ Worker # c
  BY <1>1, CallsAssumption DEF CallsAgreeInv, CallTypes, RecordsComeLast
<1>8. ASSUME NEW o \in Calls PROVE StepsOfKinds(o)' /\ RecordsComeLast(o)'
  <2>1. StepsOfKinds(o) /\ RecordsComeLast(o)
    BY DEF CallsAgreeInv
  <2>2. RecordsComeLast(o)'
    BY <1>1, <1>3, <1>6, <1>7, <2>1 DEF RecordsComeLast
  <2>3. StepsOfKinds(o)'
    BY <1>1, <1>6, <1>7, <2>1 DEF StepsOfKinds
  <2> QED
    BY <2>2, <2>3
<1>9. ASSUME NEW f \in Finalizers PROVE FinalizersKnow(f)'
  <2>0. finalizer'[f].found = finalizer[f].found
        /\ (finalizer'[f].at = finalizer[f].at \/ finalizer'[f].at = "called")
    BY <1>4
  <2>1. FinalizersKnow(f) /\ finalizer[f].found \subseteq Calls
    BY FinalizerRows DEF CallsAgreeInv, CallTypes
  <2>2. finalizer'[f].at \in {"read", "monitored", "writing"} => Ended(task)
    BY <2>0, <2>1 DEF FinalizersKnow
  <2>3. \A o \in finalizer'[f].found : record'[o] # NoRecord
    BY <1>3, <1>6, <2>0, <2>1 DEF FinalizersKnow
  <2> QED
    BY <1>1, <2>2, <2>3 DEF FinalizersKnow
<1>10. Worker \in Finalizers /\ finalizer'[Worker] = finalizer[Worker]
  BY <1>4, <1>7 DEF Finalizers
<1>11. FirstIsFinished'
  BY <1>1, <1>10 DEF CallsAgreeInv, FirstIsFinished, ToMonitor
<1>12. ASSUME NEW o \in Calls PROVE QueuedIsTied(o)' /\ EarlyIsFound(o)'
  <2>1. QueuedIsTied(o) /\ EarlyIsFound(o)
    BY DEF CallsAgreeInv
  <2>2. CASE o = c
    <3>1. QueuedIsTied(o)'
      <4>1. kind[c] = "task" /\ answer[c] = "queued" => entry.tied /\ ToRecord(c, c)'
        BY <1>3, <1>4 DEF Tied, TaskCalls, ToRecord
      <4> QED
        BY <1>1, <1>6, <2>2, <4>1 DEF QueuedIsTied
    <3>2. EarlyIsFound(o)'
      BY <1>1, <1>7, <2>2 DEF EarlyIsFound
    <3> QED
      BY <3>1, <3>2
  <2>3. CASE o # c
    <3>1. \A d \in Calls : ~record'[d].tied => ~record[d].tied
      BY <1>6, <1>7, RecordRows
    <3>2. o \in Finalizers /\ finalizer'[o] = finalizer[o]
      BY <1>4, <2>3 DEF Finalizers
    <3>3. EarlyIsFound(o)'
      BY <1>1, <1>6, <1>10, <2>1, <2>3, <3>1 DEF EarlyIsFound, ToRecord
    <3>4. QueuedIsTied(o)'
      BY <1>1, <1>6, <1>10, <2>1, <2>3, <3>2 DEF QueuedIsTied, ToRecord
    <3> QED
      BY <3>3, <3>4
  <2> QED
    BY <2>2, <2>3
<1> QED
  BY <1>5, <1>8, <1>9, <1>11, <1>12 DEF CallsAgreeInv

\* The task ends and its callback begins.
LEMMA EndKeepsCalls ==
  ASSUME CallsAgreeInv, EndTask
  PROVE  CallsAgreeInv'
<1> DEFINE r == [finalizer[Worker] EXCEPT !.at = "called"]
<1>1. /\ task = "active" /\ task' \in {"success", "failed"}
      /\ finalizer' = [finalizer EXCEPT ![Worker] = r]
      /\ UNCHANGED <<kind, first, at, answer, monitor, record, early>>
  BY DEF EndTask, Outcomes
<1>2. Worker \in Finalizers /\ finalizer \in [Finalizers -> FinalizerRow]
  BY DEF Finalizers, CallsAgreeInv, CallTypes
<1>3. r \in FinalizerRow /\ r.at = "called" /\ r.found = finalizer[Worker].found
  BY <1>2, FinalizerGoesOn
<1> HIDE DEF r
<1>4. finalizer' \in [Finalizers -> FinalizerRow] /\ finalizer'[Worker].at = "called"
      /\ \A f \in Finalizers : finalizer'[f].found = finalizer[f].found
  BY <1>1, <1>2, <1>3
<1>5. ~Ended(task) /\ Ended(task)'
  BY <1>1 DEF Ended, Outcomes
<1>6. CallTypes'
  BY <1>1, <1>4 DEF CallsAgreeInv, CallTypes
<1>7. \A c \in Calls : StepsOfKinds(c)' /\ RecordsComeLast(c)'
  BY <1>1, <1>5 DEF CallsAgreeInv, StepsOfKinds, RecordsComeLast
<1>8. \A f \in Finalizers : FinalizersKnow(f)'
  BY <1>1, <1>4, <1>5 DEF CallsAgreeInv, FinalizersKnow
<1>9. FirstIsFinished'
  BY <1>4 DEF FirstIsFinished, ToMonitor
<1>10. \A c \in Calls : QueuedIsTied(c)' /\ EarlyIsFound(c)'
  BY <1>1, <1>4 DEF CallsAgreeInv, QueuedIsTied, EarlyIsFound, ToRecord
<1> QED
  BY <1>6, <1>7, <1>8, <1>9, <1>10 DEF CallsAgreeInv

\* A finalizer moves: the task stands still, and only it and what it writes
\* change.
LEMMA ReadKeeps ==
  ASSUME CallsAgreeInv, NEW f \in Finalizers, ReadTask(f)
  PROVE  CallsAgreeInv'
<1> DEFINE r == [finalizer[f] EXCEPT !.at = IF Ended(task) THEN "read" ELSE "idle"]
<1>1. /\ finalizer[f].at = "called" /\ finalizer' = [finalizer EXCEPT ![f] = r]
      /\ UNCHANGED <<kind, task, first, at, answer, monitor, record, early>>
  BY DEF ReadTask
<1>2. finalizer \in [Finalizers -> FinalizerRow]
  BY DEF CallsAgreeInv, CallTypes
<1>3. /\ r \in FinalizerRow /\ r.found = finalizer[f].found
      /\ Ended(task) => r.at = "read"
      /\ ~Ended(task) => r.at = "idle"
  <2>1. CASE Ended(task)
    <3>1. r = [finalizer[f] EXCEPT !.at = "read"]
      BY <2>1
    <3> HIDE DEF r
    <3> QED
      BY <1>2, <2>1, <3>1, FinalizerGoesOn
  <2>2. CASE ~Ended(task)
    <3>1. r = [finalizer[f] EXCEPT !.at = "idle"]
      BY <2>2
    <3> HIDE DEF r
    <3> QED
      BY <1>2, <2>2, <3>1, FinalizerGoesOn
  <2> QED
    BY <2>1, <2>2
<1> HIDE DEF r
<1>4. finalizer' \in [Finalizers -> FinalizerRow] /\ finalizer'[f] = r
      /\ \A g \in Finalizers \ {f} : finalizer'[g] = finalizer[g]
  BY <1>1, <1>2, <1>3
<1>5. CallTypes'
  BY <1>1, <1>4 DEF CallsAgreeInv, CallTypes
<1>6. \A c \in Calls : StepsOfKinds(c)' /\ RecordsComeLast(c)'
  BY <1>1 DEF CallsAgreeInv, StepsOfKinds, RecordsComeLast
<1>7. \A g \in Finalizers : FinalizersKnow(g)'
  BY <1>1, <1>3, <1>4 DEF CallsAgreeInv, FinalizersKnow
<1>8. Worker \in Finalizers /\ \A c \in Calls : c \in Finalizers
  BY DEF Finalizers
<1>9. \A g \in Finalizers : Ended(task) => (ToMonitor(g) => ToMonitor(g)')
  BY <1>1, <1>3, <1>4 DEF ToMonitor
<1>10. \A g \in Finalizers, c \in Calls : Ended(task) => (ToRecord(g, c) => ToRecord(g, c)')
  BY <1>1, <1>3, <1>4 DEF ToRecord
<1>11. FirstIsFinished'
  BY <1>1, <1>8, <1>9 DEF CallsAgreeInv, FirstIsFinished
<1>12. \A c \in Calls : QueuedIsTied(c)' /\ EarlyIsFound(c)'
  BY <1>1, <1>8, <1>10 DEF CallsAgreeInv, QueuedIsTied, EarlyIsFound
<1> QED
  BY <1>5, <1>6, <1>7, <1>11, <1>12 DEF CallsAgreeInv

\* A finalizer writes the end of the task into the monitor.
LEMMA MonitorKeeps ==
  ASSUME CallsAgreeInv, NEW f \in Finalizers, FinishMonitor(f)
  PROVE  CallsAgreeInv'
<1> DEFINE r == [finalizer[f] EXCEPT !.at = "monitored"]
<1>1. /\ finalizer[f].at = "read" /\ finalizer' = [finalizer EXCEPT ![f] = r]
      /\ UNCHANGED <<kind, task, first, at, answer, record, early>>
      /\ Finish(Target(f), task)
  BY DEF FinishMonitor
<1>2. finalizer \in [Finalizers -> FinalizerRow] /\ monitor \in [Calls -> Traces]
  BY DEF CallsAgreeInv, CallTypes
<1>3. r \in FinalizerRow /\ r.found = finalizer[f].found /\ r.at = "monitored"
  BY <1>2, FinalizerGoesOn
<1> HIDE DEF r
<1>4. finalizer' \in [Finalizers -> FinalizerRow] /\ finalizer'[f] = r
      /\ \A g \in Finalizers \ {f} : finalizer'[g] = finalizer[g]
  BY <1>1, <1>2, <1>3
<1>5. Ended(task) /\ task \in {"success", "failed"}
  BY <1>1 DEF CallsAgreeInv, FinalizersKnow, Ended, Outcomes
<1>6. monitor' = [monitor EXCEPT ![Target(f)] = task]
  BY <1>1, <1>5 DEF Finish, Ended
<1>7. /\ monitor' \in [Calls -> Traces]
      /\ \A c \in Calls : monitor'[c] = (IF c = Target(f) THEN task ELSE monitor[c])
  BY <1>2, <1>5, <1>6 DEF Traces
<1>8. CallTypes'
  BY <1>1, <1>4, <1>7 DEF CallsAgreeInv, CallTypes
<1>9. \A c \in Calls : StepsOfKinds(c)' /\ RecordsComeLast(c)'
  BY <1>1, <1>5, <1>7 DEF CallsAgreeInv, StepsOfKinds, RecordsComeLast
<1>10. \A g \in Finalizers : FinalizersKnow(g)'
  BY <1>1, <1>3, <1>4, <1>5 DEF CallsAgreeInv, FinalizersKnow
<1>11. Worker \in Finalizers /\ \A c \in Calls : c \in Finalizers
  BY DEF Finalizers
<1>12. \A g \in Finalizers, c \in Calls : ToRecord(g, c) => ToRecord(g, c)'
  BY <1>1, <1>3, <1>4 DEF ToRecord
<1>13. FirstIsFinished'
  <2> SUFFICES ASSUME NEW c \in Calls, c = first, kind[c] = "task" \/ c \in early
               PROVE  ToMonitor(Worker)' \/ monitor'[c] = task
    BY <1>1 DEF FirstIsFinished
  <2>1. ToMonitor(Worker) \/ monitor[c] = task
    BY <1>5 DEF CallsAgreeInv, FirstIsFinished
  <2>2. CASE f = Worker
    BY <1>7, <2>2 DEF Target
  <2>3. CASE f # Worker
    BY <1>4, <1>7, <1>11, <2>1, <2>3 DEF ToMonitor
  <2> QED
    BY <2>2, <2>3
<1>14. \A c \in Calls : QueuedIsTied(c)' /\ EarlyIsFound(c)'
  BY <1>1, <1>11, <1>12 DEF CallsAgreeInv, QueuedIsTied, EarlyIsFound
<1> QED
  BY <1>8, <1>9, <1>10, <1>13, <1>14 DEF CallsAgreeInv

\* A finalizer looks up the records of the task, or those of its own call.
LEMMA FindKeeps ==
  ASSUME CallsAgreeInv, NEW f \in Finalizers, FindRecords(f)
  PROVE  CallsAgreeInv'
<1> DEFINE C == IF OfTask # {} THEN OfTask ELSE OfCall(Target(f))
           r == [at |-> "writing", found |-> C]
<1>1. /\ finalizer[f].at = "monitored" /\ finalizer' = [finalizer EXCEPT ![f] = r]
      /\ UNCHANGED <<kind, task, first, at, answer, monitor, record, early>>
  BY DEF FindRecords
<1>2. finalizer \in [Finalizers -> FinalizerRow]
  BY DEF CallsAgreeInv, CallTypes
<1>3. Ended(task) /\ first \in Calls
  BY <1>1 DEF CallsAgreeInv, FinalizersKnow, CallTypes, Ended, Outcomes
<1>4. Target(f) \in Calls
  BY <1>3 DEF Target, Finalizers
<1>5. C \in SUBSET Calls /\ \A c \in C : record[c] # NoRecord
  BY <1>4, RecordRows DEF OfTask, OfCall
<1>6. r \in FinalizerRow /\ r.found = C /\ r.at = "writing"
  BY <1>5, FinalizerFinds
<1>7. \A c \in OfTask : c \in C
  OBVIOUS
<1>8. f = Worker /\ OfTask = {} /\ record[first] # NoRecord => first \in C
  BY DEF Target, OfCall
<1> HIDE DEF r, C
<1>9. finalizer' \in [Finalizers -> FinalizerRow] /\ finalizer'[f] = r
      /\ \A g \in Finalizers \ {f} : finalizer'[g] = finalizer[g]
  BY <1>1, <1>2, <1>6
<1>10. CallTypes'
  BY <1>1, <1>9 DEF CallsAgreeInv, CallTypes
<1>11. \A c \in Calls : StepsOfKinds(c)' /\ RecordsComeLast(c)'
  BY <1>1 DEF CallsAgreeInv, StepsOfKinds, RecordsComeLast
<1>12. \A g \in Finalizers : FinalizersKnow(g)'
  BY <1>1, <1>3, <1>5, <1>6, <1>9 DEF CallsAgreeInv, FinalizersKnow
<1>13. Worker \in Finalizers /\ \A c \in Calls : c \in Finalizers
  BY DEF Finalizers
<1>14. FirstIsFinished'
  BY <1>1, <1>9, <1>13 DEF CallsAgreeInv, FirstIsFinished, ToMonitor
<1>15. \A c \in Calls : record[c].tied =>
         \A g \in Finalizers : ToRecord(g, c) => ToRecord(g, c)'
  BY <1>6, <1>7, <1>9 DEF ToRecord, OfTask
<1>16. ASSUME NEW c \in Calls PROVE QueuedIsTied(c)'
  BY <1>1, <1>13, <1>15 DEF CallsAgreeInv, QueuedIsTied
<1>17. ASSUME NEW c \in Calls PROVE EarlyIsFound(c)'
  <2> SUFFICES ASSUME c = first, c \in early, \A d \in Calls \ {c} : ~record[d].tied
               PROVE  ToRecord(Worker, c)' \/ record[c].shown = task
    BY <1>1 DEF EarlyIsFound
  <2>1. ToRecord(Worker, c) \/ record[c].shown = task
    BY <1>3 DEF CallsAgreeInv, EarlyIsFound
  <2>2. CASE f = Worker
    <3>1. record[c] # NoRecord
      BY DEF CallsAgreeInv, RecordsComeLast
    <3>2. c \in C
      <4>1. OfTask \subseteq {c}
        BY DEF OfTask
      <4> QED
        BY <1>7, <1>8, <2>2, <3>1, <4>1
    <3> QED
      BY <1>6, <1>9, <2>2, <3>2 DEF ToRecord
  <2>3. CASE f # Worker
    BY <1>9, <1>13, <2>1, <2>3 DEF ToRecord
  <2> QED
    BY <2>2, <2>3
<1> QED
  BY <1>10, <1>11, <1>12, <1>14, <1>16, <1>17 DEF CallsAgreeInv

\* A finalizer writes one of the records it found, or is done.
LEMMA WriteKeepsCalls ==
  ASSUME CallsAgreeInv, NEW f \in Finalizers, WriteRecord(f)
  PROVE  CallsAgreeInv'
<1>1. /\ finalizer[f].at = "writing"
      /\ UNCHANGED <<kind, task, first, at, answer, monitor, early>>
  BY DEF WriteRecord
<1>2. finalizer \in [Finalizers -> FinalizerRow] /\ record \in [Calls -> RecordRow]
  BY DEF CallsAgreeInv, CallTypes
<1>3. Ended(task) /\ task \in {"success", "failed"}
  BY <1>1 DEF CallsAgreeInv, FinalizersKnow, Ended, Outcomes
<1>4. Worker \in Finalizers /\ \A c \in Calls : c \in Finalizers
  BY DEF Finalizers
<1>5. CASE finalizer[f].found = {} /\ finalizer' = [finalizer EXCEPT ![f] = FinalizerAtRest]
           /\ UNCHANGED record
  <2>1. finalizer' \in [Finalizers -> FinalizerRow] /\ finalizer'[f] = FinalizerAtRest
        /\ \A g \in Finalizers \ {f} : finalizer'[g] = finalizer[g]
    BY <1>2, <1>5, FinalizerRows
  <2>2. CallTypes'
    BY <1>1, <1>5, <2>1 DEF CallsAgreeInv, CallTypes
  <2>3. \A c \in Calls : StepsOfKinds(c)' /\ RecordsComeLast(c)'
    BY <1>1, <1>5 DEF CallsAgreeInv, StepsOfKinds, RecordsComeLast
  <2>4. \A g \in Finalizers : FinalizersKnow(g)'
    BY <1>1, <1>3, <1>5, <2>1, FinalizerRows DEF CallsAgreeInv, FinalizersKnow
  <2>5. \A g \in Finalizers : ToMonitor(g) => ToMonitor(g)'
    BY <1>1, <2>1 DEF ToMonitor
  <2>6. \A g \in Finalizers, c \in Calls : ToRecord(g, c) => ToRecord(g, c)'
    BY <1>1, <1>5, <2>1 DEF ToRecord
  <2>7. FirstIsFinished'
    BY <1>1, <1>4, <2>5 DEF CallsAgreeInv, FirstIsFinished
  <2>8. \A c \in Calls : QueuedIsTied(c)' /\ EarlyIsFound(c)'
    BY <1>1, <1>4, <1>5, <2>6 DEF CallsAgreeInv, QueuedIsTied, EarlyIsFound
  <2> QED
    BY <2>2, <2>3, <2>4, <2>7, <2>8 DEF CallsAgreeInv
<1>6. CASE \E c \in finalizer[f].found :
             RecordFinalized(c) /\ finalizer' = [finalizer EXCEPT ![f].found = @ \ {c}]
  <2>1. PICK c \in finalizer[f].found :
          RecordFinalized(c) /\ finalizer' = [finalizer EXCEPT ![f].found = @ \ {c}]
    BY <1>6
  <2> DEFINE r == [finalizer[f] EXCEPT !.found = finalizer[f].found \ {c}]
             entry == [shown |-> task, tied |-> TRUE]
  <2>2. finalizer' = [finalizer EXCEPT ![f] = r] /\ record' = [record EXCEPT ![c] = entry]
    BY <2>1 DEF RecordFinalized
  <2>3. c \in Calls /\ record[c] # NoRecord
    BY <1>2, <2>1, FinalizerRows DEF CallsAgreeInv, FinalizersKnow
  <2>4. entry \in RecordRow /\ entry # NoRecord /\ entry.shown = task /\ entry.tied
    BY <1>3, RecordRows DEF Answers
  <2>5. r \in FinalizerRow /\ r.found = finalizer[f].found \ {c} /\ r.at = "writing"
    <3>1. finalizer[f] \in FinalizerRow /\ finalizer[f].found \ {c} \in SUBSET Calls
          /\ finalizer[f].at = "writing"
      BY <1>1, <1>2, FinalizerRows
    <3>2. ASSUME NEW w \in FinalizerRow, NEW C \in SUBSET Calls, w.at = "writing"
          PROVE  LET z == [w EXCEPT !.found = C]
                 IN  z \in FinalizerRow /\ z.found = C /\ z.at = "writing"
      BY <3>2, FinalizerFinds
    <3> QED
      BY <3>1, <3>2
  <2> HIDE DEF r, entry
  <2>6. finalizer' \in [Finalizers -> FinalizerRow] /\ finalizer'[f] = r
        /\ \A g \in Finalizers \ {f} : finalizer'[g] = finalizer[g]
    BY <1>2, <2>2, <2>5
  <2>7. record' \in [Calls -> RecordRow] /\ record'[c] = entry
        /\ \A d \in Calls \ {c} : record'[d] = record[d]
    BY <1>2, <2>2, <2>3, <2>4
  <2>8. CallTypes'
    BY <1>1, <2>6, <2>7 DEF CallsAgreeInv, CallTypes
  <2>9. \A d \in Calls : StepsOfKinds(d)' /\ RecordsComeLast(d)'
    BY <1>1, <2>3, <2>4, <2>7 DEF CallsAgreeInv, StepsOfKinds, RecordsComeLast
  <2>10. \A g \in Finalizers : FinalizersKnow(g)'
    <3>1. ASSUME NEW g \in Finalizers PROVE FinalizersKnow(g)'
      <4>1. finalizer[g].found \subseteq Calls /\ FinalizersKnow(g)
        BY <1>2, FinalizerRows DEF CallsAgreeInv
      <4>2. finalizer'[g].found \subseteq finalizer[g].found
        BY <2>5, <2>6
      <4>3. \A d \in finalizer'[g].found : record'[d] # NoRecord
        BY <2>4, <2>7, <4>1, <4>2 DEF FinalizersKnow
      <4> QED
        BY <1>1, <1>3, <4>3 DEF FinalizersKnow
    <3> QED
      BY <3>1
  <2>11. \A g \in Finalizers : ToMonitor(g) => ToMonitor(g)'
    BY <1>1, <2>6 DEF ToMonitor
  <2>12. \A g \in Finalizers, d \in Calls : d # c => (ToRecord(g, d) => ToRecord(g, d)')
    BY <1>1, <2>5, <2>6 DEF ToRecord
  <2>13. FirstIsFinished'
    BY <1>1, <1>4, <2>11 DEF CallsAgreeInv, FirstIsFinished
  <2>14. ASSUME NEW d \in Calls PROVE QueuedIsTied(d)' /\ EarlyIsFound(d)'
    <3>1. CASE d = c
      BY <1>1, <2>4, <2>7, <3>1 DEF QueuedIsTied, EarlyIsFound
    <3>2. CASE d # c
      <4>1. QueuedIsTied(d)'
        BY <1>1, <1>4, <2>7, <2>12, <3>2 DEF CallsAgreeInv, QueuedIsTied
      <4>2. EarlyIsFound(d)'
        BY <1>1, <2>3, <2>4, <2>7, <3>2 DEF EarlyIsFound
      <4> QED
        BY <4>1, <4>2
    <3> QED
      BY <3>1, <3>2
  <2> QED
    BY <2>8, <2>9, <2>10, <2>13, <2>14 DEF CallsAgreeInv
<1> QED
  BY <1>5, <1>6 DEF WriteRecord

\* One step of a request, the worker or a finalizer.
LEMMA CallStepKeeps == CallsAgreeInv /\ [CallsNext]_callVars => CallsAgreeInv'
<1> SUFFICES ASSUME CallsAgreeInv, [CallsNext]_callVars PROVE CallsAgreeInv'
  OBVIOUS
<1>1. ASSUME NEW c \in Calls,
             \/ RequestCall(c) \/ StageEvent(c) \/ SubmitTask(c) \/ SubmitProtocol(c) \/ Refused(c)
             \/ Subscribe(c) \/ Look(c) \/ LookAgain(c) \/ GiveUp(c) \/ Reply(c) \/ Leave(c)
             \/ Watch(c) \/ LogMonitor(c) \/ AddRecord(c)
      PROVE  CallsAgreeInv'
  BY <1>1, RequestKeeps, AddKeeps
<1>2. CASE EndTask
  BY <1>2, EndKeepsCalls
<1>3. ASSUME NEW f \in Finalizers,
             ReadTask(f) \/ FinishMonitor(f) \/ FindRecords(f) \/ WriteRecord(f)
      PROVE  CallsAgreeInv'
  BY <1>3, ReadKeeps, MonitorKeeps, FindKeeps, WriteKeepsCalls
<1>4. CASE UNCHANGED callVars
  BY <1>4 DEF callVars, CallsAgreeInv, CallTypes, StepsOfKinds, RecordsComeLast, FinalizersKnow,
              FirstIsFinished, QueuedIsTied, EarlyIsFound, ToMonitor, ToRecord
<1> QED
  BY <1>1, <1>2, <1>3, <1>4 DEF CallsNext, Finalizers

\* Whatever order the end of a task, its callback and its requests come in: what
\* has ended is not shown as running, and at rest the records and the monitor
\* agree with the task (_finalize_call_record_for_task, finalize_call_record).
THEOREM CallsComeToAgree == CallsSpec => []CallsAgree
<1>1. ASSUME CallsAgreeInv PROVE CallsAgree
  <2>1. EndsAreSeen
    BY <1>1 DEF CallsAgreeInv, EndsAreSeen, StepsOfKinds, RecordsComeLast
  <2>2. ASSUME Settled PROVE QueuedCallsAreFinalized /\ LateResultsReachTheCall
    <3>1. Ended(task) /\ \A f \in Finalizers : finalizer[f].at = "idle"
      BY <2>2, FinalizerRows DEF Settled, Finalizers
    <3>2. \A f \in Finalizers : ~ToMonitor(f) /\ \A c \in Calls : ~ToRecord(f, c)
      BY <3>1 DEF ToMonitor, ToRecord
    <3>3. Worker \in Finalizers /\ \A c \in Calls : c \in Finalizers
      BY DEF Finalizers
    <3>4. QueuedCallsAreFinalized
      BY <1>1, <3>1, <3>2, <3>3
         DEF QueuedCallsAreFinalized, TaskCalls, CallsAgreeInv, FirstIsFinished, QueuedIsTied
    <3>5. LateResultsReachTheCall
      BY <1>1, <3>1, <3>2, <3>3
         DEF LateResultsReachTheCall, CallsAgreeInv, CallTypes, FirstIsFinished, EarlyIsFound
    <3> QED
      BY <3>4, <3>5
  <2> QED
    BY <2>1, <2>2 DEF CallsAgree
<1> QED
  BY <1>1, InitCalls, CallStepKeeps, PTL DEF CallsSpec

=============================================================================
