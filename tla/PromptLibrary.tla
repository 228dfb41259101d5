---------------------------- MODULE PromptLibrary -----------------------------
(***************************************************************************)
(* The prompt library (services/prompt_library_service.py): a snapshot of  *)
(* a remote registry, kept in memory and in the application database, with *)
(* a bundled source to begin with.  A refresh reads the manifest and then  *)
(* the prompts of a registry that publishes meanwhile, stores the snapshot *)
(* and adopts it; the process may end in between.                          *)
(***************************************************************************)
EXTENDS Naturals

CONSTANTS
  PromptSources,      \* prompt sources
  Bundled,      \* the one that comes with the program
  MaxRevisions, \* bound: revisions the registry publishes
  MaxSettings   \* bound: changes of a source's setting

ASSUME LibraryAssumption == Bundled \in PromptSources /\ MaxRevisions \in Nat /\ MaxSettings \in Nat

VARIABLES
  offers,    \* revision -> the sources the registry published with it
  latest,    \* the revision it publishes now
  library,   \* the snapshot in memory
  saved,     \* the snapshot in the database
  off,       \* the settings: sources switched off, in memory ...
  savedOff,  \* ... and in the database
  refresh,   \* the refresh or update in progress, one at a time (_mutation_lock)
  changes,
  dropped    \* history: sources that a revision left out

libraryVars == <<offers, latest, library, saved, off, savedOff, refresh, changes, dropped>>
registry == <<offers, latest>>

Revisions == 0..MaxRevisions
NoItems == [s \in PromptSources |-> {}]
NoRefresh == [at |-> "quiet"]

\* A snapshot: for each source the revisions its prompts are of, 0 for those that
\* come with the program.
Empty == [rev |-> 0, sources |-> {Bundled}, items |-> NoItems, verified |-> FALSE, failed |-> {}]

\* _seed_bundled_locked
Seeded(lib) ==
  IF lib.items[Bundled] = {} THEN [lib EXCEPT !.items[Bundled] = {0}] ELSE lib

LibraryTypeOK ==
  /\ library.rev \in Revisions /\ saved.rev \in Revisions /\ latest \in Revisions
  /\ library.failed \cup off \cup savedOff \subseteq PromptSources
  /\ refresh.at \in {"quiet", "manifest", "payload", "stored", "failing", "setting"}
  /\ \A s \in PromptSources : library.items[s] \subseteq Revisions

LibraryInit ==
  /\ offers = [r \in Revisions |-> {}]
  /\ latest = 0
  /\ library = Seeded(Empty) /\ saved = Seeded(Empty)
  /\ off = {} /\ savedOff = {}
  /\ refresh = NoRefresh /\ changes = 0
  /\ dropped = {}

-----------------------------------------------------------------------------

\* The registry publishes another revision.
RegistryPublishes ==
  /\ latest < MaxRevisions
  /\ latest' = latest + 1
  /\ \E offered \in (SUBSET PromptSources) \ {{}} : offers' = [offers EXCEPT ![latest + 1] = offered]
  /\ UNCHANGED <<library, saved, off, savedOff, refresh, changes, dropped>>

\* _snapshot_is_complete_locked
Complete(rev) ==
  /\ library.verified /\ library.rev = rev
  /\ library.sources = offers[rev]
  /\ \A s \in PromptSources : library.items[s] # {} <=> s \in offers[rev]

\* refresh and _fetch_registry_candidate: the manifest, and, unless the snapshot
\* is complete, the prompts.
FetchManifest ==
  /\ refresh = NoRefresh
  /\ \/ /\ latest > 0
        /\ refresh' = IF Complete(latest)
                      THEN [at |-> "payload", rev |-> latest, items |-> library.items]
                      ELSE [at |-> "manifest", rev |-> latest]
     \/ refresh' = [at |-> "failing"]
  /\ UNCHANGED <<registry, library, saved, off, savedOff, changes, dropped>>

\* Mutant: the prompts are taken as they come.
TakesAnything(rev, got) == TRUE

\* _validate_registry_payload: the prompts are those of the manifest.
Matches(rev, got) == got = rev

FetchPrompts ==
  /\ refresh.at = "manifest"
  /\ \/ \E got \in {refresh.rev, latest} :
          refresh' = IF Matches(refresh.rev, got)
                     THEN [at |-> "payload", rev |-> refresh.rev,
                           items |-> [s \in PromptSources |->
                                        IF s \in offers[refresh.rev] THEN {got} ELSE {}]]
                     ELSE [at |-> "failing"]
     \/ refresh' = [at |-> "failing"]
  /\ UNCHANGED <<registry, library, saved, off, savedOff, changes, dropped>>

\* _cache_payload of what was fetched
Candidate ==
  [rev |-> refresh.rev, sources |-> offers[refresh.rev], items |-> refresh.items,
   verified |-> TRUE, failed |-> {}]

\* The snapshot is stored ...
StoreSnapshot ==
  /\ refresh.at = "payload"
  /\ \/ saved' = Candidate /\ refresh' = [refresh EXCEPT !.at = "stored"]
     \/ UNCHANGED saved /\ refresh' = [at |-> "failing"]
  /\ UNCHANGED <<registry, library, off, savedOff, changes, dropped>>

\* ... and adopted.
AdoptSnapshot ==
  /\ refresh.at = "stored"
  /\ library' = Candidate
  /\ dropped' = dropped \cup (library.sources \ Candidate.sources)
  /\ refresh' = NoRefresh
  /\ UNCHANGED <<registry, saved, off, savedOff, changes>>

\* The other end of refresh: the error is noted at the source that was asked
\* for, or at all that are switched on, and stored if it can be.
RefreshFails ==
  /\ refresh.at = "failing"
  /\ \E targets \in {library.sources \ off} \cup {{s} : s \in library.sources} :
       library' = [library EXCEPT !.failed = @ \cup targets]
  /\ saved' \in {saved, library'}
  /\ refresh' = NoRefresh
  /\ UNCHANGED <<registry, off, savedOff, changes, dropped>>

\* _settings_payload: the settings of the sources the registry has now.
SettingsPayload(candidate) == candidate \cap library.sources

\* update_source stores the setting, ...
StoreSetting ==
  /\ refresh = NoRefresh /\ changes < MaxSettings
  /\ \E s \in library.sources, to \in BOOLEAN :
       LET candidate == IF to THEN off \ {s} ELSE off \cup {s} IN
       /\ savedOff' = SettingsPayload(candidate)
       /\ refresh' = [at |-> "setting", off |-> candidate]
  /\ changes' = changes + 1
  /\ UNCHANGED <<registry, library, saved, off, dropped>>

\* ... then it counts.
AdoptSetting ==
  /\ refresh.at = "setting"
  /\ off' = refresh.off
  /\ refresh' = NoRefresh
  /\ UNCHANGED <<registry, library, saved, savedOff, changes, dropped>>

\* _load_cache_locked: only items of the sources the snapshot lists.
Loaded(lib) ==
  Seeded([lib EXCEPT !.items =
    [s \in PromptSources |-> IF s \in lib.sources THEN lib.items[s] ELSE {}]])

\* The process starts again: _ensure_loaded.
RestartLibrary ==
  /\ library' = Loaded(saved)
  /\ saved' = IF Loaded(saved) = saved THEN saved ELSE Loaded(saved)
  /\ off' = savedOff
  /\ refresh' = NoRefresh
  /\ library' # library \/ off' # off \/ refresh # NoRefresh
  /\ dropped' = dropped \cup (library.sources \ saved.sources)
  /\ UNCHANGED <<registry, savedOff, changes>>

LibraryNext ==
  \/ RegistryPublishes
  \/ FetchManifest \/ FetchPrompts \/ StoreSnapshot \/ AdoptSnapshot \/ RefreshFails
  \/ StoreSetting \/ AdoptSetting
  \/ RestartLibrary

LibrarySpec == LibraryInit /\ [][LibraryNext]_libraryVars

-----------------------------------------------------------------------------
(* Properties *)

\* Whatever the registry publishes during a refresh, and wherever a refresh or
\* the process ends: a verified library has the prompts of its own revision for
\* each source of it, the database is never behind what is served, there is
\* always something to serve, and a restart changes no setting of a source that
\* was in every revision (refresh, update_source, _load_cache_locked).
LibraryIsWhole ==
  /\ library.verified =>
       /\ library.sources = offers[library.rev]
       /\ \A s \in library.sources : library.items[s] = {library.rev}
  /\ saved.rev >= library.rev
  /\ \E s \in PromptSources : library.items[s] # {}
  /\ refresh.at # "setting" =>
       \A s \in library.sources \ dropped : s \in off <=> s \in savedOff
=============================================================================
