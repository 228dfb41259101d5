--------------------------- MODULE RetentionCleanup ---------------------------
(***************************************************************************)
(* Retention cleanup (services/retention_cleanup_service.py) and the       *)
(* leases it runs under (services/storage/coordination_repository.py, on   *)
(* SQLite): schedulers elect a leader, wait until a cleanup is due and run *)
(* it, one at a time with the cleanups an administrator asks for; a saved  *)
(* setting (services/settings_management_service.py) makes one due.  Each  *)
(* process cleans by its own copy of the settings (services/config.py).    *)
(* Processes die and heartbeats fail, after which a lease expires.         *)
(***************************************************************************)
EXTENDS Naturals

CONSTANTS
  Schedulers,  \* retention threads, one of each process
  Manual,      \* cleanups asked for by an administrator
  Admins,      \* administrators who edit the settings
  Free,        \* a lease that nobody holds
  MaxChanges,  \* bound: settings saved
  MaxLapses    \* bound: processes that die and heartbeats that fail

ASSUME RetentionAssumption ==
  /\ Free \notin Schedulers \cup Manual /\ Schedulers \cap Manual = {}
  /\ MaxChanges \in Nat /\ MaxLapses \in Nat

VARIABLES
  setting,    \* the version of the settings that is stored
  copy,       \* scheduler -> the version its process works by (ConfigStore.data)
  viewed,     \* admin -> the version seen last
  unnoticed,  \* scheduler -> settings saved in its process, the notification outstanding
  asked,      \* history: scheduler -> the version its process had when it last notified
  due,        \* next_run_epoch has come
  revision,   \* wake_revision
  wake,       \* scheduler -> its wake event
  overdue,    \* leaders whose own deadline has passed
  lease,      \* "leader" and "run" -> who holds it
  beating,    \* "leader" and "run" -> its heartbeat goes on
  actor,      \* scheduler or manual cleanup -> where it is
  leading,    \* schedulers that were elected, and do not look at their lease again
  seen,       \* scheduler -> the wake revision read before its run
  cleaned,    \* history: domain -> of its automatic cleanups, the one that saw most
  lapsed,     \* history: a run lost its lease
  lapses

retentionVars == <<setting, copy, viewed, unnoticed, asked, due, revision, wake, overdue, lease,
                   beating, actor, leading, seen, cleaned, lapsed, lapses>>
settings == <<setting, copy, viewed, unnoticed, asked>>
schedule == <<due, revision>>
calls == <<wake, overdue>>
leases == <<lease, beating, lapsed, lapses>>

Actors == Schedulers \cup Manual
Runs == {"logs", "images"}
Leases == {"leader", "run"}
NoCleanup == [by |-> Free, version |-> 0, since |-> 0]

RetentionTypeOK ==
  /\ setting \in 0..MaxChanges /\ revision \in Nat
  /\ copy \in [Schedulers -> 0..MaxChanges]
  /\ viewed \in [Admins -> 0..MaxChanges]
  /\ lease \in [Leases -> Actors \cup {Free}]
  /\ actor \in [Actors -> {"standby", "waiting", "queued", "logs", "images", "finished",
                           "ran", "scheduled"}]
  /\ cleaned \in [Runs -> [by : Schedulers \cup {Free}, version : 0..MaxChanges, since : Nat]]

RetentionInit ==
  /\ setting = 0 /\ copy = [p \in Schedulers |-> 0] /\ viewed = [a \in Admins |-> 0]
  /\ unnoticed = [p \in Schedulers |-> 0] /\ asked = [p \in Schedulers |-> 0]
  /\ due = FALSE /\ revision = 0
  /\ wake = [p \in Schedulers |-> FALSE] /\ overdue = {}
  /\ lease = [l \in Leases |-> Free]
  /\ beating = [l \in Leases |-> TRUE]
  /\ actor = [p \in Actors |-> "standby"] /\ leading = {}
  /\ seen = [p \in Schedulers |-> 0]
  /\ cleaned = [d \in Runs |-> NoCleanup]
  /\ lapsed = FALSE /\ lapses = 0

-----------------------------------------------------------------------------
(* Settings: every process works by a copy of its own *)

\* view, by the copy of the process that answers
ViewSettings(a, p) ==
  /\ viewed[a] # copy[p]
  /\ viewed' = [viewed EXCEPT ![a] = copy[p]]
  /\ UNCHANGED <<setting, copy, unnoticed, asked, schedule, calls, leases, actor, leading, seen,
                 cleaned>>

\* reload_if_changed, which many settings call when they are read; those of the
\* retention do not.
Reload(p) ==
  /\ copy[p] # setting
  /\ copy' = [copy EXCEPT ![p] = setting]
  /\ UNCHANGED <<setting, viewed, unnoticed, asked, schedule, calls, leases, actor, leading, seen,
                 cleaned>>

\* ConfigStore.update stores a version of the settings and reads it back.
StoreSettings(p) ==
  /\ setting < MaxChanges
  /\ setting' = setting + 1
  /\ copy' = [copy EXCEPT ![p] = setting + 1]

\* update: refused unless the administrator saw the revision the process has.
SaveSettings(a, p) ==
  /\ viewed[a] = copy[p]
  /\ StoreSettings(p)
  /\ viewed' = [viewed EXCEPT ![a] = setting + 1]
  /\ unnoticed' = [unnoticed EXCEPT ![p] = @ + 1]
  /\ UNCHANGED <<asked, schedule, calls, leases, actor, leading, seen, cleaned>>

\* notify_retention_change, in the process that saved them; the request fails when
\* the state cannot be written.
NotifyRetentionChange(p) ==
  /\ unnoticed[p] > 0
  /\ unnoticed' = [unnoticed EXCEPT ![p] = @ - 1]
  /\ \/ /\ due' = TRUE /\ revision' = revision + 1
        /\ wake' = [wake EXCEPT ![p] = TRUE]
        /\ asked' = [asked EXCEPT ![p] = copy[p]]
     \/ UNCHANGED <<schedule, wake, asked>>
  /\ UNCHANGED <<setting, copy, viewed, overdue, leases, actor, leading, seen, cleaned>>

\* The interval has passed.
IntervalPasses ==
  /\ ~due
  /\ due' = TRUE
  /\ UNCHANGED <<settings, revision, calls, leases, actor, leading, seen, cleaned>>

\* The deadline that a leader computed has passed, while others put the run off.
DeadlinePasses(p) ==
  /\ actor[p] = "waiting" /\ ~due /\ p \notin overdue
  /\ overdue' = overdue \cup {p}
  /\ UNCHANGED <<settings, schedule, wake, leases, actor, leading, seen, cleaned>>

-----------------------------------------------------------------------------
(* Leases *)

Moves(p, from, to) == actor[p] = from /\ actor' = [actor EXCEPT ![p] = to]

\* _try_acquire_sqlite
Acquire(l, p) ==
  /\ lease[l] = Free
  /\ lease' = [lease EXCEPT ![l] = p]
  /\ beating' = [beating EXCEPT ![l] = TRUE]

\* _release_sqlite: only leases that are still its own.
Release(ls, p) ==
  lease' = [l \in Leases |-> IF l \in ls /\ lease[l] = p THEN Free ELSE lease[l]]

\* _heartbeat_sqlite ends with an error.
LeaseHeartbeatFails(l) ==
  /\ lapses < MaxLapses
  /\ lease[l] # Free /\ beating[l]
  /\ beating' = [beating EXCEPT ![l] = FALSE]
  /\ lapses' = lapses + 1
  /\ UNCHANGED <<settings, schedule, calls, lease, actor, leading, seen, cleaned, lapsed>>

\* Its process dies and starts again, the settings read anew.
SchedulerDies(p) ==
  /\ lapses < MaxLapses
  /\ actor[p] # "standby" \/ unnoticed[p] > 0
  /\ actor' = [actor EXCEPT ![p] = "standby"]
  /\ leading' = leading \ {p} /\ overdue' = overdue \ {p}
  /\ beating' = [l \in Leases |-> beating[l] /\ lease[l] # p]
  /\ wake' = [wake EXCEPT ![p] = FALSE]
  /\ seen' = [seen EXCEPT ![p] = 0]
  /\ copy' = [copy EXCEPT ![p] = setting]
  /\ unnoticed' = [unnoticed EXCEPT ![p] = 0]
  /\ lapses' = lapses + 1
  /\ UNCHANGED <<setting, viewed, asked, schedule, lease, cleaned, lapsed>>

\* The lease is not renewed.
LeaseRunsOut(l) ==
  /\ lease[l] # Free /\ ~beating[l]
  /\ lapsed' = (lapsed \/ (l = "run" /\ actor[lease[l]] \in Runs))
  /\ lease' = [lease EXCEPT ![l] = Free]
  /\ UNCHANGED <<settings, schedule, calls, beating, actor, leading, seen, cleaned, lapses>>

-----------------------------------------------------------------------------
(* Runs: of a leader, of a process that starts, and those asked for *)

Starting == Schedulers \ leading

\* scheduler_worker
Lead(p) ==
  /\ Moves(p, "standby", "waiting")
  /\ Acquire("leader", p)
  /\ leading' = leading \cup {p}
  /\ UNCHANGED <<settings, schedule, calls, seen, cleaned, lapsed, lapses>>

\* _wait_for_cleanup ends; the wake event is cleared and then the revision read, a
\* notice that comes in between leaves the event set.
WaitForCleanup(p) ==
  /\ Moves(p, "waiting", "queued")
  /\ wake[p] \/ due \/ p \in overdue
  /\ wake' \in {wake, [wake EXCEPT ![p] = FALSE]}
  /\ overdue' = overdue \ {p}
  /\ seen' = [seen EXCEPT ![p] = revision]
  /\ UNCHANGED <<settings, schedule, leases, leading, cleaned>>

\* A process that starts, and an administrator, run a cleanup at once.
RunAtOnce(p) ==
  /\ Moves(p, "standby", "queued")
  /\ UNCHANGED <<settings, schedule, calls, leases, leading, seen, cleaned>>

\* _run_owner: a process that starts reads the revision when it has the lease, an
\* administrator may ask for the images alone.
TakeRun(p) ==
  /\ Moves(p, "queued", "logs") \/ (p \in Manual /\ Moves(p, "queued", "images"))
  /\ Acquire("run", p)
  /\ seen' = IF p \in Starting THEN [seen EXCEPT ![p] = revision] ELSE seen
  /\ UNCHANGED <<settings, schedule, calls, leading, cleaned, lapsed, lapses>>

\* run_startup_automatic: another process has started within the last minute.
SkipStartup(p) ==
  /\ p \in Starting /\ lease["run"] = Free
  /\ Moves(p, "queued", "standby")
  /\ UNCHANGED <<settings, schedule, calls, leases, leading, seen, cleaned>>

\* The hours an automatic cleanup of a domain uses: those of the process's copy.
Cleans(p, domain) ==
  cleaned' = IF seen[p] < cleaned[domain].since THEN cleaned
             ELSE [cleaned EXCEPT ![domain] = [by |-> p, version |-> copy[p], since |-> seen[p]]]

\* _run_automatic_owned notes an error and goes on.
CleanDomain(p, domain, next) ==
  /\ Moves(p, domain, next)
  /\ Cleans(p, domain)
  /\ UNCHANGED <<settings, schedule, calls, leases, leading, seen>>

\* run_retention, run_logs, run_images and cleanup_images_to_target use hours that
\* were chosen before the lease was taken; an error ends them.
CleanAsAsked(p) ==
  /\ Moves(p, "logs", "images") \/ Moves(p, "logs", "finished") \/ Moves(p, "images", "finished")
  /\ UNCHANGED <<settings, schedule, calls, leases, leading, seen, cleaned>>

\* _mark_finished and the end of the lease; a process that starts has scheduled the
\* next run before, a leader does it afterwards.
FinishRun(p) ==
  /\ \/ p \in Manual /\ Moves(p, "finished", "standby")
     \/ p \in leading /\ Moves(p, "finished", "ran")
     \/ p \in Starting /\ Moves(p, "scheduled", "standby")
  /\ Release({"run"}, p)
  /\ UNCHANGED <<settings, schedule, calls, beating, lapsed, lapses, leading, seen, cleaned>>

\* Mutant: the next run is put off, whatever was asked for meanwhile.
PutsOff(p) == due' = FALSE

\* The next run is put off unless another was asked for meanwhile.
PutOff(p) == due' = IF revision = seen[p] THEN FALSE ELSE due

\* _schedule_after_cleanup
ScheduleAfterCleanup(p) ==
  /\ \/ p \in leading /\ Moves(p, "ran", "waiting")
     \/ p \in Starting /\ Moves(p, "finished", "scheduled")
  /\ PutOff(p)
  /\ seen' = [seen EXCEPT ![p] = 0]
  /\ UNCHANGED <<settings, revision, calls, leases, leading, cleaned>>

LeaseOfRun(p) == IF actor[p] \in Runs \cup {"finished", "scheduled"} THEN {"run"} ELSE {}

\* The loop of a leader, or a startup run, ends by an error or because the service
\* stops; the leases it took are given back.
StepDown(p) ==
  /\ actor[p] # "standby"
  /\ actor' = [actor EXCEPT ![p] = "standby"]
  /\ Release(LeaseOfRun(p) \cup IF p \in leading THEN {"leader"} ELSE {}, p)
  /\ leading' = leading \ {p} /\ overdue' = overdue \ {p}
  /\ seen' = [seen EXCEPT ![p] = 0]
  /\ UNCHANGED <<settings, schedule, wake, beating, lapsed, lapses, cleaned>>

RetentionNext ==
  \/ \E a \in Admins, p \in Schedulers : ViewSettings(a, p) \/ SaveSettings(a, p)
  \/ IntervalPasses
  \/ \E l \in Leases : LeaseHeartbeatFails(l) \/ LeaseRunsOut(l)
  \/ \E p \in Schedulers :
       \/ Reload(p) \/ NotifyRetentionChange(p) \/ DeadlinePasses(p) \/ SchedulerDies(p)
       \/ Lead(p) \/ WaitForCleanup(p) \/ SkipStartup(p)
       \/ CleanDomain(p, "logs", "images") \/ CleanDomain(p, "images", "finished")
       \/ ScheduleAfterCleanup(p) \/ StepDown(p)
  \/ \E p \in Manual : CleanAsAsked(p)
  \/ \E p \in Actors : RunAtOnce(p) \/ TakeRun(p) \/ FinishRun(p)

RetentionSpec == RetentionInit /\ [][RetentionNext]_retentionVars

-----------------------------------------------------------------------------
(* Properties *)

\* No notice is lost in a cleanup that is under way: whenever none is due, each
\* domain had an automatic cleanup, or an attempt at one whose error was noted, that
\* began after the last notice (notify_retention_change, _schedule_after_cleanup),
\* and the last such cleanup used hours no older than those its own process had
\* notified -- one of another process may still have used an older copy, and a
\* manual one promises nothing.
\* Two cleanups run at a time only when one of them had lost its lease
\* (_DatabaseLease).
SettingsAreApplied ==
  /\ ~due => \A d \in Runs : cleaned[d].since = revision
  /\ \A d \in Runs : cleaned[d].since = revision /\ cleaned[d].by \in Schedulers =>
       cleaned[d].version >= asked[cleaned[d].by]
  /\ \A p, q \in Actors : p # q /\ actor[p] \in Runs /\ actor[q] \in Runs => lapsed
=============================================================================
