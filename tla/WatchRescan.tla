---------------------------- MODULE WatchRescan ----------------------------
(***************************************************************************)
(* The daily re-scan of watched tools (_run_watch_rescan in                *)
(* src/jobs/scheduler.py, watches from src/api/watch_router.py), composed  *)
(* with the lock that decides which worker runs it.                        *)
(*                                                                         *)
(* A re-scan reads all watches at once, closes that session and then takes *)
(* one watch after the other: it scans the tool, which takes a minute and  *)
(* a half at most, compares the result with the baseline it read in the    *)
(* beginning, writes a notification if the tool has got worse, and commits *)
(* the notification and the new baseline together.  Nothing is locked.     *)
(*                                                                         *)
(* start_scheduler keeps no reference to this one task, and stop_scheduler *)
(* does not cancel it: it runs on after the key is deleted, until the      *)
(* process ends.                                                           *)
(***************************************************************************)
EXTENDS SchedulerLock

CONSTANTS
  Watch,       \* rows of tool_watches, each with an id of its own
  Version,     \* what a scan can report: [score, digest]
  NoDigest,    \* the digest of a tool that defines nothing
  DROP,        \* how many points a score may lose without an alert
  ALERTS       \* bound: alerts of one watch

ASSUME VersionAssumption == \A v \in Version : v.score \in Int

ASSUME ThresholdAssumption == DROP \in Nat /\ ALERTS \in Nat

VARIABLES
  row,         \* the watches: are they there, and their baselines
  rescan,      \* what the loop of each worker is doing
  notified,    \* committed notifications of each watch
  alarms,      \* history: how often a baseline was replaced by a worse one
  lingered     \* history: did a loop start while a stopped one was running?

allVars == <<lock, scheduler, due, disturbed, row, rescan, notified, alarms, lingered>>

\* One version, or none for a watch that was added without a scan.
Baseline == {b \in SUBSET Version : \A u, v \in b : u = v}

Row == [state : {"new", "there", "removed"}, baseline : Baseline]

\* One record per process: todo are the watches it has yet to scan, seen the
\* baselines it read in the beginning, watch the one it is at, found what the
\* scan says of it.  "alerted" holds an uncommitted notification.
Rescan == [state : {"none", "asleep", "listed", "scanned", "quiet", "alerted"},
           todo : SUBSET Watch, seen : [Watch -> Baseline],
           watch : SUBSET Watch, found : Baseline]

Loop(state) == [state |-> state, todo |-> {}, seen |-> [r \in Watch |-> {}],
                watch |-> {}, found |-> {}]

WatchTypeOK ==
  /\ TypeOK
  /\ row \in [Watch -> Row]
  /\ rescan \in [Worker -> Rescan]
  /\ notified \in [Watch -> 0 .. ALERTS]
  /\ alarms \in [Watch -> 0 .. ALERTS]
  /\ lingered \in BOOLEAN

WatchInit ==
  /\ Init
  /\ row = [r \in Watch |-> [state |-> "new", baseline |-> {}]]
  /\ rescan = [w \in Worker |-> Loop("none")]
  /\ notified = [r \in Watch |-> 0]
  /\ alarms = [r \in Watch |-> 0]
  /\ lingered = FALSE

Running(w) == rescan[w].state # "none"

Goes(w, what) == rescan' = [rescan EXCEPT ![w] = what]

-----------------------------------------------------------------------------
(* The worker's life.  A process starts with no loop.                      *)

\* The loop of a worker whose key is deleted and whose process has not ended.
Lingers(w) == Running(w) /\ scheduler[w] = "down"

StartRescans(w) ==
  /\ ~ Running(w)
  /\ StartAndAcquire(w) \/ StartWithoutRedis(w)
  /\ Goes(w, Loop("asleep"))
  /\ lingered' = (lingered \/ \E v \in Worker : Lingers(v))
  /\ UNCHANGED <<row, notified, alarms>>

AfterSkip_Started == Loop("asleep")

AfterSkip == Loop("none")

SkipRescans(w) ==
  /\ ~ Running(w)
  /\ StartAndSkip(w)
  /\ Goes(w, AfterSkip)
  /\ UNCHANGED <<row, notified, alarms, lingered>>

\* The lock's own steps do not touch the loop, nor does stop_scheduler.
KeepRescans ==
  /\ \/ \E w \in Worker : Refresh(w) \/ RefreshFails(w) \/ Stop(w) \/ Release(w)
     \/ LoseKey
     \/ Tick
  /\ UNCHANGED <<row, rescan, notified, alarms, lingered>>

KillRescans(w) ==
  /\ Die(w)
  /\ Goes(w, Loop("none"))
  /\ UNCHANGED <<row, notified, alarms, lingered>>

\* The event loop is closed after the lifespan's shutdown.
Exit(w) ==
  /\ Lingers(w)
  /\ Goes(w, Loop("none"))
  /\ UNCHANGED <<vars, row, notified, alarms, lingered>>

-----------------------------------------------------------------------------
(* A re-scan.                                                              *)

ListWatches(w) ==
  /\ rescan[w].state = "asleep"
  /\ LET active == {r \in Watch : row[r].state = "there"} IN
     /\ active # {}
     /\ Goes(w, [Loop("listed") EXCEPT !.todo = active,
                   !.seen = [r \in Watch |-> row[r].baseline]])
  /\ UNCHANGED <<vars, row, notified, alarms, lingered>>

\* The next watch, or a day's sleep.
Onwards(s) ==
  IF s.todo = {} THEN Loop("asleep")
  ELSE [s EXCEPT !.state = "listed", !.watch = {}, !.found = {}]

\* The answer may be an hour old, or older if GitHub's budget is low.
Scan(w, r) ==
  /\ rescan[w].state = "listed"
  /\ r \in rescan[w].todo
  /\ \E v \in Version :
       Goes(w, [rescan[w] EXCEPT !.state = "scanned", !.todo = @ \ {r},
                                 !.watch = {r}, !.found = {v}])
  /\ UNCHANGED <<vars, row, notified, alarms, lingered>>

ScanFails(w, r) ==
  /\ rescan[w].state = "listed"
  /\ r \in rescan[w].todo
  /\ Goes(w, Onwards([rescan[w] EXCEPT !.todo = @ \ {r}]))
  /\ UNCHANGED <<vars, row, notified, alarms, lingered>>

Dropped(old, new) == new.score < old.score - DROP

Drifted(old, new) ==
  old.digest # NoDigest /\ new.digest # NoDigest /\ new.digest # old.digest

Alarming(old, new) == \E u \in old, v \in new : Dropped(u, v) \/ Drifted(u, v)

\* e-mail and webhook go out here; the notification waits for the commit.
Compare(w, r) ==
  /\ rescan[w].state = "scanned"
  /\ r \in rescan[w].watch
  /\ Goes(w, [rescan[w] EXCEPT !.state =
                IF Alarming(rescan[w].seen[r], rescan[w].found)
                  THEN "alerted" ELSE "quiet"])
  /\ UNCHANGED <<vars, row, notified, alarms, lingered>>

AfterFailedInsert_GoOn(s) == [s EXCEPT !.state = "quiet"]

\* The error is logged, and the session is of no use any more: the next access
\* raises and ends the iteration.
AfterFailedInsert(s) == Loop("asleep")

InsertFails(w, r) ==
  /\ rescan[w].state = "scanned"
  /\ r \in rescan[w].watch
  /\ Alarming(rescan[w].seen[r], rescan[w].found)
  /\ Goes(w, AfterFailedInsert(rescan[w]))
  /\ UNCHANGED <<vars, row, notified, alarms, lingered>>

Recorded_Added(old, new) == old \cup new

Recorded(old, new) == new

\* A watch that was removed takes the notification with it: nothing is
\* committed.
Record(w, r) ==
  /\ rescan[w].state \in {"quiet", "alerted"}
  /\ r \in rescan[w].watch
  /\ Goes(w, Onwards(rescan[w]))
  /\ IF row[r].state = "there"
       THEN /\ notified[r] < ALERTS /\ alarms[r] < ALERTS
            /\ row' = [row EXCEPT ![r].baseline = Recorded(@, rescan[w].found)]
            /\ notified' = [notified EXCEPT ![r] =
                              IF rescan[w].state = "alerted" THEN @ + 1 ELSE @]
            /\ alarms' = [alarms EXCEPT ![r] =
                            IF Alarming(row[r].baseline, rescan[w].found) THEN @ + 1 ELSE @]
       ELSE UNCHANGED <<row, notified, alarms>>
  /\ UNCHANGED <<vars, lingered>>

\* Any other exception ends the iteration until tomorrow.
IterationFails(w) ==
  /\ rescan[w].state \in {"listed", "scanned", "quiet", "alerted"}
  /\ Goes(w, Loop("asleep"))
  /\ UNCHANGED <<vars, row, notified, alarms, lingered>>

-----------------------------------------------------------------------------
(* The watchers.                                                           *)

\* With the baseline of a scan, or with none if the scan failed.
AddWatch(r) ==
  /\ row[r].state = "new"
  /\ \E b \in Baseline : row' = [row EXCEPT ![r] = [state |-> "there", baseline |-> b]]
  /\ UNCHANGED <<vars, rescan, notified, alarms, lingered>>

\* Whoever adds the tool again gets another row.
RemoveWatch(r) ==
  /\ row[r].state = "there"
  /\ row' = [row EXCEPT ![r] = [state |-> "removed", baseline |-> {}]]
  /\ UNCHANGED <<vars, rescan, notified, alarms, lingered>>

WatchNext ==
  \/ \E w \in Worker : StartRescans(w) \/ SkipRescans(w) \/ KillRescans(w) \/ Exit(w)
  \/ KeepRescans
  \/ \E w \in Worker : ListWatches(w) \/ IterationFails(w)
  \/ \E w \in Worker, r \in Watch :
       Scan(w, r) \/ ScanFails(w, r) \/ Compare(w, r) \/ InsertFails(w, r) \/ Record(w, r)
  \/ \E r \in Watch : AddWatch(r) \/ RemoveWatch(r)

WatchSpec == WatchInit /\ [][WatchNext]_allVars

\* The clock of Redis runs on.  No worker has to act for a key to expire.
Time == Tick /\ UNCHANGED <<row, rescan, notified, alarms, lingered>>

FairWatchSpec == WatchSpec /\ WF_allVars(Time)

-----------------------------------------------------------------------------

\* Redis kept the key, every command reached it in time, and no process was
\* still re-scanning when another one took over its key.
Orderly == ~ disturbed /\ ~ lingered

\* Then one process at most has a re-scan loop, over all crashes, restarts and
\* handovers ...
OneRescan == Orderly => \A v, w \in Worker : (Running(v) /\ Running(w)) => v = w

\* ... and a watcher gets one notification for each time the baseline of his
\* watch is replaced by a worse one: none is lost to a crash between the alert
\* and the commit, to a failed INSERT or to a list of watches that is an hour
\* old, and none is repeated.
OneAlertPerChange == Orderly => notified = alarms

=============================================================================
