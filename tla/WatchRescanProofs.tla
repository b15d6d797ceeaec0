------------------------- MODULE WatchRescanProofs -------------------------
(***************************************************************************)
(* Theorems about SchedulerLock, and on top of them about WatchRescan, for *)
(* any number of workers and watches, any intervals 0 < refresh < TTL and  *)
(* any versions a scan may report.                                         *)
(***************************************************************************)
EXTENDS WatchRescan, TLAPS

USE IntervalAssumption, FaultsAssumption, VersionAssumption, ThresholdAssumption

-----------------------------------------------------------------------------
(* The lock by itself.                                                     *)

\* While nothing has gone wrong, the key outlives every wait for the next
\* command, and two workers never both depend on it.
IInv == TypeOK /\ LeaderKeepsLock /\ OneWorkerUnlessDisturbed

LEMMA Initially == Init => IInv
<1> SUFFICES ASSUME Init PROVE IInv
  OBVIOUS
<1>1. lock \in 0 .. LOCK_TTL /\ due \in [Worker -> 0 .. LOCK_REFRESH]
  BY DEF Init
<1>2. scheduler \in [Worker -> SchedulerState] /\ disturbed \in BOOLEAN
  BY DEF Init, SchedulerState
<1>3. \A w \in Worker : ~ UsesRedis(w)  BY DEF Init, UsesRedis
<1> QED  BY <1>1, <1>2, <1>3
            DEF IInv, TypeOK, LeaderKeepsLock, OneWorkerUnlessDisturbed

\* The numbers a step leaves behind, and the rest of it.
LEMMA NumbersPreserved ==
  ASSUME TypeOK, [Next]_vars
  PROVE  /\ lock' \in 0 .. LOCK_TTL
         /\ due' \in [Worker -> 0 .. LOCK_REFRESH]
<1> USE DEF TypeOK, Rearm
<1>1. CASE UNCHANGED vars  BY <1>1 DEF vars
<1>2. CASE Tick  BY <1>2 DEF Tick, LifeLeft, Elapse
<1>3. CASE LoseKey  BY <1>3 DEF LoseKey
<1>4. ASSUME NEW w \in Worker,
             StartAndAcquire(w) \/ StartAndSkip(w) \/ StartWithoutRedis(w)
      PROVE  /\ lock' \in 0 .. LOCK_TTL
             /\ due' \in [Worker -> 0 .. LOCK_REFRESH]
  <2>1. due' = due \/ due' = [due EXCEPT ![w] = LOCK_REFRESH]
    BY <1>4 DEF StartAndAcquire, StartAndSkip, StartWithoutRedis
  <2>2. lock' = lock \/ lock' = LOCK_TTL
    BY <1>4 DEF StartAndAcquire, StartAndSkip, StartWithoutRedis
  <2> QED  BY <2>1, <2>2
<1>5. ASSUME NEW w \in Worker, Refresh(w) \/ RefreshFails(w)
      PROVE  /\ lock' \in 0 .. LOCK_TTL
             /\ due' \in [Worker -> 0 .. LOCK_REFRESH]
  <2>1. due' = [due EXCEPT ![w] = LOCK_REFRESH]
    BY <1>5 DEF Refresh, RefreshFails
  <2>2. lock' = lock \/ lock' = LOCK_TTL
    BY <1>5 DEF Refresh, RefreshFails, Extended
  <2> QED  BY <2>1, <2>2
<1>6. ASSUME NEW w \in Worker, Stop(w) \/ Release(w) \/ Die(w)
      PROVE  /\ lock' \in 0 .. LOCK_TTL
             /\ due' \in [Worker -> 0 .. LOCK_REFRESH]
  BY <1>6 DEF Stop, Release, Die
<1> QED  BY <1>1, <1>2, <1>3, <1>4, <1>5, <1>6 DEF Next

LEMMA TypePreserved == ASSUME TypeOK, [Next]_vars PROVE TypeOK'
<1>1. scheduler' \in [Worker -> SchedulerState]
  BY DEF TypeOK, SchedulerState, Become, Next, vars, StartAndAcquire,
         StartAndSkip, StartWithoutRedis, Refresh, RefreshFails, Stop, Release,
         Die, LoseKey, Tick
<1>2. disturbed' \in BOOLEAN
  BY ZenonT(30)
     DEF TypeOK, Next, vars, StartAndAcquire, StartAndSkip, StartWithoutRedis,
         Refresh, RefreshFails, Stop, Release, Die, LoseKey, Tick
<1> QED  BY <1>1, <1>2, NumbersPreserved DEF TypeOK

\* A worker that acquires the key does so while nobody else depends on it: the
\* key of a worker that does would still be there.
LEMMA AcquiresAlone ==
  ASSUME IInv, ~ disturbed, NEW w \in Worker, StartAndAcquire(w)
  PROVE  \A v \in Worker : ~ UsesRedis(v)
  BY DEF IInv, TypeOK, LeaderKeepsLock, StartAndAcquire, Acquired

LEMMA KeyKept == ASSUME IInv, [Next]_vars PROVE LeaderKeepsLock'
<1> SUFFICES ASSUME ~ disturbed', NEW v \in Worker, UsesRedis(v)'
             PROVE  (lock > due[v])'
  BY DEF LeaderKeepsLock
<1> USE DEF UsesRedis, Become, Rearm
<1>0. TypeOK /\ LeaderKeepsLock /\ OneWorkerUnlessDisturbed  BY DEF IInv
<1>1. CASE UNCHANGED vars
  BY <1>0, <1>1 DEF vars, LeaderKeepsLock
<1>2. CASE Tick
  <2>1. ~ disturbed /\ due[v] > 0 /\ UsesRedis(v)
    BY <1>0, <1>2 DEF Tick, OnTime, TypeOK
  <2>2. lock > due[v]  BY <1>0, <2>1 DEF LeaderKeepsLock
  <2> QED  BY <1>0, <1>2, <2>1, <2>2 DEF Tick, LifeLeft, Elapse, TypeOK
<1>3. CASE LoseKey  BY <1>3 DEF LoseKey
<1>4. ASSUME NEW w \in Worker, StartAndAcquire(w)  PROVE (lock > due[v])'
  <2>1. v = w  BY <1>0, <1>4, AcquiresAlone DEF StartAndAcquire, TypeOK, IInv
  <2> QED  BY <1>0, <1>4, <2>1 DEF StartAndAcquire, TypeOK
<1>5. ASSUME NEW w \in Worker, StartAndSkip(w) \/ StartWithoutRedis(w)
      PROVE  (lock > due[v])'
  BY <1>0, <1>5
     DEF StartAndSkip, StartWithoutRedis, LeaderKeepsLock, TypeOK
<1>6. ASSUME NEW w \in Worker, Refresh(w) \/ RefreshFails(w)
      PROVE  (lock > due[v])'
  <2>1. lock > 0 /\ v = w /\ Refresh(w)
    BY <1>0, <1>6
       DEF Refresh, RefreshFails, LeaderKeepsLock, OneWorkerUnlessDisturbed, TypeOK
  <2> QED  BY <1>0, <2>1 DEF Refresh, Extended, TypeOK
<1>7. ASSUME NEW w \in Worker, Stop(w) \/ Die(w)  PROVE (lock > due[v])'
  BY <1>0, <1>7 DEF Stop, Die, LeaderKeepsLock, TypeOK
<1>8. ASSUME NEW w \in Worker, Release(w)  PROVE (lock > due[v])'
  BY <1>0, <1>8 DEF Release, OneWorkerUnlessDisturbed, TypeOK
<1> QED  BY <1>1, <1>2, <1>3, <1>4, <1>5, <1>6, <1>7, <1>8 DEF Next

LEMMA Alone == ASSUME IInv, [Next]_vars PROVE OneWorkerUnlessDisturbed'
<1> SUFFICES ASSUME ~ disturbed', NEW u \in Worker, NEW v \in Worker,
                    UsesRedis(u)', UsesRedis(v)'
             PROVE  u = v
  BY DEF OneWorkerUnlessDisturbed
<1> USE DEF UsesRedis, Become
<1>0. TypeOK /\ OneWorkerUnlessDisturbed  BY DEF IInv
<1>1. CASE UNCHANGED vars \/ Tick \/ LoseKey
  BY <1>0, <1>1 DEF vars, Tick, LoseKey, OneWorkerUnlessDisturbed, TypeOK
<1>2. ASSUME NEW w \in Worker, StartAndAcquire(w)  PROVE u = v
  BY <1>0, <1>2, AcquiresAlone DEF StartAndAcquire, TypeOK
<1>3. ASSUME NEW w \in Worker, StartAndSkip(w) \/ StartWithoutRedis(w)
      PROVE  u = v
  BY <1>0, <1>3
     DEF StartAndSkip, StartWithoutRedis, OneWorkerUnlessDisturbed, TypeOK
<1>4. ASSUME NEW w \in Worker,
             Refresh(w) \/ RefreshFails(w) \/ Stop(w) \/ Release(w) \/ Die(w)
      PROVE  u = v
  BY <1>0, <1>4
     DEF Refresh, RefreshFails, Stop, Release, Die, OneWorkerUnlessDisturbed, TypeOK
<1> QED  BY <1>1, <1>2, <1>3, <1>4 DEF Next

\* IInv holds in every reachable state.
THEOREM Invariance == Spec => []IInv
<1>1. IInv /\ [Next]_vars => IInv'
  BY TypePreserved, KeyKept, Alone DEF IInv
<1> QED  BY <1>1, Initially, PTL DEF Spec

\* The key, the workers and their timers keep their types (scheduler.py's lock
\* for any number of workers and any two intervals).
THEOREM TypeCorrect == Spec => []TypeOK
  BY Invariance, PTL DEF IInv

\* The key has no worker that would refresh or delete it.
Orphaned == lock > 0 /\ \A w \in Worker : scheduler[w] \in {"down", "off"}

\* Nothing prolongs the life of such a key, and each unit of time shortens it,
\* until it is gone or a worker that could not reach Redis runs the jobs after all.
OrphanRunsOut ==
  [][Orphaned =>
       \/ \E w \in Worker : scheduler'[w] = "on"
       \/ lock' = 0
       \/ Orphaned' /\ lock' <= lock /\ (Tick => lock' < lock)]_vars

\* The step that OrphanedLockExpires is made of: the life of a key nobody uses
\* is a variant.
THEOREM OrphanOnlyShrinks == Spec => OrphanRunsOut
<1>1. ASSUME TypeOK, Next, Orphaned
      PROVE  \/ \E w \in Worker : scheduler'[w] = "on"
             \/ lock' = 0
             \/ Orphaned' /\ lock' <= lock /\ (Tick => lock' < lock)
  <2> USE DEF TypeOK
  <2>0. lock \in Nat /\ lock > 0 /\ \A w \in Worker : scheduler[w] \in {"down", "off"}
    BY <1>1 DEF Orphaned
  <2>1. CASE Tick
    BY <1>1, <2>0, <2>1 DEF Tick, LifeLeft, Elapse, Orphaned
  <2>2. CASE LoseKey
    BY <2>2 DEF LoseKey
  <2>3. ASSUME NEW w \in Worker, StartAndAcquire(w) \/ StartWithoutRedis(w)
        PROVE  scheduler'[w] = "on"
    BY <1>1, <2>3 DEF StartAndAcquire, StartWithoutRedis, Become
  <2>4. ASSUME NEW w \in Worker, StartAndSkip(w) \/ Die(w)
        PROVE  lock' = lock /\ \A v \in Worker : scheduler'[v] \in {"down", "off"}
    BY <1>1, <2>0, <2>4 DEF StartAndSkip, Die, Become
  <2>5. ASSUME NEW w \in Worker, Refresh(w) \/ RefreshFails(w) \/ Stop(w) \/ Release(w)
        PROVE  FALSE
    BY <2>0, <2>5 DEF Refresh, RefreshFails, Stop, Release
  <2>6. CASE lock' = lock /\ \A v \in Worker : scheduler'[v] \in {"down", "off"}
    <3>1. ~ Tick  BY <2>0, <2>6 DEF Tick, LifeLeft, Elapse
    <3> QED  BY <2>0, <2>6, <3>1 DEF Orphaned
  <2> QED  BY <1>1, <2>1, <2>2, <2>3, <2>4, <2>5, <2>6 DEF Next
<1>2. TypeOK /\ [Next]_vars =>
        [Orphaned =>
           \/ \E w \in Worker : scheduler'[w] = "on"
           \/ lock' = 0
           \/ Orphaned' /\ lock' <= lock /\ (Tick => lock' < lock)]_vars
  BY <1>1
<1> QED  BY <1>2, TypeCorrect, PTL DEF Spec, OrphanRunsOut

-----------------------------------------------------------------------------
(* The loops.                                                              *)

\* A re-scan is at one watch, never at one that it has yet to take, and it holds
\* a notification when the result is worse than the baseline it read.
Judged(s) ==
  /\ \A q, r \in s.watch : q = r
  /\ s.watch \cap s.todo = {}
  /\ s.state = "alerted" => \A r \in s.watch : Alarming(s.seen[r], s.found)
  /\ s.state = "quiet" => \A r \in s.watch : ~ Alarming(s.seen[r], s.found)

\* What it has listed was there, and is as it was listed.
Known(s) == \A r \in s.todo \cup s.watch : row[r].state # "new"

Current(s) ==
  \A r \in s.todo \cup s.watch :
    row[r].state = "there" => s.seen[r] = row[r].baseline

\* Where no loop runs nothing is listed.
Idle(s) == s.state = "none" => s.todo = {} /\ s.watch = {}

Sound(s) == Idle(s) /\ Judged(s) /\ Known(s) /\ (Orderly => Current(s))

\* A worker that has skipped the scheduler has no loop.
Belongs == \A w \in Worker : scheduler[w] = "off" => ~ Running(w)

WInv ==
  /\ IInv
  /\ WatchTypeOK
  /\ Belongs
  /\ \A w \in Worker : Sound(rescan[w])
  /\ OneRescan
  /\ OneAlertPerChange

-----------------------------------------------------------------------------
(* Loops.                                                                  *)

LEMMA NoBaseline == {} \in Baseline
BY DEF Baseline

LEMMA LoopTyped ==
  ASSUME NEW x \in {"none", "asleep", "listed"}
  PROVE  Loop(x) \in Rescan
BY NoBaseline DEF Loop, Rescan

\* A loop that has listed nothing says nothing about the watches.
LEMMA LoopSound ==
  ASSUME NEW x \in {"none", "asleep"}
  PROVE  Sound(Loop(x))
BY DEF Loop, Sound, Idle, Judged, Known, Current

LEMMA OnwardsTyped ==
  ASSUME NEW s \in Rescan
  PROVE  Onwards(s) \in Rescan
<1>1. CASE s.todo = {}  BY <1>1, LoopTyped DEF Onwards
<1>2. CASE s.todo # {}
  BY <1>2, NoBaseline DEF Onwards, Rescan
<1> QED  BY <1>1, <1>2

\* Without the watch it was at, a loop is as sound as its list.
LEMMA OnwardsSound ==
  ASSUME NEW s \in Rescan,
         \A r \in s.todo : row[r].state # "new",
         Orderly => \A r \in s.todo : row[r].state = "there" => s.seen[r] = row[r].baseline
  PROVE  Sound(Onwards(s))
<1>1. CASE s.todo = {}  BY <1>1, LoopSound DEF Onwards
<1>2. CASE s.todo # {}
  <2> DEFINE n == [s EXCEPT !.state = "listed", !.watch = {}, !.found = {}]
  <2>1. n.state = "listed" /\ n.watch = {} /\ n.todo = s.todo /\ n.seen = s.seen
    BY DEF Rescan
  <2>2. Sound(n)  BY <2>1 DEF Sound, Idle, Judged, Known, Current
  <2> QED  BY <1>2, <2>2 DEF Onwards
<1> QED  BY <1>1, <1>2

-----------------------------------------------------------------------------
(* The lock below.                                                         *)

\* Every step is a step of the lock, or leaves it alone.
LEMMA LockStep == ASSUME [WatchNext]_allVars PROVE [Next]_vars
<1>1. CASE UNCHANGED allVars  BY <1>1 DEF allVars, vars
<1>2. ASSUME NEW w \in Worker,
             StartRescans(w) \/ SkipRescans(w) \/ KillRescans(w) \/ Exit(w)
      PROVE  [Next]_vars
  BY <1>2 DEF StartRescans, SkipRescans, KillRescans, Exit, Next
<1>3. CASE KeepRescans  BY <1>3 DEF KeepRescans, Next
<1>4. ASSUME NEW w \in Worker, ListWatches(w) \/ IterationFails(w)  PROVE [Next]_vars
  BY <1>4 DEF ListWatches, IterationFails
<1>5. ASSUME NEW w \in Worker, NEW r \in Watch,
             Scan(w, r) \/ ScanFails(w, r) \/ Compare(w, r) \/ InsertFails(w, r) \/ Record(w, r)
      PROVE  [Next]_vars
  BY <1>5 DEF Scan, ScanFails, Compare, InsertFails, Record
<1>6. ASSUME NEW r \in Watch, AddWatch(r) \/ RemoveWatch(r)  PROVE [Next]_vars
  BY <1>6 DEF AddWatch, RemoveWatch
<1> QED  BY <1>1, <1>2, <1>3, <1>4, <1>5, <1>6 DEF WatchNext

LEMMA LockInvariant == ASSUME IInv, [Next]_vars PROVE IInv'
BY TypePreserved, KeyKept, Alone DEF IInv

\* What has been disturbed stays so.
LEMMA DisturbedStays ==
  ASSUME TypeOK, [Next]_vars, disturbed
  PROVE  disturbed'
BY ZenonT(30) DEF Next, vars, StartAndAcquire, StartAndSkip, StartWithoutRedis, Refresh,
         RefreshFails, Stop, Release, Die, LoseKey, Tick

LEMMA OrderBackwards ==
  ASSUME WInv, [WatchNext]_allVars, lingered => lingered', Orderly'
  PROVE  Orderly
<1>1. TypeOK  BY DEF WInv, IInv
<1>2. ~ disturbed  BY <1>1, LockStep, DisturbedStays DEF Orderly
<1> QED  BY <1>2 DEF Orderly

-----------------------------------------------------------------------------
(* Steps that leave the watches alone.                                     *)

\* The rest of WInv follows from what becomes of one loop.
LEMMA LoopChanges ==
  ASSUME WInv, [WatchNext]_allVars,
         NEW w \in Worker, NEW s \in Rescan, Sound(s),
         rescan' = [rescan EXCEPT ![w] = s],
         UNCHANGED <<row, notified, alarms>>,
         lingered' \in BOOLEAN, lingered => lingered',
         Belongs', OneRescan'
  PROVE  WInv'
<1>1. IInv'  BY LockStep, LockInvariant DEF WInv
<1>2. Orderly' => Orderly  BY OrderBackwards
<1>3. WatchTypeOK'  BY <1>1 DEF WInv, WatchTypeOK, IInv
<1>4. ASSUME NEW v \in Worker PROVE Sound(rescan[v])'
  <2>1. PICK t \in Rescan : rescan'[v] = t /\ Sound(t)
    BY DEF WInv, WatchTypeOK
  <2> QED  BY <2>1, <1>2 DEF Sound, Idle, Judged, Known, Current
<1>5. OneAlertPerChange'  BY <1>2 DEF WInv, OneAlertPerChange
<1> QED  BY <1>1, <1>3, <1>4, <1>5 DEF WInv

\* A loop that goes on keeps what was true of who runs one.
LEMMA LoopGoesOn ==
  ASSUME WInv, [WatchNext]_allVars,
         NEW w \in Worker, NEW s \in Rescan, Sound(s), Running(w),
         rescan' = [rescan EXCEPT ![w] = s],
         UNCHANGED <<vars, row, notified, alarms, lingered>>
  PROVE  WInv'
<1>1. lingered \in BOOLEAN /\ rescan \in [Worker -> Rescan]  BY DEF WInv, WatchTypeOK
<1>2. \A v \in Worker : Running(v)' => Running(v)  BY <1>1 DEF Running
<1>3. Belongs'  BY <1>2 DEF WInv, Belongs, vars
<1>4. OneRescan'  BY <1>2 DEF WInv, OneRescan, Orderly, vars
<1> QED  BY <1>1, <1>3, <1>4, LoopChanges

LEMMA StartPreserves ==
  ASSUME WInv, NEW w \in Worker, StartRescans(w)
  PROVE  WInv'
<1>0. [WatchNext]_allVars  BY DEF WatchNext
<1>1. /\ rescan' = [rescan EXCEPT ![w] = Loop("asleep")]
      /\ UNCHANGED <<row, notified, alarms>>
      /\ rescan \in [Worker -> Rescan] /\ lingered \in BOOLEAN
  BY DEF StartRescans, Goes, WInv, WatchTypeOK
<1>2. lingered' \in BOOLEAN /\ (lingered => lingered')
  <2>1. lingered' = (lingered \/ \E v \in Worker : Lingers(v))  BY DEF StartRescans
  <2> QED  BY <2>1, <1>1
<1>3. Loop("asleep") \in Rescan /\ Sound(Loop("asleep"))  BY LoopTyped, LoopSound
<1>4. scheduler' = [scheduler EXCEPT ![w] = "on"] /\ scheduler \in [Worker -> SchedulerState]
  BY DEF StartRescans, StartAndAcquire, StartWithoutRedis, Become, WInv, IInv, TypeOK
<1>5. Belongs'
  BY <1>1, <1>4 DEF Belongs, WInv, Running
\* Nobody else runs a loop: he would have the key, or linger.
<1>6. ASSUME Orderly', NEW v \in Worker, v # w  PROVE ~ Running(v)
  <2>1. ~ disturbed' /\ ~ Lingers(v)
    BY <1>6 DEF Orderly, StartRescans
  <2>2. StartAndAcquire(w)  BY <2>1 DEF StartRescans, StartWithoutRedis
  <2>3. ~ disturbed  BY <2>1, <2>2 DEF StartAndAcquire
  <2>4. ~ UsesRedis(v)  BY <2>2, <2>3, AcquiresAlone DEF WInv
  <2>5. scheduler[v] \in {"down", "off"}
    BY <2>4, <1>4 DEF UsesRedis, SchedulerState
  <2> QED  BY <2>1, <2>5 DEF Lingers, WInv, Belongs
<1>7. OneRescan'
  BY <1>1, <1>6 DEF OneRescan, Running
<1> QED  BY <1>0, <1>1, <1>2, <1>3, <1>5, <1>7, LoopChanges

\* The other steps of a worker's life end a loop, or none.
LEMMA LifePreserves ==
  ASSUME WInv, NEW w \in Worker, SkipRescans(w) \/ KillRescans(w) \/ Exit(w)
  PROVE  WInv'
<1>0. [WatchNext]_allVars  BY DEF WatchNext
<1>1. /\ rescan' = [rescan EXCEPT ![w] = Loop("none")]
      /\ UNCHANGED <<row, notified, alarms, lingered>>
      /\ rescan \in [Worker -> Rescan] /\ lingered \in BOOLEAN
  BY DEF SkipRescans, KillRescans, Exit, AfterSkip, Goes, WInv, WatchTypeOK
<1>2. Loop("none") \in Rescan /\ Sound(Loop("none"))  BY LoopTyped, LoopSound
<1>3. /\ ~ Running(w)'
      /\ \A v \in Worker \ {w} : Running(v)' = Running(v)
  BY <1>1 DEF Running, Loop
<1>4. \A v \in Worker \ {w} : scheduler'[v] = scheduler[v]
  BY DEF SkipRescans, KillRescans, Exit, StartAndSkip, Die, Become, vars, WInv, IInv, TypeOK
<1>5. Belongs'  BY <1>3, <1>4 DEF WInv, Belongs
<1>6. OneRescan'
  <2>1. Orderly' => Orderly  BY <1>0, <1>1, OrderBackwards
  <2> QED  BY <2>1, <1>3 DEF WInv, OneRescan
<1> QED  BY <1>0, <1>1, <1>2, <1>5, <1>6, LoopChanges

LEMMA KeepPreserves == ASSUME WInv, KeepRescans PROVE WInv'
<1>0. [WatchNext]_allVars  BY DEF WatchNext
<1>1. UNCHANGED <<row, rescan, notified, alarms, lingered>>  BY DEF KeepRescans
<1>2. IInv'  BY <1>0, LockStep, LockInvariant DEF WInv
<1>3. Orderly' => Orderly  BY <1>0, <1>1, OrderBackwards
<1>4. WatchTypeOK'  BY <1>1, <1>2 DEF WInv, WatchTypeOK, IInv
<1>5. \A v \in Worker : scheduler'[v] = "off" => scheduler[v] = "off"
  BY DEF KeepRescans, Refresh, RefreshFails, Stop, Release, LoseKey, Tick, Become,
         WInv, IInv, TypeOK
<1>6. Belongs'  BY <1>1, <1>5 DEF WInv, Belongs, Running
<1>7. ASSUME NEW v \in Worker PROVE Sound(rescan[v])'
  BY <1>1, <1>3 DEF WInv, Sound, Idle, Judged, Known, Current
<1>8. OneRescan' /\ OneAlertPerChange'
  BY <1>1, <1>3 DEF WInv, OneRescan, OneAlertPerChange, Running
<1> QED  BY <1>2, <1>4, <1>6, <1>7, <1>8 DEF WInv

-----------------------------------------------------------------------------
(* A re-scan.                                                              *)

LEMMA ListPreserves ==
  ASSUME WInv, NEW w \in Worker, ListWatches(w)
  PROVE  WInv'
<1>0. [WatchNext]_allVars  BY DEF WatchNext
<1> DEFINE active == {r \in Watch : row[r].state = "there"}
           s == [Loop("listed") EXCEPT !.todo = active,
                   !.seen = [r \in Watch |-> row[r].baseline]]
<1>1. row \in [Watch -> Row]  BY DEF WInv, WatchTypeOK
<1>2. [r \in Watch |-> row[r].baseline] \in [Watch -> Baseline]  BY <1>1 DEF Row
<1>3. /\ s.state = "listed" /\ s.todo = active /\ s.watch = {}
      /\ s.seen = [r \in Watch |-> row[r].baseline]
  BY DEF Loop
<1>4. s \in Rescan  BY <1>2, LoopTyped DEF Rescan
<1>5. Sound(s)  BY <1>3 DEF Sound, Idle, Judged, Known, Current
<1>6. /\ rescan' = [rescan EXCEPT ![w] = s] /\ Running(w)
      /\ UNCHANGED <<vars, row, notified, alarms, lingered>>
  BY DEF ListWatches, Goes, Running
<1> QED  BY <1>0, <1>4, <1>5, <1>6, LoopGoesOn

LEMMA GivesUpPreserves ==
  ASSUME WInv, NEW w \in Worker,
         IterationFails(w) \/ \E r \in Watch : InsertFails(w, r)
  PROVE  WInv'
<1>0. [WatchNext]_allVars  BY DEF WatchNext
<1>1. Loop("asleep") \in Rescan /\ Sound(Loop("asleep"))  BY LoopTyped, LoopSound
<1>2. /\ rescan' = [rescan EXCEPT ![w] = Loop("asleep")] /\ Running(w)
      /\ UNCHANGED <<vars, row, notified, alarms, lingered>>
  BY DEF IterationFails, InsertFails, AfterFailedInsert, Goes, Running
<1> QED  BY <1>0, <1>1, <1>2, LoopGoesOn

LEMMA ScanPreserves ==
  ASSUME WInv, NEW w \in Worker, NEW r \in Watch, Scan(w, r)
  PROVE  WInv'
<1>0. [WatchNext]_allVars  BY DEF WatchNext
<1>1. rescan[w] \in Rescan /\ Sound(rescan[w]) /\ r \in rescan[w].todo
  BY DEF WInv, WatchTypeOK, Scan
<1>2. PICK v \in Version :
        Goes(w, [rescan[w] EXCEPT !.state = "scanned", !.todo = @ \ {r},
                                  !.watch = {r}, !.found = {v}])
  BY DEF Scan
<1> DEFINE s == [rescan[w] EXCEPT !.state = "scanned", !.todo = @ \ {r},
                                  !.watch = {r}, !.found = {v}]
<1>3. {v} \in Baseline  BY DEF Baseline
<1>4. /\ s.state = "scanned" /\ s.todo = rescan[w].todo \ {r} /\ s.watch = {r}
      /\ s.seen = rescan[w].seen
  BY <1>1 DEF Rescan
<1>5. s \in Rescan  BY <1>1, <1>3 DEF Rescan
<1>6. s.todo \cup s.watch \subseteq rescan[w].todo \cup rescan[w].watch  BY <1>1, <1>4
<1>7. Sound(s)  BY <1>1, <1>4, <1>6 DEF Sound, Idle, Judged, Known, Current
<1>8. /\ rescan' = [rescan EXCEPT ![w] = s] /\ Running(w)
      /\ UNCHANGED <<vars, row, notified, alarms, lingered>>
  BY <1>2 DEF Scan, Goes, Running
<1> HIDE DEF s
<1> QED  BY <1>0, <1>5, <1>7, <1>8, LoopGoesOn

LEMMA ScanFailsPreserves ==
  ASSUME WInv, NEW w \in Worker, NEW r \in Watch, ScanFails(w, r)
  PROVE  WInv'
<1>0. [WatchNext]_allVars  BY DEF WatchNext
<1>1. rescan[w] \in Rescan /\ Sound(rescan[w])  BY DEF WInv, WatchTypeOK
<1> DEFINE t == [rescan[w] EXCEPT !.todo = @ \ {r}]
<1>2. t \in Rescan /\ t.todo = rescan[w].todo \ {r} /\ t.seen = rescan[w].seen
  BY <1>1 DEF Rescan
<1>3. rescan' = [rescan EXCEPT ![w] = Onwards(t)]  BY DEF ScanFails, Goes
<1> HIDE DEF t
<1>4. Onwards(t) \in Rescan /\ Sound(Onwards(t))
  BY <1>1, <1>2, OnwardsTyped, OnwardsSound DEF Sound, Known, Current
<1>5. Running(w) /\ UNCHANGED <<vars, row, notified, alarms, lingered>>
  BY DEF ScanFails, Running
<1> QED  BY <1>0, <1>3, <1>4, <1>5, LoopGoesOn

LEMMA ComparePreserves ==
  ASSUME WInv, NEW w \in Worker, NEW r \in Watch, Compare(w, r)
  PROVE  WInv'
<1>0. [WatchNext]_allVars  BY DEF WatchNext
<1>1. rescan[w] \in Rescan /\ Sound(rescan[w])  BY DEF WInv, WatchTypeOK
<1> DEFINE worse == Alarming(rescan[w].seen[r], rescan[w].found)
           s == [rescan[w] EXCEPT !.state = IF worse THEN "alerted" ELSE "quiet"]
<1>2. /\ rescan' = [rescan EXCEPT ![w] = s] /\ Running(w)
      /\ UNCHANGED <<vars, row, notified, alarms, lingered>>
  BY DEF Compare, Goes, Running
<1>3. rescan[w].watch = {r}  BY <1>1 DEF Compare, Sound, Idle, Judged, Rescan
<1>4. /\ s.state = (IF worse THEN "alerted" ELSE "quiet") /\ s.todo = rescan[w].todo
      /\ s.watch = {r} /\ s.seen = rescan[w].seen /\ s.found = rescan[w].found
  BY <1>1, <1>3 DEF Rescan
<1>5. s \in Rescan  BY <1>1 DEF Rescan
<1>6. Idle(s) /\ Judged(s)  BY <1>1, <1>3, <1>4 DEF Idle, Judged, Sound
<1>7. Known(s) /\ (Orderly => Current(s))  BY <1>1, <1>3, <1>4 DEF Sound, Known, Current
<1>8. Sound(s)  BY <1>6, <1>7 DEF Sound
<1> HIDE DEF s
<1> QED  BY <1>0, <1>2, <1>5, <1>8, LoopGoesOn

LEMMA RecordPreserves ==
  ASSUME WInv, NEW w \in Worker, NEW r \in Watch, Record(w, r)
  PROVE  WInv'
<1>0. [WatchNext]_allVars  BY DEF WatchNext
<1>1. rescan[w] \in Rescan /\ Sound(rescan[w])  BY DEF WInv, WatchTypeOK
<1>2. rescan[w].watch = {r}  BY <1>1 DEF Record, Sound, Idle, Judged, Rescan
<1> DEFINE s == Onwards(rescan[w])
<1>3. s \in Rescan /\ Sound(s)
  BY <1>1, OnwardsTyped, OnwardsSound DEF Sound, Known, Current
<1>4. /\ rescan' = [rescan EXCEPT ![w] = s] /\ Running(w)
      /\ UNCHANGED <<vars, lingered>>
  BY DEF Record, Goes, Running
<1> HIDE DEF s
<1>5. CASE row[r].state # "there"
  <2>1. UNCHANGED <<row, notified, alarms>>  BY <1>5 DEF Record
  <2> QED  BY <1>0, <1>3, <1>4, <2>1, LoopGoesOn
<1>6. CASE row[r].state = "there"
  <2> DEFINE found == rescan[w].found
  <2>1. /\ row' = [row EXCEPT ![r].baseline = found]
        /\ notified' = [notified EXCEPT ![r] =
                          IF rescan[w].state = "alerted" THEN @ + 1 ELSE @]
        /\ alarms' = [alarms EXCEPT ![r] =
                        IF Alarming(row[r].baseline, found) THEN @ + 1 ELSE @]
        /\ notified[r] < ALERTS /\ alarms[r] < ALERTS
    BY <1>6 DEF Record, Recorded
  <2>2. /\ row \in [Watch -> Row] /\ rescan \in [Worker -> Rescan]
        /\ notified \in [Watch -> 0 .. ALERTS] /\ alarms \in [Watch -> 0 .. ALERTS]
        /\ lingered \in BOOLEAN
    BY DEF WInv, WatchTypeOK
  <2>3. found \in Baseline  BY <1>1 DEF Rescan
  <2>4. IInv'  BY <1>0, LockStep, LockInvariant DEF WInv
  <2>5. Orderly' = Orderly  BY <1>4 DEF Orderly, vars
  <2>6. WatchTypeOK'
    <3>1. row' \in [Watch -> Row]  BY <2>1, <2>2, <2>3 DEF Row
    <3>2. notified' \in [Watch -> 0 .. ALERTS]  BY <2>1, <2>2
    <3>3. alarms' \in [Watch -> 0 .. ALERTS]  BY <2>1, <2>2
    <3>4. rescan' \in [Worker -> Rescan]  BY <1>3, <1>4, <2>2
    <3> QED  BY <1>4, <2>2, <2>4, <3>1, <3>2, <3>3, <3>4 DEF WatchTypeOK, IInv
  <2>7. \A v \in Worker : Running(v)' => Running(v)  BY <1>4, <2>2 DEF Running
  <2>8. Belongs' /\ OneRescan'
    BY <1>4, <2>5, <2>7 DEF WInv, Belongs, OneRescan, vars
  \* Where there is order this is the only loop, and it has the watch behind it.
  <2>9. ASSUME NEW v \in Worker PROVE Sound(rescan[v])'
    <3>1. PICK t \in Rescan : rescan'[v] = t /\ Sound(t) /\ (v # w => t = rescan[v])
      BY <1>3, <1>4, <2>2 DEF WInv
    <3>2. /\ \A q \in Watch : row'[q].state = row[q].state
          /\ \A q \in Watch \ {r} : row'[q].baseline = row[q].baseline
      BY <2>1, <2>2 DEF Row
    <3>3. t.todo \subseteq Watch /\ t.watch \subseteq Watch  BY DEF Rescan
    <3>4. Idle(rescan[v])' /\ Judged(rescan[v])' /\ Known(rescan[v])'
      BY <3>1, <3>2, <3>3 DEF Sound, Idle, Judged, Known
    <3>5. ASSUME Orderly PROVE Current(rescan[v])'
      <4>1. CASE v = w
        <5>1. r \notin t.todo \cup t.watch
          BY <1>1, <1>2, <1>4, <2>2, <3>1, <4>1
             DEF s, Onwards, Loop, Sound, Idle, Judged, Rescan
        <5> QED  BY <3>1, <3>2, <3>3, <3>5, <5>1 DEF Sound, Current
      <4>2. CASE v # w
        <5>1. ~ Running(v)  BY <1>4, <3>5, <4>2 DEF WInv, OneRescan
        <5>2. t.todo = {} /\ t.watch = {}  BY <3>1, <4>2, <5>1 DEF Sound, Idle, Running
        <5> QED  BY <3>1, <5>2 DEF Current
      <4> QED  BY <4>1, <4>2
    <3> QED  BY <2>5, <3>4, <3>5 DEF Sound
  <2>10. OneAlertPerChange'
    <3>1. SUFFICES ASSUME Orderly PROVE notified' = alarms'
      BY <2>5 DEF OneAlertPerChange
    <3>2. rescan[w].seen[r] = row[r].baseline
      BY <1>1, <1>2, <1>6, <3>1 DEF Sound, Current
    <3>3. Alarming(row[r].baseline, found) <=> rescan[w].state = "alerted"
      BY <1>1, <1>2, <3>2 DEF Sound, Idle, Judged, Record
    <3>4. notified = alarms  BY <3>1 DEF WInv, OneAlertPerChange
    <3> QED  BY <2>1, <2>2, <3>3, <3>4
  <2> QED  BY <2>4, <2>6, <2>8, <2>9, <2>10 DEF WInv
<1> QED  BY <1>5, <1>6

-----------------------------------------------------------------------------
(* The watchers.                                                           *)

LEMMA WatchersPreserve ==
  ASSUME WInv, NEW r \in Watch, AddWatch(r) \/ RemoveWatch(r)
  PROVE  WInv'
<1>0. [WatchNext]_allVars  BY DEF WatchNext
<1>1. /\ row \in [Watch -> Row] /\ rescan \in [Worker -> Rescan]
  BY DEF WInv, WatchTypeOK
<1>2. PICK n \in Row : /\ row' = [row EXCEPT ![r] = n]
                       /\ n.state # "new" /\ (n.state = "there" => row[r].state = "new")
  <2>1. CASE AddWatch(r)
    <3>1. PICK b \in Baseline : row' = [row EXCEPT ![r] = [state |-> "there", baseline |-> b]]
      BY <2>1 DEF AddWatch
    <3>2. [state |-> "there", baseline |-> b] \in Row  BY DEF Row
    <3> QED  BY <2>1, <3>1, <3>2 DEF AddWatch
  <2>2. CASE RemoveWatch(r)
    <3>1. [state |-> "removed", baseline |-> {}] \in Row  BY NoBaseline DEF Row
    <3> QED  BY <2>2, <3>1 DEF RemoveWatch
  <2> QED  BY <2>1, <2>2
<1>3. UNCHANGED <<vars, rescan, notified, alarms, lingered>>
  BY DEF AddWatch, RemoveWatch
<1>4. Orderly' = Orderly  BY <1>3 DEF Orderly, vars
<1>5. IInv'  BY <1>0, LockStep, LockInvariant DEF WInv
<1>6. WatchTypeOK'
  <2>1. row' \in [Watch -> Row]  BY <1>1, <1>2
  <2> QED  BY <1>3, <1>5, <2>1 DEF WInv, WatchTypeOK, IInv
<1>7. Belongs' /\ OneRescan' /\ OneAlertPerChange'
  BY <1>3, <1>4 DEF WInv, Belongs, OneRescan, OneAlertPerChange, Running, vars
<1>8. ASSUME NEW v \in Worker PROVE Sound(rescan[v])'
  <2>1. rescan[v] \in Rescan /\ Sound(rescan[v])  BY <1>1 DEF WInv
  <2>2. \A q \in rescan[v].todo \cup rescan[v].watch :
          /\ row[q].state # "new" => row'[q].state # "new"
          /\ row[q].state # "new" /\ row'[q].state = "there" => row'[q] = row[q]
    BY <1>1, <1>2, <2>1 DEF Rescan
  <2> QED  BY <1>3, <1>4, <2>1, <2>2 DEF Sound, Idle, Judged, Known, Current
<1> QED  BY <1>5, <1>6, <1>7, <1>8 DEF WInv

-----------------------------------------------------------------------------

LEMMA WatchInitially == WatchInit => WInv
<1> SUFFICES ASSUME WatchInit PROVE WInv
  OBVIOUS
<1>1. IInv  BY Initially DEF WatchInit
<1>2. \A w \in Worker : rescan[w] = Loop("none")  BY DEF WatchInit
<1>3. WatchTypeOK
  <2>1. rescan \in [Worker -> Rescan]  BY LoopTyped DEF WatchInit
  <2>2. row \in [Watch -> Row]  BY NoBaseline DEF WatchInit, Row
  <2>3. 0 \in 0 .. ALERTS  OBVIOUS
  <2> QED  BY <1>1, <2>1, <2>2, <2>3 DEF WatchInit, WatchTypeOK, IInv
<1>4. \A w \in Worker : Sound(rescan[w])  BY <1>2, LoopSound
<1>5. \A w \in Worker : ~ Running(w)
  <2>1. Loop("none").state = "none"  BY DEF Loop
  <2> QED  BY <1>2, <2>1 DEF Running
<1>6. Belongs /\ OneRescan  BY <1>5 DEF Belongs, OneRescan
<1>7. OneAlertPerChange  BY DEF WatchInit, OneAlertPerChange
<1> QED  BY <1>1, <1>3, <1>4, <1>6, <1>7 DEF WInv

LEMMA WatchStep == WInv /\ [WatchNext]_allVars => WInv'
<1> SUFFICES ASSUME WInv, [WatchNext]_allVars PROVE WInv'
  OBVIOUS
<1>1. CASE UNCHANGED allVars
  BY <1>1 DEF allVars, WInv, IInv, TypeOK, LeaderKeepsLock, OneWorkerUnlessDisturbed, UsesRedis,
     WatchTypeOK, Belongs, Running, Sound, Idle, Judged, Known, Current, Orderly, OneRescan,
     OneAlertPerChange
<1>2. CASE WatchNext
  BY <1>2, StartPreserves, LifePreserves, KeepPreserves, ListPreserves, GivesUpPreserves,
     ScanPreserves, ScanFailsPreserves, ComparePreserves, RecordPreserves, WatchersPreserve
     DEF WatchNext
<1> QED  BY <1>1, <1>2

\* The lock's own steps are all that WatchRescan does to the lock: the composed
\* system implements SchedulerLock.
THEOREM WatchKeepsLock == WatchSpec => Spec
<1>1. WatchInit => Init  BY DEF WatchInit
<1>2. [WatchNext]_allVars => [Next]_vars  BY LockStep
<1> QED  BY <1>1, <1>2, PTL DEF WatchSpec, Spec

\* Without disturbance no two workers run the scheduler, or are about to delete
\* its key, at the same time.
THEOREM OneScheduler == WatchSpec => []OneWorkerUnlessDisturbed
  BY WatchKeepsLock, Invariance, PTL DEF IInv

\* Without disturbance a refresh or a release always finds the worker's own key.
THEOREM LockOutlivesWait == WatchSpec => []LeaderKeepsLock
  BY WatchKeepsLock, Invariance, PTL DEF IInv

\* WInv holds in every reachable state.
THEOREM WatchInvariance == WatchSpec => []WInv
  BY WatchInitially, WatchStep, PTL DEF WatchSpec

\* The watches, the loops and the counts keep their types.
THEOREM WatchTypeCorrect == WatchSpec => []WatchTypeOK
  BY WatchInvariance, PTL DEF WInv

\* One process re-scans, unless Redis failed, a command was late or a stopped
\* process was still at it.
THEOREM RescansAlone == WatchSpec => []OneRescan
  BY WatchInvariance, PTL DEF WInv

\* ... and then every change for the worse is notified, once.
THEOREM AlertsAreExact == WatchSpec => []OneAlertPerChange
  BY WatchInvariance, PTL DEF WInv

=============================================================================
