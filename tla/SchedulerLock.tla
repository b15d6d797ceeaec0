---------------------------- MODULE SchedulerLock ----------------------------
(***************************************************************************)
(* The Redis lock that decides which uvicorn worker runs the background    *)
(* scheduler (src/jobs/scheduler.py, started and stopped by src/main.py).  *)
(*                                                                         *)
(* A worker asks once, when it starts: SET key "1" NX EX ttl.  Who gets the*)
(* key starts its jobs and a task that extends the key's life every        *)
(* LOCK_REFRESH seconds; who does not get it never asks again.  The key    *)
(* carries no owner: EXPIRE and DELETE work on whatever key is there.  If  *)
(* Redis fails at start the worker runs the scheduler without the key.     *)
(*                                                                         *)
(* Time advances in units; lock counts down what is left of the key's life,*)
(* due[w] what is left until worker w's next command to Redis must be out. *)
(***************************************************************************)
EXTENDS Integers

CONSTANTS
  Worker,         \* the uvicorn workers of one deployment
  LOCK_TTL,       \* SCHEDULER_LOCK_TTL, in units of time
  LOCK_REFRESH,   \* SCHEDULER_LOCK_REFRESH
  Faults          \* "redis": Redis fails or forgets, "stall": event loops stall

\* "refresh interval (must be < TTL)" (scheduler.py:52).
ASSUME IntervalAssumption ==
  /\ LOCK_TTL \in Nat
  /\ LOCK_REFRESH \in Nat
  /\ 0 < LOCK_REFRESH
  /\ LOCK_REFRESH < LOCK_TTL

ASSUME FaultsAssumption == Faults \subseteq {"redis", "stall"}

VARIABLES
  lock,        \* 0 if there is no key, otherwise its remaining life
  scheduler,   \* what each worker's scheduler is doing
  due,         \* time left until the worker's next command to Redis
  disturbed    \* history: has a command failed or been late, or the key lost?

vars == <<lock, scheduler, due, disturbed>>

\* "off" serves requests and runs no jobs, "stopping" has cancelled its jobs
\* and has yet to delete the key.
SchedulerState == {"down", "off", "on", "stopping"}

TypeOK ==
  /\ lock \in 0 .. LOCK_TTL
  /\ scheduler \in [Worker -> SchedulerState]
  /\ due \in [Worker -> 0 .. LOCK_REFRESH]
  /\ disturbed \in BOOLEAN

Init ==
  /\ lock = 0
  /\ scheduler = [w \in Worker |-> "down"]
  /\ due = [w \in Worker |-> 0]
  /\ disturbed = FALSE

Become(w, s) == scheduler' = [scheduler EXCEPT ![w] = s]

Rearm_AtExpiry(w) == due' = [due EXCEPT ![w] = LOCK_TTL]

Rearm(w) == due' = [due EXCEPT ![w] = LOCK_REFRESH]

-----------------------------------------------------------------------------

Acquired_WithoutNx == TRUE

\* SET ... NX finds no key.
Acquired == lock = 0

StartAndAcquire(w) ==
  /\ scheduler[w] = "down"
  /\ Acquired
  /\ lock' = LOCK_TTL
  /\ Become(w, "on")
  /\ Rearm(w)
  /\ UNCHANGED disturbed

StartAndSkip(w) ==
  /\ scheduler[w] = "down"
  /\ ~ Acquired
  /\ Become(w, "off")
  /\ UNCHANGED <<lock, due, disturbed>>

\* The "single-worker fallback".  SET may have taken effect although its answer
\* was lost.
StartWithoutRedis(w) ==
  /\ "redis" \in Faults
  /\ scheduler[w] = "down"
  /\ lock' \in {lock, IF lock = 0 THEN LOCK_TTL ELSE lock}
  /\ Become(w, "on")
  /\ Rearm(w)
  /\ disturbed' = TRUE

\* EXPIRE leaves a missing key missing.
Extended == IF lock = 0 THEN 0 ELSE LOCK_TTL

Refresh(w) ==
  /\ scheduler[w] = "on"
  /\ due[w] = 0
  /\ lock' = Extended
  /\ Rearm(w)
  /\ UNCHANGED <<scheduler, disturbed>>

RefreshFails(w) ==
  /\ "redis" \in Faults
  /\ scheduler[w] = "on"
  /\ due[w] = 0
  /\ Rearm(w)
  /\ disturbed' = TRUE
  /\ UNCHANGED <<lock, scheduler>>

\* Redis restarts without the key, or evicts it.
LoseKey ==
  /\ "redis" \in Faults
  /\ lock > 0
  /\ lock' = 0
  /\ disturbed' = TRUE
  /\ UNCHANGED <<scheduler, due>>

\* stop_scheduler cancels all tasks; the refresh task's handler of the
\* cancellation then deletes the key.
Stop(w) ==
  /\ scheduler[w] = "on"
  /\ Become(w, "stopping")
  /\ UNCHANGED <<lock, due, disturbed>>

Release(w) ==
  /\ scheduler[w] = "stopping"
  /\ lock' = 0
  /\ Become(w, "down")
  /\ UNCHANGED <<due, disturbed>>

\* The process is gone: killed, or its event loop closed before the DELETE was
\* sent, or it ran no scheduler and stopped.
Die(w) ==
  /\ scheduler[w] # "down"
  /\ Become(w, "down")
  /\ UNCHANGED <<lock, due, disturbed>>

UsesRedis(w) == scheduler[w] \in {"on", "stopping"}

OnTime == \A w \in Worker : UsesRedis(w) => due[w] > 0

Elapse(n) == IF n = 0 THEN 0 ELSE n - 1

\* SET without EX.
LifeLeft_Forever == lock

LifeLeft == Elapse(lock)

\* A unit of time passes.  A stalled event loop lets its command wait.
Tick ==
  /\ OnTime \/ "stall" \in Faults
  /\ lock' = LifeLeft
  /\ due' = [w \in Worker |-> Elapse(due[w])]
  /\ disturbed' = (disturbed \/ ~ OnTime)
  /\ UNCHANGED scheduler

Next ==
  \/ \E w \in Worker :
       \/ StartAndAcquire(w) \/ StartAndSkip(w) \/ StartWithoutRedis(w)
       \/ Refresh(w) \/ RefreshFails(w)
       \/ Stop(w) \/ Release(w) \/ Die(w)
  \/ LoseKey
  \/ Tick

Spec == Init /\ [][Next]_vars

-----------------------------------------------------------------------------

\* As long as Redis keeps the key and every start, refresh and release reached
\* it in time, one worker at most runs the jobs or is about to delete the key,
\* over any number of crashes, restarts and handovers.
OneWorkerUnlessDisturbed ==
  ~ disturbed =>
    \A v, w \in Worker : (UsesRedis(v) /\ UsesRedis(w)) => v = w

\* ... and then the key outlives the wait for the next refresh, so that a
\* worker that starts in the meantime finds it, and the DELETE of a worker that
\* stops takes away its own key.
LeaderKeepsLock ==
  ~ disturbed => \A w \in Worker : UsesRedis(w) => lock > due[w]

\* "auto-expires if worker dies" (scheduler.py:51): a key nobody runs a
\* scheduler for does not stay.
OrphanedLockExpires ==
  (lock > 0 /\ \A w \in Worker : scheduler[w] \in {"down", "off"})
    ~> (lock = 0 \/ \E w \in Worker : scheduler[w] = "on")

=============================================================================
