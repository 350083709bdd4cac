---------------------------- MODULE WorkerControl ----------------------------
(***************************************************************************)
(* How shared/client_manager.go starts, stops and reconfigures its two     *)
(* background workers: workersMutex, workerWG and the channel stopWorkers. *)
(*                                                                         *)
(* A channel is the number of the make() call that created it.  Each start *)
(* makes one channel and two workers, which are named after it.            *)
(*                                                                         *)
(* A section under workersMutex.RLock only copies a field of the config;   *)
(* it is one step, enabled when no writer holds the lock.                  *)
(***************************************************************************)
EXTENDS Integers, FiniteSets

CONSTANTS Caller,      \* threads that call StartWorkers and the like
          Nobody,      \* the holder of a free lock
          Interval,    \* values of HealthCheckInterval and CleanupInterval
          MaxStarts    \* bound: how often workers are started

ASSUME CallerAssumption == Nobody \notin Caller
ASSUME BoundAssumption == MaxStarts \in Nat

Kind == {"health", "cleanup"}
Channel == 0 .. MaxStarts
Worker == (1 .. MaxStarts) \X Kind

VARIABLES holder,       \* the caller that holds workersMutex.Lock, or Nobody
          call,         \* for each caller: where it is in which method
          running,      \* cm.workersRunning
          config,       \* cm.config's interval (one for both workers)
          stopWorkers,  \* the channel in cm.stopWorkers
          closed,       \* the channels that are closed
          pending,      \* the counter of cm.workerWG
          worker        \* for each worker: where it is, its select's channel, its interval

vars == <<holder, call, running, config, stopWorkers, closed, pending, worker>>

NoWorker(i) == [pc |-> "none", channel |-> 0, interval |-> i]

Init == /\ holder = Nobody
        /\ call = [c \in Caller |-> "idle"]
        /\ running = FALSE
        /\ config \in Interval
        /\ stopWorkers = 0
        /\ closed = {}
        /\ pending = 0
        /\ worker = [w \in Worker |-> NoWorker(config)]
-----------------------------------------------------------------------------
(* Callers.  Each method takes the write lock and holds it to its end.     *)
Method == {"start", "stop", "update"}

Call(c, method) ==
    /\ call[c] = "idle"
    /\ call' = [call EXCEPT ![c] = method]
    /\ UNCHANGED <<holder, running, config, stopWorkers, closed, pending, worker>>

Lock(c, method) ==
    /\ call[c] = method
    /\ holder = Nobody
    /\ holder' = c

Return(c) ==
    /\ holder' = Nobody
    /\ call' = [call EXCEPT ![c] = "idle"]

(* A new channel, Add(2) and the two go statements.                        *)
Spawn ==
    LET n == stopWorkers + 1 IN
    /\ stopWorkers' = n
    /\ pending' = pending + 2
    /\ worker' = [w \in Worker |-> IF w[1] = n THEN [worker[w] EXCEPT !.pc = "start"]
                                               ELSE worker[w]]

(* StartWorkers does not block once it has the lock: one step.             *)
StartWorkers(c) ==
    /\ call[c] = "start" /\ holder = Nobody
    /\ IF running
       THEN UNCHANGED <<running, stopWorkers, pending, worker>>
       ELSE stopWorkers < MaxStarts /\ Spawn /\ running' = TRUE
    /\ call' = [call EXCEPT ![c] = "idle"]
    /\ UNCHANGED <<holder, config, closed>>

(* A wrong StopWorkers: workersRunning stays TRUE.                         *)
StopWorkersKeepsFlag(c) ==
    /\ Lock(c, "stop")
    /\ running
    /\ closed' = closed \cup {stopWorkers}
    /\ call' = [call EXCEPT ![c] = "wait"]
    /\ UNCHANGED <<running, config, stopWorkers, pending, worker>>

(* StopWorkers closes the channel and waits, with the lock.                *)
StopWorkers(c) ==
    /\ Lock(c, "stop")
    /\ running
    /\ closed' = closed \cup {stopWorkers}
    /\ running' = FALSE
    /\ call' = [call EXCEPT ![c] = "wait"]
    /\ UNCHANGED <<config, stopWorkers, pending, worker>>

StopNothing(c) ==
    /\ call[c] = "stop" /\ holder = Nobody
    /\ ~running
    /\ call' = [call EXCEPT ![c] = "idle"]
    /\ UNCHANGED <<holder, running, config, stopWorkers, closed, pending, worker>>

(* A wrong return: the lock is not released.                               *)
WaitDoneKeepsLock(c) ==
    /\ call[c] = "wait"
    /\ pending = 0
    /\ call' = [call EXCEPT ![c] = "idle"]
    /\ UNCHANGED <<holder, running, config, stopWorkers, closed, pending, worker>>

WaitDone(c) ==
    /\ call[c] = "wait"
    /\ pending = 0
    /\ Return(c)
    /\ UNCHANGED <<running, config, stopWorkers, closed, pending, worker>>

(* A wrong UpdateConfig: running workers keep their old interval.          *)
UpdateNeverRestarts(c, i) ==
    /\ call[c] = "update" /\ holder = Nobody
    /\ config' = i
    /\ call' = [call EXCEPT ![c] = "idle"]
    /\ UNCHANGED <<holder, running, stopWorkers, closed, pending, worker>>

(* UpdateConfig restarts running workers if an interval changed.           *)
UpdateInPlace(c, i) ==
    /\ call[c] = "update" /\ holder = Nobody
    /\ config' = i
    /\ i = config \/ ~running
    /\ call' = [call EXCEPT ![c] = "idle"]
    /\ UNCHANGED <<holder, running, stopWorkers, closed, pending, worker>>

UpdateAndStop(c, i) ==
    /\ Lock(c, "update")
    /\ config' = i
    /\ i # config /\ running
    /\ stopWorkers < MaxStarts
    /\ closed' = closed \cup {stopWorkers}
    /\ call' = [call EXCEPT ![c] = "restart"]
    /\ UNCHANGED <<running, stopWorkers, pending, worker>>

(* A wrong restart: the old workers are not waited for.                    *)
RestartWithoutWait(c) ==
    /\ call[c] = "restart"
    /\ Spawn
    /\ Return(c)
    /\ UNCHANGED <<running, config, closed>>

Restart(c) ==
    /\ call[c] = "restart"
    /\ pending = 0
    /\ Spawn
    /\ Return(c)
    /\ UNCHANGED <<running, config, closed>>
-----------------------------------------------------------------------------
(* Workers.  A select evaluates cm.stopWorkers when it is entered.         *)
EnterSelect(w) ==
    worker' = [worker EXCEPT ![w].pc = "select", ![w].channel = stopWorkers]

(* The first lines of a worker: copy the interval under RLock.             *)
Begin(w) ==
    /\ worker[w].pc = "start"
    /\ holder = Nobody
    /\ worker' = [worker EXCEPT ![w].pc = "select", ![w].channel = stopWorkers,
                                ![w].interval = config]
    /\ UNCHANGED <<holder, call, running, config, stopWorkers, closed, pending>>

(* healthCheckWorker's tick starts a goroutine and takes no lock.          *)
HealthTick(w) ==
    /\ worker[w].pc = "select" /\ w[2] = "health"
    /\ EnterSelect(w)
    /\ UNCHANGED <<holder, call, running, config, stopWorkers, closed, pending>>

(* cleanupWorker's tick takes RLock for config.MaxAge, then sweeps.        *)
CleanupTick(w) ==
    /\ worker[w].pc = "select" /\ w[2] = "cleanup"
    /\ worker' = [worker EXCEPT ![w].pc = "tick"]
    /\ UNCHANGED <<holder, call, running, config, stopWorkers, closed, pending>>

CleanupSweep(w) ==
    /\ worker[w].pc = "tick"
    /\ holder = Nobody
    /\ EnterSelect(w)
    /\ UNCHANGED <<holder, call, running, config, stopWorkers, closed, pending>>

(* The select sees the closed channel: return, with the deferred Done().   *)
Exit(w) ==
    /\ worker[w].pc = "select"
    /\ worker[w].channel \in closed
    /\ worker' = [worker EXCEPT ![w].pc = "done"]
    /\ pending' = pending - 1
    /\ UNCHANGED <<holder, call, running, config, stopWorkers, closed>>

CallerStep(c) ==
    \/ StartWorkers(c) \/ StopWorkers(c) \/ StopNothing(c) \/ WaitDone(c)
    \/ \E i \in Interval : UpdateInPlace(c, i) \/ UpdateAndStop(c, i)
    \/ Restart(c)

WorkerStep(w) ==
    Begin(w) \/ HealthTick(w) \/ CleanupTick(w) \/ CleanupSweep(w) \/ Exit(w)

Next ==
    \/ \E c \in Caller : CallerStep(c) \/ \E m \in Method : Call(c, m)
    \/ \E w \in Worker : WorkerStep(w)

Spec == Init /\ [][Next]_vars

(* The mutex is fair, workers run, and a select whose stop channel is      *)
(* closed picks it at random sooner or later.                              *)
Fairness ==
    /\ \A c \in Caller : SF_vars(CallerStep(c))
    /\ \A w \in Worker : SF_vars(Begin(w) \/ CleanupSweep(w)) /\ SF_vars(Exit(w))

FairSpec == Spec /\ Fairness
-----------------------------------------------------------------------------
(* The lock is held exactly by the caller that waits for the workers.      *)
TypeOK ==
    /\ holder \in Caller \cup {Nobody}
    /\ call \in [Caller -> Method \cup {"idle", "wait", "restart"}]
    /\ \A c \in Caller : call[c] \in {"wait", "restart"} <=> holder = c
    /\ running \in BOOLEAN
    /\ config \in Interval
    /\ stopWorkers \in Channel
    /\ closed \subseteq Channel
    /\ pending \in Int
    /\ worker \in [Worker -> [pc : {"none", "start", "select", "tick", "done"},
                              channel : Channel, interval : Interval]]

Live(w) == worker[w].pc \in {"start", "select", "tick"}

(* At most one worker of each kind lives, whatever the callers interleave: *)
(* a restart never leaves an old worker beside the new one.                *)
OneOfEachKind == \A v, w \in Worker : Live(v) /\ Live(w) /\ v[2] = w[2] => v = w

(* Nobody closes a closed channel (a panic), and workerWG's counter is the *)
(* number of live workers, so that it never goes below zero (a panic).     *)
NoPanic ==
    /\ running /\ holder = Nobody => stopWorkers \notin closed
    /\ pending = Cardinality({w \in Worker : Live(w)})

(* While no method is under way, workersRunning tells the truth, and the   *)
(* workers that have read their interval use the configured one.           *)
FlagAndIntervalRight ==
    holder = Nobody =>
        /\ \A w \in Worker : Live(w) <=> running /\ w[1] = stopWorkers
        /\ \A w \in Worker : worker[w].pc \in {"select", "tick"}
                                => worker[w].interval = config

(* StopWorkers stops the workers and returns (its comment).                *)
StopReturns == \A c \in Caller : (call[c] = "wait") ~> (call[c] = "idle")
=============================================================================
