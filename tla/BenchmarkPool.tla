---------------------------- MODULE BenchmarkPool ----------------------------
(***************************************************************************)
(* The benchmark tool's worker pool, benchmark/main.go: the throttle       *)
(* controller hands out work through an atomic counter and a condition     *)
(* variable, Start and Stop begin and end it through stopChan and a        *)
(* context.                                                                *)
(*                                                                         *)
(* Each Start call has a context, a controller, a metrics updater and      *)
(* workers of its own; the counter, the condition variable, stopChan, the  *)
(* flag running and the wait groups are shared.  A worker's place is the   *)
(* next thing it does.  workMutex is held only to enter or to leave Wait.  *)
(***************************************************************************)
EXTENDS Integers, Sequences

CONSTANTS Starter,      \* goroutines that call Start
          Stopper,      \* requests that call Stop
          WorkerCount,  \* config.WorkerCount
          MaxWork       \* bound: a tick at MaxWork signals and adds nothing

ASSUME BoundAssumption == WorkerCount \in Nat \ {0} /\ MaxWork \in Nat \ {0}

Worker == Starter \X (1 .. WorkerCount)

VARIABLES running,      \* bt.running
          stopped,      \* bt.stopChan is closed
          starter,      \* for each Start call: where it is
          stopper,      \* for each Stop call: where it is
          cancelled,    \* for each Start call: its context is cancelled
          controller,   \* for each Start call: where its throttle controller is
          updater,      \* for each Start call: its metrics updater is alive
          workCounter,  \* bt.workCounter
          waiters,      \* the workers in workCond.Wait, first come first
          worker,       \* for each worker: [place, current]
          owed          \* history: ticks given out less operations begun

vars == <<running, stopped, starter, stopper, cancelled, controller,
          updater, workCounter, waiters, worker, owed>>

control == <<running, stopped, starter, stopper, cancelled>>
work == <<workCounter, waiters, worker, owed>>

Init ==
    /\ running = FALSE
    /\ stopped = FALSE
    /\ starter = [s \in Starter |-> "idle"]
    /\ stopper = [t \in Stopper |-> "idle"]
    /\ cancelled = [s \in Starter |-> FALSE]
    /\ controller = [s \in Starter |-> "none"]
    /\ updater = [s \in Starter |-> FALSE]
    /\ workCounter = 0
    /\ waiters = << >>
    /\ worker = [w \in Worker |-> [place |-> "none", current |-> 0]]
    /\ owed = 0

Goto(w, place) == worker' = [worker EXCEPT ![w] = [place |-> place, current |-> 0]]
-----------------------------------------------------------------------------
(* A worker's loop: is the context done, is there work, can it be claimed? *)
Exit(w) ==
    /\ worker[w].place = "top" /\ cancelled[w[1]]
    /\ Goto(w, "none")
    /\ UNCHANGED <<control, controller, updater, workCounter, waiters, owed>>

Proceed(w) ==
    /\ worker[w].place = "top" /\ ~cancelled[w[1]]
    /\ Goto(w, "load")
    /\ UNCHANGED <<control, controller, updater, workCounter, waiters, owed>>

(* A wrong comparison: a counter of zero is taken for work.                *)
LoadZero(w) ==
    /\ worker[w].place = "load"
    /\ worker' = [worker EXCEPT ![w] =
           [place |-> IF workCounter >= 0 THEN "claim" ELSE "lock", current |-> workCounter]]
    /\ UNCHANGED <<control, controller, updater, workCounter, waiters, owed>>

Load(w) ==
    /\ worker[w].place = "load"
    /\ worker' = [worker EXCEPT ![w] =
           [place |-> IF workCounter > 0 THEN "claim" ELSE "lock", current |-> workCounter]]
    /\ UNCHANGED <<control, controller, updater, workCounter, waiters, owed>>

(* A wrong claim: a plain store instead of compare-and-swap.               *)
ClaimByStore(w) ==
    /\ worker[w].place = "claim"
    /\ workCounter' = worker[w].current - 1
    /\ owed' = owed - 1
    /\ Goto(w, "work")
    /\ UNCHANGED <<control, controller, updater, waiters>>

(* The compare-and-swap succeeds.                                          *)
Claim(w) ==
    /\ worker[w].place = "claim" /\ workCounter = worker[w].current
    /\ workCounter' = worker[w].current - 1
    /\ owed' = owed - 1
    /\ Goto(w, "work")
    /\ UNCHANGED <<control, controller, updater, waiters>>

(* It fails: the worker goes to sleep, like one that found no work.        *)
ClaimFails(w) ==
    /\ worker[w].place = "claim" /\ workCounter # worker[w].current
    /\ Goto(w, "lock")
    /\ UNCHANGED <<control, controller, updater, workCounter, waiters, owed>>

(* performWork is over; its HTTP client has a timeout, so it always is.    *)
Finish(w) ==
    /\ worker[w].place = "work"
    /\ Goto(w, "top")
    /\ UNCHANGED <<control, controller, updater, workCounter, waiters, owed>>

(* Nothing is asked again once workMutex is held.                          *)
Wait(w) ==
    /\ worker[w].place = "lock"
    /\ waiters' = Append(waiters, w)
    /\ Goto(w, "wait")
    /\ UNCHANGED <<control, controller, updater, workCounter, owed>>
-----------------------------------------------------------------------------
(* The throttle controller.  A tick that finds a new rate in the config    *)
(* only restarts the ticker, and one that finds the tool not running does  *)
(* nothing: neither changes anything here.                                 *)
Tick(s) ==
    /\ controller[s] = "tick"
    /\ running
    /\ controller' = [controller EXCEPT ![s] = "signal"]
    /\ IF workCounter < MaxWork THEN /\ workCounter' = workCounter + 1
                                     /\ owed' = owed + 1
                                ELSE UNCHANGED <<workCounter, owed>>
    /\ UNCHANGED <<control, updater, waiters, worker>>

(* A wrong Signal: it is forgotten.                                        *)
SignalNobody(s) ==
    /\ controller[s] = "signal"
    /\ controller' = [controller EXCEPT ![s] = "tick"]
    /\ UNCHANGED <<control, updater, work>>

(* Signal wakes the worker that has waited longest, if any.                *)
Signal(s) ==
    /\ controller[s] = "signal"
    /\ controller' = [controller EXCEPT ![s] = "tick"]
    /\ IF waiters = << >> THEN UNCHANGED <<waiters, worker>>
       ELSE waiters' = Tail(waiters) /\ Goto(Head(waiters), "top")
    /\ UNCHANGED <<control, updater, workCounter, owed>>

ControllerExit(s) ==
    /\ controller[s] = "tick" /\ cancelled[s]
    /\ controller' = [controller EXCEPT ![s] = "none"]
    /\ UNCHANGED <<control, updater, work>>

UpdaterExit(s) ==
    /\ updater[s] /\ cancelled[s]
    /\ updater' = [updater EXCEPT ![s] = FALSE]
    /\ UNCHANGED <<control, controller, work>>
-----------------------------------------------------------------------------
(* Start: it looks at the flag, sets it, spawns, and waits for stopChan.   *)
At(s, from, to) == starter[s] = from /\ starter' = [starter EXCEPT ![s] = to]

Check(s) ==
    /\ At(s, "idle", "set") /\ ~running
    /\ UNCHANGED <<running, stopped, stopper, cancelled, controller, updater, work>>

SetRunning(s) ==
    /\ At(s, "set", "spawn")
    /\ running' = TRUE
    /\ UNCHANGED <<stopped, stopper, cancelled, controller, updater, work>>

Spawn(s) ==
    /\ At(s, "spawn", "run")
    /\ cancelled' = [cancelled EXCEPT ![s] = FALSE]
    /\ controller' = [controller EXCEPT ![s] = "tick"]
    /\ updater' = [updater EXCEPT ![s] = TRUE]
    /\ worker' = [w \in Worker |-> IF w[1] = s THEN [place |-> "top", current |-> 0]
                                               ELSE worker[w]]
    /\ UNCHANGED <<running, stopped, stopper, workCounter, waiters, owed>>

(* A wrong end: the context is not cancelled.                              *)
NoCancel(s) ==
    /\ At(s, "run", "wait") /\ stopped
    /\ UNCHANGED <<running, stopped, stopper, cancelled, controller, updater, work>>

Cancel(s) ==
    /\ At(s, "run", "wait") /\ stopped
    /\ cancelled' = [cancelled EXCEPT ![s] = TRUE]
    /\ UNCHANGED <<running, stopped, stopper, controller, updater, work>>

(* A wrong wait: the controllers are not counted in workerWG.              *)
WaitForWorkersOnly(s) ==
    /\ At(s, "wait", "waitMetrics")
    /\ \A w \in Worker : worker[w].place = "none"
    /\ UNCHANGED <<running, stopped, stopper, cancelled, controller, updater, work>>

(* workerWG counts the workers and controllers of all Start calls.         *)
WaitForWorkers(s) ==
    /\ At(s, "wait", "waitMetrics")
    /\ \A w \in Worker : worker[w].place = "none"
    /\ \A r \in Starter : controller[r] = "none"
    /\ UNCHANGED <<running, stopped, stopper, cancelled, controller, updater, work>>

WaitForMetrics(s) ==
    /\ At(s, "waitMetrics", "clear")
    /\ \A r \in Starter : ~updater[r]
    /\ UNCHANGED <<running, stopped, stopper, cancelled, controller, updater, work>>

ClearRunning(s) ==
    /\ At(s, "clear", "idle")
    /\ running' = FALSE
    /\ UNCHANGED <<stopped, stopper, cancelled, controller, updater, work>>
-----------------------------------------------------------------------------
(* Stop: closing a closed channel panics, which net/http recovers, so that *)
(* the broadcast is skipped.                                               *)
CheckRunning(t) ==
    /\ stopper[t] = "idle" /\ running
    /\ stopper' = [stopper EXCEPT ![t] = "close"]
    /\ UNCHANGED <<running, stopped, starter, cancelled, controller, updater, work>>

Close(t) ==
    /\ stopper[t] = "close"
    /\ stopped' = TRUE
    /\ stopper' = [stopper EXCEPT ![t] = IF stopped THEN "idle" ELSE "broadcast"]
    /\ UNCHANGED <<running, starter, cancelled, controller, updater, work>>

Broadcast(t) ==
    /\ stopper[t] = "broadcast"
    /\ stopper' = [stopper EXCEPT ![t] = "idle"]
    /\ waiters' = << >>
    /\ worker' = [w \in Worker |-> IF worker[w].place = "wait"
                                   THEN [place |-> "top", current |-> 0] ELSE worker[w]]
    /\ UNCHANGED <<running, stopped, starter, cancelled, controller, updater,
                   workCounter, owed>>
-----------------------------------------------------------------------------
WorkerStep(w) ==
    Exit(w) \/ Proceed(w) \/ Load(w) \/ Claim(w) \/ ClaimFails(w) \/ Finish(w) \/ Wait(w)

Ending(s) == Cancel(s) \/ WaitForWorkers(s) \/ WaitForMetrics(s) \/ ClearRunning(s)

StopperStep(t) == Close(t) \/ Broadcast(t)

Next ==
    \/ \E w \in Worker : WorkerStep(w)
    \/ \E s \in Starter : \/ Tick(s) \/ Signal(s) \/ ControllerExit(s)
                          \/ UpdaterExit(s)
                          \/ Check(s) \/ SetRunning(s) \/ Spawn(s) \/ Ending(s)
    \/ \E t \in Stopper : CheckRunning(t) \/ StopperStep(t)

Spec == Init /\ [][Next]_vars

(* Goroutines that can run do, and the ticker fires for ever.  A select    *)
(* with a tick and a done context picks at random, hence strong fairness   *)
(* for both; a tick may meet a new rate, but not every time.               *)
Fairness ==
    /\ \A w \in Worker : WF_vars(WorkerStep(w))
    /\ \A s \in Starter : /\ SF_vars(Tick(s)) /\ WF_vars(Signal(s))
                          /\ SF_vars(ControllerExit(s)) /\ WF_vars(UpdaterExit(s))
                          /\ WF_vars(SetRunning(s) \/ Spawn(s)) /\ WF_vars(Ending(s))
    /\ \A t \in Stopper : WF_vars(StopperStep(t))

FairSpec == Spec /\ Fairness
-----------------------------------------------------------------------------
(* No claim takes the counter below zero, whatever value the worker had    *)
(* loaded, and the waiters are the workers in Wait, each once.             *)
TypeOK ==
    /\ running \in BOOLEAN /\ stopped \in BOOLEAN
    /\ starter \in [Starter -> {"idle", "set", "spawn", "run", "wait", "waitMetrics", "clear"}]
    /\ stopper \in [Stopper -> {"idle", "close", "broadcast"}]
    /\ cancelled \in [Starter -> BOOLEAN]
    /\ controller \in [Starter -> {"none", "tick", "signal"}]
    /\ updater \in [Starter -> BOOLEAN]
    /\ workCounter \in 0 .. MaxWork
    /\ worker \in [Worker -> [place : {"none", "top", "load", "claim", "work", "lock", "wait"},
                              current : 0 .. MaxWork]]
    /\ waiters \in Seq(Worker)
    /\ \A w \in Worker : (\E i \in DOMAIN waiters : waiters[i] = w) <=> worker[w].place = "wait"
    /\ \A i, j \in DOMAIN waiters : waiters[i] = waiters[j] => i = j
    /\ owed \in Int

(* Each tick is one operation, done at most once and never lost, although  *)
(* several workers read the counter before one of them claims.             *)
WorkConserved == owed = workCounter

(* A Start call that has returned leaves nothing of it running, also when  *)
(* two calls passed the check together and share the wait groups.          *)
NothingLeft ==
    \A s \in Starter : starter[s] \in {"idle", "set", "spawn"} =>
        /\ controller[s] = "none" /\ ~updater[s]
        /\ \A n \in 1 .. WorkerCount : worker[<<s, n>>].place = "none"

(* A wakeup that comes before a worker sleeps is lost, but not for good:   *)
(* while the tool runs, operations are performed again and again.          *)
WorkGoesOn ==
    <>[](~stopped /\ \E s \in Starter : starter[s] = "run")
        => []<>(\E w \in Worker : worker[w].place = "work")

(* Once Stop has closed the channel and nobody starts the tool any more,   *)
(* no operation is performed any more (even if Start never returns).       *)
LoadEnds ==
    <>[](stopped /\ \A s \in Starter : starter[s] \notin {"set", "spawn"})
        => <>[](\A w \in Worker : worker[w].place # "work")
=============================================================================
