-------------------------- MODULE WorkerControlProofs --------------------------
(***************************************************************************)
(* Theorems about WorkerControl, for any callers, intervals and number of  *)
(* starts: one worker of each kind, no closed channel closed again, a      *)
(* counter that is right, and a flag and intervals that tell the truth.    *)
(***************************************************************************)
EXTENDS WorkerControl, FiniteSetTheorems, TLAPS

LiveWorkers == {w \in Worker : Live(w)}

(* Live workers are of the last start, and wait for the channel it made.   *)
OfLastStart ==
    /\ \A w \in Worker : Live(w) => w[1] = stopWorkers
    /\ \A w \in Worker : worker[w].pc \in {"select", "tick"} => worker[w].channel = stopWorkers

(* No channel is closed before it is made; the last one is open while      *)
(* workers run and nobody is about to stop them.                           *)
Channels ==
    /\ \A n \in closed : n <= stopWorkers
    /\ running /\ holder = Nobody => stopWorkers \notin closed

(* Who waits for the workers has closed their channel; Stop leaves none    *)
(* running, and a restart makes new ones.                                  *)
Waiting ==
    \A c \in Caller : /\ call[c] = "wait" => ~running
                      /\ call[c] = "restart" => running /\ stopWorkers < MaxStarts

Counted == pending = Cardinality(LiveWorkers)

Inv == TypeOK /\ OfLastStart /\ Channels /\ Waiting /\ Counted /\ FlagAndIntervalRight
-----------------------------------------------------------------------------
(* A worker is named after its start and its kind.                         *)
LEMMA WorkerName ==
    ASSUME NEW v \in Worker, NEW w \in Worker
    PROVE  /\ v[1] \in 1 .. MaxStarts /\ v[2] \in Kind /\ v = <<v[1], v[2]>>
           /\ v[1] = w[1] /\ v[2] = w[2] => v = w
  BY DEF Worker

(* The two workers of a start.                                             *)
LEMMA PairFacts ==
    ASSUME NEW a, NEW b, a # b
    PROVE  IsFiniteSet({a, b}) /\ Cardinality({a, b}) = 2
  <1>1. IsFiniteSet({a}) /\ Cardinality({a}) = 1
    BY FS_Singleton
  <1>2. {a, b} = {a} \cup {b} /\ b \notin {a}
    OBVIOUS
  <1> QED BY <1>1, <1>2, FS_AddElement

(* There are at most two live workers: those of the last start.            *)
LEMMA LiveFinite ==
    ASSUME Inv
    PROVE  IsFiniteSet(LiveWorkers)
  <1>1. IsFiniteSet({<<stopWorkers, "health">>, <<stopWorkers, "cleanup">>})
    BY PairFacts
  <1>2. LiveWorkers \subseteq {<<stopWorkers, "health">>, <<stopWorkers, "cleanup">>}
    BY WorkerName DEF LiveWorkers, Inv, OfLastStart, Kind
  <1> QED BY <1>1, <1>2, FS_Subset

(* When the counter is zero there is no live worker.                       *)
LEMMA NoneLive ==
    ASSUME Inv, pending = 0
    PROVE  \A w \in Worker : ~Live(w)
  <1>1. LiveWorkers = {}
    BY LiveFinite, FS_EmptySet DEF Inv, Counted
  <1> QED BY <1>1 DEF LiveWorkers

(* Before the first start nothing runs and no channel is closed.           *)
LEMMA InitInv == Init => Inv
  <1> SUFFICES ASSUME Init PROVE Inv
    OBVIOUS
  <1>1. \A w \in Worker : worker[w] = [pc |-> "none", channel |-> 0, interval |-> config]
    BY DEF Init, NoWorker
  <1>2. \A w \in Worker : ~Live(w)
    BY <1>1 DEF Live
  <1>3. TypeOK
    <2>1. worker \in [Worker -> [pc : {"none", "start", "select", "tick", "done"},
                                 channel : Channel, interval : Interval]]
      BY BoundAssumption DEF Init, NoWorker, Channel
    <2>2. /\ call \in [Caller -> Method \cup {"idle", "wait", "restart"}]
          /\ \A c \in Caller : call[c] = "idle" /\ holder # c
      BY CallerAssumption DEF Init
    <2>3. stopWorkers \in Channel /\ closed \subseteq Channel /\ pending \in Int
      BY BoundAssumption DEF Init, Channel
    <2> QED BY <2>1, <2>2, <2>3 DEF Init, TypeOK
  <1>4. LiveWorkers = {}
    BY <1>2 DEF LiveWorkers
  <1>5. Counted
    BY <1>4, FS_EmptySet DEF Init, Counted
  <1> QED BY <1>1, <1>2, <1>3, <1>5
          DEF Init, Inv, OfLastStart, Channels, Waiting, FlagAndIntervalRight
-----------------------------------------------------------------------------
(* A call that begins, or that finds nothing to do.                        *)
LEMMA CallOK ==
    ASSUME Inv, NEW c \in Caller, NEW m \in Method, Call(c, m)
    PROVE  Inv'
  <1>1. TypeOK'
    BY CallerAssumption DEF Inv, TypeOK, Call, Method
  <1>2. LiveWorkers' = LiveWorkers
    BY DEF Call, LiveWorkers, Live
  <1> QED BY <1>1, <1>2 DEF Inv, TypeOK, Call, Method, OfLastStart, Channels, Waiting, Counted,
                            FlagAndIntervalRight, Live

(* Stop without running workers.                                           *)
LEMMA StopNothingOK ==
    ASSUME Inv, NEW c \in Caller, StopNothing(c)
    PROVE  Inv'
  <1>1. TypeOK'
    BY CallerAssumption DEF Inv, TypeOK, StopNothing, Method
  <1>2. LiveWorkers' = LiveWorkers
    BY DEF StopNothing, LiveWorkers, Live
  <1> QED BY <1>1, <1>2 DEF Inv, TypeOK, StopNothing, OfLastStart, Channels, Waiting, Counted,
                            FlagAndIntervalRight, Live

(* Stop and Update that lock and close the channel; the workers still run. *)
LEMMA CloseOK ==
    ASSUME Inv, NEW c \in Caller, StopWorkers(c) \/ \E i \in Interval : UpdateAndStop(c, i)
    PROVE  Inv'
  <1>1. /\ running /\ holder = Nobody /\ holder' = c /\ call[c] \in {"stop", "update"}
        /\ closed' = closed \cup {stopWorkers} /\ UNCHANGED <<stopWorkers, pending, worker>>
        /\ config' \in Interval
    BY DEF Inv, TypeOK, StopWorkers, UpdateAndStop, Lock
  <1>2. \/ call' = [call EXCEPT ![c] = "wait"] /\ running' = FALSE
        \/ call' = [call EXCEPT ![c] = "restart"] /\ running' = running /\ stopWorkers < MaxStarts
    BY DEF StopWorkers, UpdateAndStop
  <1>3. \A d \in Caller : call[d] \notin {"wait", "restart"}
    BY <1>1, CallerAssumption DEF Inv, TypeOK
  <1>4. /\ call' \in [Caller -> Method \cup {"idle", "wait", "restart"}]
        /\ \A d \in Caller : call'[d] = IF d = c THEN call'[c] ELSE call[d]
        /\ call'[c] \in {"wait", "restart"}
    BY <1>2 DEF Inv, TypeOK
  <1>5. TypeOK'
    <2>1. \A d \in Caller : call'[d] \in {"wait", "restart"} <=> holder' = d
      BY <1>1, <1>3, <1>4
    <2>2. running' \in BOOLEAN /\ closed' \subseteq Channel
      BY <1>1, <1>2 DEF Inv, TypeOK
    <2> QED BY <1>1, <1>4, <2>1, <2>2 DEF Inv, TypeOK
  <1>6. LiveWorkers' = LiveWorkers
    BY <1>1 DEF LiveWorkers, Live
  <1>7. Counted' /\ OfLastStart'
    BY <1>1, <1>6 DEF Inv, Counted, OfLastStart, Live
  <1>8. Channels' /\ FlagAndIntervalRight'
    BY <1>1, CallerAssumption DEF Inv, TypeOK, Channel, Channels, FlagAndIntervalRight
  <1>9. Waiting'
    BY <1>1, <1>2, <1>3, <1>4 DEF Waiting
  <1> QED BY <1>5, <1>7, <1>8, <1>9 DEF Inv

(* The end of Stop: the counter is zero and the lock is given back.        *)
LEMMA WaitDoneOK ==
    ASSUME Inv, NEW c \in Caller, WaitDone(c)
    PROVE  Inv'
  <1>1. /\ call[c] = "wait" /\ holder = c /\ ~running
        /\ holder' = Nobody /\ call' = [call EXCEPT ![c] = "idle"]
        /\ UNCHANGED <<running, config, stopWorkers, closed, pending, worker>>
    BY DEF Inv, TypeOK, Waiting, WaitDone, Return
  <1>2. \A w \in Worker : ~Live(w)
    BY NoneLive DEF WaitDone
  <1>3. \A d \in Caller : d # c => call[d] \notin {"wait", "restart"}
    BY <1>1 DEF Inv, TypeOK
  <1>4. TypeOK'
    BY <1>1, <1>3, CallerAssumption DEF Inv, TypeOK
  <1>5. LiveWorkers' = LiveWorkers
    BY <1>1 DEF LiveWorkers, Live
  <1>6. FlagAndIntervalRight'
    BY <1>1, <1>2 DEF FlagAndIntervalRight, Live
  <1> QED BY <1>1, <1>3, <1>4, <1>5, <1>6
          DEF Inv, TypeOK, OfLastStart, Channels, Waiting, Counted, Live

(* UpdateConfig that restarts nothing: the interval stays or no worker runs.*)
LEMMA UpdateInPlaceOK ==
    ASSUME Inv, NEW c \in Caller, NEW i \in Interval, UpdateInPlace(c, i)
    PROVE  Inv'
  <1>1. /\ call[c] = "update" /\ holder = Nobody /\ config' = i /\ (i = config \/ ~running)
        /\ call' = [call EXCEPT ![c] = "idle"]
        /\ UNCHANGED <<holder, running, stopWorkers, closed, pending, worker>>
    BY DEF UpdateInPlace
  <1>2. TypeOK'
    BY <1>1, CallerAssumption DEF Inv, TypeOK
  <1>3. LiveWorkers' = LiveWorkers
    BY <1>1 DEF LiveWorkers, Live
  <1>4. FlagAndIntervalRight'
    BY <1>1 DEF Inv, FlagAndIntervalRight, Live
  <1> QED BY <1>1, <1>2, <1>3, <1>4
          DEF Inv, TypeOK, OfLastStart, Channels, Waiting, Counted, Live
-----------------------------------------------------------------------------
(* A start: when no worker lives, the two new ones are all that do.        *)
LEMMA SpawnOK ==
    ASSUME Inv, Spawn, stopWorkers < MaxStarts, \A w \in Worker : ~Live(w),
           UNCHANGED <<config, closed>>, running' = TRUE, TypeOK', Waiting'
    PROVE  Inv'
  <1> DEFINE n == stopWorkers + 1
             new == {<<n, "health">>, <<n, "cleanup">>}
  <1>1. /\ stopWorkers \in 0 .. MaxStarts /\ stopWorkers' = n /\ n \in 1 .. MaxStarts
        /\ pending' = pending + 2
        /\ worker' = [w \in Worker |-> IF w[1] = n THEN [worker[w] EXCEPT !.pc = "start"]
                                                   ELSE worker[w]]
    BY BoundAssumption DEF Inv, TypeOK, Channel, Spawn
  <1>2. \A w \in Worker : IF w[1] = n THEN worker'[w].pc = "start" ELSE worker'[w] = worker[w]
    BY <1>1 DEF Inv, TypeOK
  <1>3. \A w \in Worker : Live(w)' <=> w[1] = n
    BY <1>2 DEF Live
  <1>4. \A w \in Worker : worker'[w].pc \notin {"select", "tick"}
    BY <1>2 DEF Live
  <1>5. LiveWorkers' = new
    <2>1. LiveWorkers' \subseteq new
      BY <1>3, WorkerName DEF LiveWorkers, Kind
    <2>2. new \subseteq Worker /\ \A w \in new : w[1] = n
      BY <1>1 DEF Worker, Kind
    <2> HIDE DEF new, n
    <2>3. new \subseteq LiveWorkers'
      BY <1>3, <2>2 DEF LiveWorkers
    <2> QED BY <2>1, <2>3
  <1>6. Counted'
    <2>1. LiveWorkers = {}
      BY DEF LiveWorkers
    <2>2. pending = 0
      BY <2>1, FS_EmptySet DEF Inv, Counted
    <2>3. Cardinality(new) = 2
      BY PairFacts
    <2> HIDE DEF new
    <2> QED BY <1>1, <1>5, <2>2, <2>3 DEF Counted
  <1>7. OfLastStart' /\ FlagAndIntervalRight'
    BY <1>1, <1>3, <1>4 DEF OfLastStart, FlagAndIntervalRight
  <1>8. Channels'
    BY <1>1 DEF Inv, TypeOK, Channel, Channels
  <1> QED BY <1>6, <1>7, <1>8 DEF Inv

(* A start stays within the types.                                         *)
LEMMA SpawnType ==
    ASSUME Inv, Spawn, stopWorkers < MaxStarts
    PROVE  /\ stopWorkers' \in Channel /\ pending' \in Int
           /\ worker' \in [Worker -> [pc : {"none", "start", "select", "tick", "done"},
                                      channel : Channel, interval : Interval]]
  BY BoundAssumption DEF Inv, TypeOK, Spawn, Channel

(* StartWorkers: when nothing runs, both workers of the start are new.     *)
LEMMA StartWorkersOK ==
    ASSUME Inv, NEW c \in Caller, StartWorkers(c)
    PROVE  Inv'
  <1>1. /\ call[c] = "start" /\ holder = Nobody /\ call' = [call EXCEPT ![c] = "idle"]
        /\ UNCHANGED <<holder, config, closed>>
    BY DEF StartWorkers
  <1>2. /\ call' \in [Caller -> Method \cup {"idle", "wait", "restart"}]
        /\ \A d \in Caller : call'[d] \notin {"wait", "restart"} /\ holder' # d
    BY <1>1, CallerAssumption DEF Inv, TypeOK
  <1>3. CASE running
    <2>1. UNCHANGED <<running, stopWorkers, pending, worker>>
      BY <1>3 DEF StartWorkers
    <2>2. TypeOK'
      BY <1>1, <1>2, <2>1 DEF Inv, TypeOK
    <2>3. LiveWorkers' = LiveWorkers
      BY <2>1 DEF LiveWorkers, Live
    <2> QED BY <1>1, <1>2, <2>1, <2>2, <2>3
            DEF Inv, OfLastStart, Channels, Waiting, Counted, FlagAndIntervalRight, Live
  <1>4. CASE ~running
    <2>1. Spawn /\ stopWorkers < MaxStarts /\ running' = TRUE
      BY <1>4 DEF StartWorkers
    <2>2. TypeOK'
      BY <1>1, <1>2, <2>1, SpawnType DEF Inv, TypeOK
    <2>3. Waiting'
      BY <1>2 DEF Waiting
    <2>4. \A w \in Worker : ~Live(w)
      BY <1>1, <1>4 DEF Inv, FlagAndIntervalRight
    <2> QED BY <1>1, <2>1, <2>2, <2>3, <2>4, SpawnOK
  <1> QED BY <1>3, <1>4

(* The end of UpdateConfig: the counter is zero and the workers are new.   *)
LEMMA RestartOK ==
    ASSUME Inv, NEW c \in Caller, Restart(c)
    PROVE  Inv'
  <1>1. /\ call[c] = "restart" /\ holder = c /\ running /\ stopWorkers < MaxStarts
        /\ holder' = Nobody /\ call' = [call EXCEPT ![c] = "idle"]
        /\ Spawn /\ UNCHANGED <<running, config, closed>>
    BY DEF Inv, TypeOK, Waiting, Restart, Return
  <1>2. /\ call' \in [Caller -> Method \cup {"idle", "wait", "restart"}]
        /\ \A d \in Caller : call'[d] \notin {"wait", "restart"} /\ holder' # d
    BY <1>1, CallerAssumption DEF Inv, TypeOK
  <1>3. TypeOK' /\ running' = TRUE
    BY <1>1, <1>2, SpawnType DEF Inv, TypeOK
  <1>4. Waiting'
    BY <1>2 DEF Waiting
  <1>5. \A w \in Worker : ~Live(w)
    BY NoneLive DEF Restart
  <1> QED BY <1>1, <1>3, <1>4, <1>5, SpawnOK
-----------------------------------------------------------------------------
(* A step of a live worker that goes on.                                   *)
LEMMA WorkerGoesOn ==
    ASSUME Inv, NEW w \in Worker, Live(w),
           \/ Begin(w) \/ HealthTick(w) \/ CleanupTick(w) \/ CleanupSweep(w)
    PROVE  Inv'
  <1>1. UNCHANGED <<holder, call, running, config, stopWorkers, closed, pending>>
    BY DEF Begin, HealthTick, CleanupTick, CleanupSweep
  <1>2. /\ worker' \in [Worker -> [pc : {"none", "start", "select", "tick", "done"},
                                   channel : Channel, interval : Interval]]
        /\ \A v \in Worker \ {w} : worker'[v] = worker[v]
        /\ worker'[w].pc \in {"select", "tick"}
        /\ worker'[w].channel = stopWorkers
        /\ holder = Nobody => worker'[w].interval = config
    BY DEF Inv, TypeOK, OfLastStart, FlagAndIntervalRight, Begin, HealthTick, CleanupTick,
           CleanupSweep, EnterSelect
  <1>3. TypeOK'
    BY <1>1, <1>2 DEF Inv, TypeOK
  <1>4. \A v \in Worker : Live(v)' <=> Live(v)
    BY <1>2 DEF Live
  <1>5. LiveWorkers' = LiveWorkers
    BY <1>4 DEF LiveWorkers
  <1>6. OfLastStart' /\ FlagAndIntervalRight'
    BY <1>1, <1>2, <1>4 DEF Inv, OfLastStart, FlagAndIntervalRight
  <1> QED BY <1>1, <1>3, <1>5, <1>6 DEF Inv, Channels, Waiting, Counted

(* A worker that sees its channel closed: someone waits with the lock.     *)
LEMMA ExitOK ==
    ASSUME Inv, NEW w \in Worker, Exit(w)
    PROVE  Inv'
  <1>1. /\ Live(w) /\ worker[w].channel \in closed /\ worker[w].channel = stopWorkers
        /\ worker' = [worker EXCEPT ![w].pc = "done"] /\ pending' = pending - 1
        /\ UNCHANGED <<holder, call, running, config, stopWorkers, closed>>
    BY DEF Inv, OfLastStart, Live, Exit
  <1>2. holder # Nobody
    BY <1>1 DEF Inv, FlagAndIntervalRight, Channels
  <1>3. /\ worker' \in [Worker -> [pc : {"none", "start", "select", "tick", "done"},
                                   channel : Channel, interval : Interval]]
        /\ \A v \in Worker \ {w} : worker'[v] = worker[v]
        /\ worker'[w].pc = "done"
    BY <1>1 DEF Inv, TypeOK
  <1>4. TypeOK'
    BY <1>1, <1>3 DEF Inv, TypeOK
  <1>5. \A v \in Worker : Live(v)' <=> Live(v) /\ v # w
    BY <1>3 DEF Live
  <1>6. LiveWorkers' = LiveWorkers \ {w} /\ w \in LiveWorkers
    BY <1>1, <1>5 DEF LiveWorkers
  <1>7. Counted'
    BY <1>1, <1>6, LiveFinite, FS_RemoveElement DEF Inv, Counted
  <1>8. OfLastStart'
    BY <1>1, <1>3, <1>5 DEF Inv, OfLastStart
  <1>9. FlagAndIntervalRight'
    BY <1>1, <1>2 DEF FlagAndIntervalRight
  <1> QED BY <1>1, <1>4, <1>7, <1>8, <1>9 DEF Inv, Channels, Waiting

(* Every step keeps the invariant.                                         *)
LEMMA NextInv ==
    ASSUME Inv, [Next]_vars
    PROVE  Inv'
  <1>1. CASE \E c \in Caller : CallerStep(c)
    BY <1>1, StartWorkersOK, CloseOK, StopNothingOK, WaitDoneOK, UpdateInPlaceOK, RestartOK
       DEF CallerStep
  <1>2. CASE \E c \in Caller, m \in Method : Call(c, m)
    BY <1>2, CallOK
  <1>3. CASE \E w \in Worker : WorkerStep(w)
    <2>1. PICK w \in Worker : WorkerStep(w)
      BY <1>3
    <2>2. Live(w)
      BY <2>1 DEF WorkerStep, Begin, HealthTick, CleanupTick, CleanupSweep, Exit, Live
    <2> QED BY <2>1, <2>2, WorkerGoesOn, ExitOK DEF WorkerStep
  <1>4. CASE UNCHANGED vars
    <2>1. LiveWorkers' = LiveWorkers
      BY <1>4 DEF vars, LiveWorkers, Live
    <2> QED BY <1>4, <2>1 DEF vars, Inv, TypeOK, OfLastStart, Channels, Waiting, Counted,
                              FlagAndIntervalRight, Live
  <1> QED BY <1>1, <1>2, <1>3, <1>4 DEF Next

(* The inductive invariant holds always.                                   *)
LEMMA Invariant == Spec => []Inv
  BY InitInv, NextInv, PTL DEF Spec
-----------------------------------------------------------------------------
(* The lock is held exactly by the caller that waits for the workers.      *)
THEOREM TypeCorrect == Spec => []TypeOK
  <1>1. Inv => TypeOK
    BY DEF Inv
  <1> QED BY Invariant, <1>1, PTL

(* Whatever the callers interleave, a restart leaves no old worker beside  *)
(* the new one.                                                            *)
THEOREM OneWorkerOfEachKind == Spec => []OneOfEachKind
  <1>1. Inv => OneOfEachKind
    BY WorkerName DEF Inv, OfLastStart, OneOfEachKind
  <1> QED BY Invariant, <1>1, PTL

(* No close of a closed channel, and no negative counter of workerWG: the  *)
(* two ways these methods could panic.                                     *)
THEOREM NeverPanics == Spec => []NoPanic
  <1>1. Inv => NoPanic
    BY DEF Inv, Channels, Counted, LiveWorkers, NoPanic
  <1> QED BY Invariant, <1>1, PTL

(* While nobody waits for the workers, workersRunning tells whether they   *)
(* live, and those that have read their interval use the configured one.   *)
THEOREM FlagAndIntervalAlwaysRight == Spec => []FlagAndIntervalRight
  <1>1. Inv => FlagAndIntervalRight
    BY DEF Inv
  <1> QED BY Invariant, <1>1, PTL
=============================================================================
