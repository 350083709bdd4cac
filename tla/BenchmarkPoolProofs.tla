------------------------- MODULE BenchmarkPoolProofs -------------------------
(***************************************************************************)
(* Theorems about BenchmarkPool, for any number of Start calls, workers    *)
(* and Stop calls: work is conserved, and a Start call that has returned   *)
(* leaves nothing of it running.                                           *)
(***************************************************************************)
EXTENDS BenchmarkPool, TLAPS

StarterPlace == {"idle", "set", "spawn", "run", "wait", "waitMetrics", "clear"}
ControllerPlace == {"none", "tick", "signal"}
WorkerPlace == {"none", "top", "load", "claim", "work", "lock", "wait"}

(* The counter is an integer, and what WorkConserved says of it.           *)
Balance == workCounter \in Int /\ owed \in Int /\ owed = workCounter

(* Every waiter is a worker in Wait, and nobody waits twice.               *)
Waiting ==
    /\ waiters \in Seq(Worker)
    /\ \A i \in 1 .. Len(waiters) : worker[waiters[i]].place = "wait"
    /\ \A i, j \in 1 .. Len(waiters) : waiters[i] = waiters[j] => i = j

Places ==
    /\ starter \in [Starter -> StarterPlace]
    /\ controller \in [Starter -> ControllerPlace]
    /\ updater \in [Starter -> BOOLEAN]
    /\ worker \in [Worker -> [place : WorkerPlace, current : Int]]

(* Past the wait for the workers, and before the next spawn, none is left. *)
WorkersGone ==
    \A s \in Starter : starter[s] \in {"idle", "set", "spawn", "waitMetrics", "clear"} =>
        /\ controller[s] = "none"
        /\ \A n \in 1 .. WorkerCount : worker[<<s, n>>].place = "none"

UpdatersGone ==
    \A s \in Starter : starter[s] \in {"idle", "set", "spawn", "clear"} => updater[s] = FALSE

Inv == Places /\ Waiting /\ WorkersGone /\ UpdatersGone

-----------------------------------------------------------------------------
(* What is left of a list without its head.                                *)
LEMMA TailFacts ==
    ASSUME NEW S, NEW q \in Seq(S), q # << >>
    PROVE  /\ Head(q) \in S
           /\ Head(q) = q[1]
           /\ Len(q) \in Nat \ {0}
           /\ Tail(q) \in Seq(S)
           /\ Len(Tail(q)) = Len(q) - 1
           /\ \A i \in 1 .. Len(q) - 1 : Tail(q)[i] = q[i + 1]
  <1>1. Len(q) \in Nat \ {0}
    OBVIOUS
  <1>2. Head(q) = q[1] /\ q[1] \in S
    BY <1>1
  <1>3. Tail(q) \in Seq(S) /\ Len(Tail(q)) = Len(q) - 1
    BY <1>1
  <1>4. \A i \in 1 .. Len(q) - 1 : Tail(q)[i] = q[i + 1]
    BY <1>1
  <1> QED BY <1>1, <1>2, <1>3, <1>4

(* Every worker is one of a Start call's.                                  *)
LEMMA WorkerOf == ASSUME NEW w \in Worker
                  PROVE  \E s \in Starter, n \in 1 .. WorkerCount : w = <<s, n>> /\ w[1] = s
  BY DEF Worker

LEMMA InitInv == Init => Balance /\ Inv
  <1> SUFFICES ASSUME Init PROVE Balance /\ Inv
    OBVIOUS
  <1>1. Balance
    BY DEF Init, Balance
  <1>2. Places
    <2>1. worker \in [Worker -> [place : WorkerPlace, current : Int]]
      BY DEF Init, WorkerPlace
    <2> QED BY <2>1 DEF Init, Places, StarterPlace, ControllerPlace
  <1>3. Waiting
    BY DEF Init, Waiting
  <1>4. WorkersGone
    <2>1. \A s \in Starter, n \in 1 .. WorkerCount : worker[<<s, n>>].place = "none"
      BY DEF Init, Worker
    <2> QED BY <2>1 DEF Init, WorkersGone
  <1>5. UpdatersGone
    BY DEF Init, UpdatersGone
  <1> QED BY <1>1, <1>2, <1>3, <1>4, <1>5 DEF Inv
-----------------------------------------------------------------------------
(* A claim takes exactly one unit, because the compare-and-swap saw the    *)
(* counter at the value that was loaded.                                   *)
LEMMA BalanceStep == Balance /\ [Next]_vars => Balance'
  <1> SUFFICES ASSUME Balance, [Next]_vars PROVE Balance'
    OBVIOUS
  <1> USE DEF Balance
  <1>1. ASSUME NEW w \in Worker, WorkerStep(w) PROVE Balance'
    <2>1. CASE Claim(w)
      BY <2>1 DEF Claim
    <2>2. CASE Exit(w) \/ Proceed(w) \/ Load(w) \/ ClaimFails(w) \/ Finish(w) \/ Wait(w)
      BY <2>2 DEF Exit, Proceed, Load, ClaimFails, Finish, Wait
    <2> QED BY <1>1, <2>1, <2>2 DEF WorkerStep
  <1>2. ASSUME NEW s \in Starter, Tick(s) PROVE Balance'
    BY <1>2 DEF Tick
  <1>3. ASSUME NEW s \in Starter,
               Signal(s) \/ ControllerExit(s) \/ UpdaterExit(s) \/ Check(s) \/ SetRunning(s)
                 \/ Spawn(s) \/ Ending(s)
        PROVE  Balance'
    BY <1>3 DEF Signal, ControllerExit, UpdaterExit, Check, SetRunning, Spawn, Ending, Cancel,
                WaitForWorkers, WaitForMetrics, ClearRunning, work
  <1>4. ASSUME NEW t \in Stopper, CheckRunning(t) \/ StopperStep(t) PROVE Balance'
    BY <1>4 DEF CheckRunning, StopperStep, Close, Broadcast, work
  <1>5. CASE UNCHANGED vars
    BY <1>5 DEF vars
  <1> QED BY <1>1, <1>2, <1>3, <1>4, <1>5 DEF Next

(* No tick is lost and none is done twice, however many workers race.      *)
THEOREM WorkConservedAlways == Spec => []WorkConserved
  <1>1. Init => Balance
    BY InitInv
  <1>2. Balance => WorkConserved
    BY DEF Balance, WorkConserved
  <1> QED BY <1>1, <1>2, BalanceStep, PTL DEF Spec
-----------------------------------------------------------------------------
(* A live worker that is not asleep moves: nobody's wakeup is disturbed,   *)
(* and no finished call comes back to life.                                *)
LEMMA WorkerMoves ==
    ASSUME Inv, NEW w \in Worker, worker[w].place \notin {"none", "wait"},
           NEW p \in WorkerPlace, NEW k \in Int,
           worker' = [worker EXCEPT ![w] = [place |-> p, current |-> k]],
           UNCHANGED <<starter, controller, updater>>,
           IF p = "wait" THEN waiters' = Append(waiters, w) ELSE UNCHANGED waiters
    PROVE  Inv'
  <1> USE DEF Inv
  <1>1. Places'
    BY DEF Places
  <1>2. \A v \in Worker : v # w => worker'[v] = worker[v]
    BY DEF Places
  <1>3. worker'[w].place = p
    BY DEF Places
  <1>4. WorkersGone'
    <2> SUFFICES ASSUME NEW s \in Starter,
                        starter[s] \in {"idle", "set", "spawn", "waitMetrics", "clear"}
                 PROVE  /\ controller[s] = "none"
                        /\ \A n \in 1 .. WorkerCount : worker'[<<s, n>>].place = "none"
      BY DEF WorkersGone
    <2>1. controller[s] = "none"
      BY DEF WorkersGone
    <2>2. ASSUME NEW n \in 1 .. WorkerCount PROVE worker'[<<s, n>>].place = "none"
      <3>1. <<s, n>> \in Worker
        BY DEF Worker
      <3>2. worker[<<s, n>>].place = "none"
        BY DEF WorkersGone
      <3> QED BY <1>2, <3>1, <3>2
    <2> QED BY <2>1, <2>2
  <1>5. \A i \in 1 .. Len(waiters) : waiters[i] \in Worker /\ waiters[i] # w
    BY DEF Waiting
  <1>6. Waiting'
    <2>1. CASE p = "wait"
      <3>1. waiters' = Append(waiters, w) /\ waiters' \in Seq(Worker)
        BY <2>1 DEF Waiting
      <3>2. /\ Len(waiters) \in Nat
            /\ Len(waiters') = Len(waiters) + 1
            /\ \A i \in 1 .. Len(waiters) : waiters'[i] = waiters[i]
            /\ waiters'[Len(waiters) + 1] = w
        BY <3>1 DEF Waiting
      <3> HIDE DEF Inv
      <3>3. ASSUME NEW i \in 1 .. Len(waiters') PROVE worker'[waiters'[i]].place = "wait"
        <4>1. CASE i = Len(waiters) + 1
          BY <4>1, <3>2, <1>3, <2>1
        <4>2. CASE i \in 1 .. Len(waiters)
          BY <4>2, <3>2, <1>2, <1>5 DEF Inv, Waiting
        <4> QED BY <3>2, <4>1, <4>2
      <3>4. ASSUME NEW i \in 1 .. Len(waiters'), NEW j \in 1 .. Len(waiters'),
                   waiters'[i] = waiters'[j]
            PROVE  i = j
        <4>1. CASE i \in 1 .. Len(waiters) /\ j \in 1 .. Len(waiters)
          BY <4>1, <3>2, <3>4 DEF Inv, Waiting
        <4>2. CASE i = Len(waiters) + 1 \/ j = Len(waiters) + 1
          BY <4>2, <3>2, <3>4, <1>5
        <4> QED BY <3>2, <4>1, <4>2
      <3> QED BY <3>1, <3>3, <3>4 DEF Waiting
    <2>2. CASE p # "wait"
      BY <2>2, <1>2, <1>5 DEF Waiting
    <2> QED BY <2>1, <2>2
  <1> QED BY <1>1, <1>4, <1>6 DEF UpdatersGone

LEMMA WorkerInv ==
    ASSUME Balance, Inv, NEW w \in Worker, WorkerStep(w) PROVE Inv'
  <1> USE DEF WorkerPlace, Goto, control
  <1>1. CASE Exit(w)
    BY <1>1, WorkerMoves, "none" \in WorkerPlace, 0 \in Int DEF Exit
  <1>2. CASE Proceed(w)
    BY <1>2, WorkerMoves, "load" \in WorkerPlace, 0 \in Int DEF Proceed
  <1>3. CASE Load(w)
    <2>1. PICK p \in {"claim", "lock"} :
             worker' = [worker EXCEPT ![w] = [place |-> p, current |-> workCounter]]
      BY <1>3 DEF Load
    <2>2. workCounter \in Int
      BY DEF Balance
    <2> QED BY <1>3, <2>1, <2>2, WorkerMoves DEF Load
  <1>4. CASE Claim(w)
    BY <1>4, WorkerMoves, "work" \in WorkerPlace, 0 \in Int DEF Claim
  <1>5. CASE ClaimFails(w)
    BY <1>5, WorkerMoves, "lock" \in WorkerPlace, 0 \in Int DEF ClaimFails
  <1>6. CASE Finish(w)
    BY <1>6, WorkerMoves, "top" \in WorkerPlace, 0 \in Int DEF Finish
  <1>7. CASE Wait(w)
    BY <1>7, WorkerMoves, "wait" \in WorkerPlace, 0 \in Int DEF Wait
  <1> QED BY <1>1, <1>2, <1>3, <1>4, <1>5, <1>6, <1>7 DEF WorkerStep
-----------------------------------------------------------------------------
(* A wakeup goes to a worker that sleeps, so to none of a finished call's. *)
LEMMA SignalInv ==
    ASSUME Inv, NEW s \in Starter, Signal(s) PROVE Inv'
  <1> USE DEF Inv
  <1>1. Places' /\ UpdatersGone'
    <2>1. Head(waiters) \in Worker \/ waiters = << >>
      BY TailFacts DEF Waiting
    <2>2. Places'
      BY <2>1 DEF Signal, control, Goto, Places, ControllerPlace, WorkerPlace
    <2> QED BY <2>2 DEF Signal, control, UpdatersGone
  <1>2. controller[s] # "none" /\ \A r \in Starter : r # s => controller'[r] = controller[r]
    BY DEF Signal, Places
  <1>3. CASE waiters = << >>
    BY <1>1, <1>2, <1>3 DEF Signal, control, Waiting, WorkersGone
  <1>4. CASE waiters # << >>
    <2> DEFINE h == Head(waiters)
    <2>1. /\ h \in Worker /\ h = waiters[1] /\ Len(waiters) \in Nat \ {0}
          /\ Tail(waiters) \in Seq(Worker)
          /\ Len(Tail(waiters)) = Len(waiters) - 1
          /\ \A i \in 1 .. Len(waiters) - 1 : Tail(waiters)[i] = waiters[i + 1]
      BY <1>4, TailFacts DEF Waiting
    <2>2. waiters' = Tail(waiters) /\ \A v \in Worker : v # h => worker'[v] = worker[v]
      BY <1>4 DEF Signal, Goto, Places
    <2>3. worker[h].place = "wait"
      BY <2>1 DEF Waiting
    <2> HIDE DEF h
    <2>4. ASSUME NEW i \in 1 .. Len(waiters')
          PROVE  /\ i + 1 \in 1 .. Len(waiters) /\ waiters'[i] = waiters[i + 1]
                 /\ waiters'[i] \in Worker /\ waiters'[i] # h
      BY <2>1, <2>2 DEF Waiting
    <2>5. Waiting'
      <3>1. waiters' \in Seq(Worker)
        BY <2>1, <2>2
      <3>2. ASSUME NEW i \in 1 .. Len(waiters') PROVE worker'[waiters'[i]].place = "wait"
        BY <2>2, <2>4 DEF Waiting
      <3>3. ASSUME NEW i \in 1 .. Len(waiters'), NEW j \in 1 .. Len(waiters'),
                   waiters'[i] = waiters'[j]
            PROVE  i = j
        <4>1. i + 1 = j + 1
          BY <2>4, <3>3 DEF Waiting
        <4> QED BY <4>1
      <3> QED BY <3>1, <3>2, <3>3 DEF Waiting
    <2>6. WorkersGone'
      <3>1. starter' = starter
        BY DEF Signal, control
      <3>2. ASSUME NEW r \in Starter, NEW n \in 1 .. WorkerCount,
                   worker[<<r, n>>].place = "none"
            PROVE  worker'[<<r, n>>].place = "none"
        BY <2>2, <2>3, <3>2 DEF Worker
      <3> QED BY <1>2, <3>1, <3>2 DEF WorkersGone
    <2> QED BY <1>1, <2>5, <2>6
  <1> QED BY <1>1, <1>3, <1>4

(* Ticks and exits of a controller and an updater.                         *)
LEMMA ControllerInv ==
    ASSUME Inv, NEW s \in Starter, Tick(s) \/ ControllerExit(s) \/ UpdaterExit(s)
    PROVE  Inv'
  <1> USE DEF Inv, control
  <1>1. CASE Tick(s)
    <2>1. Places' /\ Waiting' /\ UpdatersGone'
      BY <1>1 DEF Tick, Places, ControllerPlace, Waiting, UpdatersGone
    <2>2. WorkersGone'
      BY <1>1 DEF Tick, Places, WorkersGone
    <2> QED BY <2>1, <2>2
  <1>2. CASE ControllerExit(s)
    <2>1. Places' /\ Waiting' /\ UpdatersGone'
      BY <1>2 DEF ControllerExit, work, Places, ControllerPlace, Waiting, UpdatersGone
    <2>2. WorkersGone'
      BY <1>2 DEF ControllerExit, work, Places, WorkersGone
    <2> QED BY <2>1, <2>2
  <1>3. CASE UpdaterExit(s)
    <2>1. Places' /\ Waiting' /\ WorkersGone'
      BY <1>3 DEF UpdaterExit, work, Places, Waiting, WorkersGone
    <2>2. UpdatersGone'
      BY <1>3 DEF UpdaterExit, Places, UpdatersGone
    <2> QED BY <2>1, <2>2
  <1> QED BY <1>1, <1>2, <1>3

(* Start: only Spawn brings workers to life, and it makes the call run.    *)
LEMMA StarterInv ==
    ASSUME Inv, NEW s \in Starter,
           Check(s) \/ SetRunning(s) \/ Spawn(s) \/ Ending(s)
    PROVE  Inv'
  <1> USE DEF Inv
  <1>1. ASSUME NEW from \in StarterPlace, NEW to \in StarterPlace, At(s, from, to)
        PROVE  /\ starter' \in [Starter -> StarterPlace]
               /\ starter[s] = from /\ starter'[s] = to
               /\ \A r \in Starter : r # s => starter'[r] = starter[r]
    BY <1>1 DEF At, Places
  <1>2. CASE Spawn(s)
    <2>1. /\ starter' \in [Starter -> StarterPlace]
          /\ starter[s] = "spawn" /\ starter'[s] = "run"
          /\ \A r \in Starter : r # s => starter'[r] = starter[r]
      BY <1>1, <1>2 DEF Spawn, StarterPlace
    <2>2. Places'
      <3>1. worker' \in [Worker -> [place : WorkerPlace, current : Int]]
        BY <1>2 DEF Spawn, Places, WorkerPlace
      <3>2. /\ controller' \in [Starter -> ControllerPlace]
            /\ updater' \in [Starter -> BOOLEAN]
        BY <1>2 DEF Spawn, Places, ControllerPlace
      <3> QED BY <2>1, <3>1, <3>2 DEF Places
    <2>3. \A w \in Worker : w[1] # s => worker'[w] = worker[w]
      BY <1>2 DEF Spawn
    <2>4. \A i \in 1 .. Len(waiters) : waiters[i] \in Worker /\ waiters[i][1] # s
      <3> SUFFICES ASSUME NEW i \in 1 .. Len(waiters)
                   PROVE  waiters[i] \in Worker /\ waiters[i][1] # s
        OBVIOUS
      <3>1. waiters[i] \in Worker /\ worker[waiters[i]].place = "wait"
        BY DEF Waiting
      <3>2. PICK r \in Starter, n \in 1 .. WorkerCount :
               waiters[i] = <<r, n>> /\ waiters[i][1] = r
        BY <3>1, WorkerOf
      <3>3. r # s
        BY <2>1, <3>1, <3>2 DEF WorkersGone
      <3> QED BY <3>1, <3>2, <3>3
    <2>5. Waiting'
      BY <1>2, <2>3, <2>4 DEF Spawn, Waiting
    <2>6. WorkersGone'
      <3> SUFFICES ASSUME NEW r \in Starter,
                          starter'[r] \in {"idle", "set", "spawn", "waitMetrics", "clear"}
                   PROVE  /\ controller'[r] = "none"
                          /\ \A n \in 1 .. WorkerCount : worker'[<<r, n>>].place = "none"
        BY DEF WorkersGone
      <3>1. r # s /\ starter'[r] = starter[r]
        BY <2>1
      <3>2. controller'[r] = "none"
        BY <1>2, <3>1 DEF Spawn, Places, WorkersGone
      <3>3. ASSUME NEW n \in 1 .. WorkerCount PROVE worker'[<<r, n>>].place = "none"
        <4>1. <<r, n>> \in Worker /\ <<r, n>>[1] # s
          BY <3>1 DEF Worker
        <4> QED BY <2>3, <3>1, <4>1 DEF WorkersGone
      <3> QED BY <3>2, <3>3
    <2>7. UpdatersGone'
      BY <1>2, <2>1 DEF Spawn, Places, UpdatersGone
    <2> QED BY <2>2, <2>5, <2>6, <2>7
  <1>3. CASE Check(s) \/ SetRunning(s) \/ Ending(s)
    <2>1. UNCHANGED <<controller, updater, work>>
      BY <1>3 DEF Check, SetRunning, Ending, Cancel, WaitForWorkers, WaitForMetrics, ClearRunning
    <2>2. PICK from \in StarterPlace, to \in StarterPlace : At(s, from, to)
      BY <1>3 DEF Check, SetRunning, Ending, Cancel, WaitForWorkers, WaitForMetrics,
                  ClearRunning, StarterPlace
    <2>3. Places' /\ Waiting'
      BY <1>1, <2>1, <2>2 DEF Places, Waiting, work
    <2>4. \/ At(s, "idle", "set") \/ At(s, "set", "spawn") \/ At(s, "run", "wait")
          \/ At(s, "wait", "waitMetrics") /\ (\A w \in Worker : worker[w].place = "none")
                                         /\ \A r \in Starter : controller[r] = "none"
          \/ At(s, "waitMetrics", "clear") /\ \A r \in Starter : ~updater[r]
          \/ At(s, "clear", "idle")
      BY <1>3 DEF Check, SetRunning, Ending, Cancel, WaitForWorkers, WaitForMetrics, ClearRunning
    <2>5. WorkersGone'
      <3>1. \A r \in Starter, n \in 1 .. WorkerCount : <<r, n>> \in Worker
        BY DEF Worker
      <3> QED BY <2>1, <2>4, <3>1 DEF At, Places, WorkersGone, work
    <2>6. UpdatersGone'
      BY <2>1, <2>4 DEF At, Places, UpdatersGone
    <2> QED BY <2>3, <2>5, <2>6
  <1> QED BY <1>2, <1>3

LEMMA StopperInv ==
    ASSUME Inv, NEW t \in Stopper, CheckRunning(t) \/ StopperStep(t) PROVE Inv'
  <1> USE DEF Inv
  <1>1. CASE CheckRunning(t) \/ Close(t)
    BY <1>1 DEF CheckRunning, Close, work, Places, Waiting, WorkersGone, UpdatersGone
  <1>2. CASE Broadcast(t)
    <2>1. Places' /\ Waiting' /\ UpdatersGone'
      BY <1>2 DEF Broadcast, Places, WorkerPlace, Waiting, UpdatersGone
    <2>2. WorkersGone'
      <3>1. \A r \in Starter, n \in 1 .. WorkerCount : <<r, n>> \in Worker
        BY DEF Worker
      <3> QED BY <1>2, <3>1 DEF Broadcast, WorkersGone
    <2> QED BY <2>1, <2>2
  <1> QED BY <1>1, <1>2 DEF StopperStep

LEMMA InvStep == Balance /\ Inv /\ [Next]_vars => Inv'
  <1> SUFFICES ASSUME Balance, Inv, [Next]_vars PROVE Inv'
    OBVIOUS
  <1>1. ASSUME NEW w \in Worker, WorkerStep(w) PROVE Inv'
    BY <1>1, WorkerInv
  <1>2. ASSUME NEW s \in Starter, Signal(s) PROVE Inv'
    BY <1>2, SignalInv
  <1>3. ASSUME NEW s \in Starter, Tick(s) \/ ControllerExit(s) \/ UpdaterExit(s) PROVE Inv'
    BY <1>3, ControllerInv
  <1>4. ASSUME NEW s \in Starter, Check(s) \/ SetRunning(s) \/ Spawn(s) \/ Ending(s) PROVE Inv'
    BY <1>4, StarterInv
  <1>5. ASSUME NEW t \in Stopper, CheckRunning(t) \/ StopperStep(t) PROVE Inv'
    BY <1>5, StopperInv
  <1>6. CASE UNCHANGED vars
    BY <1>6 DEF vars, Inv, Places, Waiting, WorkersGone, UpdatersGone
  <1> QED BY <1>1, <1>2, <1>3, <1>4, <1>5, <1>6 DEF Next

(* A Start call that has returned, or has not spawned yet, owns neither a  *)
(* worker nor a controller nor a metrics updater, whatever the other calls *)
(* do with the wait groups and wakeups they share.                         *)
THEOREM NothingLeftAlways == Spec => []NothingLeft
  <1>1. Init => Balance /\ Inv
    BY InitInv
  <1>2. Balance /\ Inv /\ [Next]_vars => (Balance /\ Inv)'
    BY BalanceStep, InvStep
  <1>3. Inv => NothingLeft
    BY DEF Inv, WorkersGone, UpdatersGone, NothingLeft
  <1> QED BY <1>1, <1>2, <1>3, PTL DEF Spec
-----------------------------------------------------------------------------
(* What the types add: the counter is in its bounds, also in what a worker *)
(* has loaded, and a worker that claims has seen at least one.             *)
Counts ==
    /\ workCounter \in 0 .. MaxWork
    /\ \A w \in Worker : /\ worker[w].current \in 0 .. MaxWork
                         /\ worker[w].place = "claim" => worker[w].current > 0

Flags ==
    /\ running \in BOOLEAN /\ stopped \in BOOLEAN
    /\ stopper \in [Stopper -> {"idle", "close", "broadcast"}]
    /\ cancelled \in [Starter -> BOOLEAN]

(* Nobody sleeps whom a wakeup could not find.                             *)
AllWait ==
    \A w \in Worker : worker[w].place = "wait" => \E i \in 1 .. Len(waiters) : waiters[i] = w

(* A step of one worker changes its place and what it has loaded.          *)
LEMMA WorkerCounts ==
    ASSUME Inv, Counts, NEW w \in Worker, NEW p \in WorkerPlace, NEW k \in 0 .. MaxWork,
           worker' = [worker EXCEPT ![w] = [place |-> p, current |-> k]],
           p = "claim" => k > 0, workCounter' \in 0 .. MaxWork
    PROVE  Counts'
  <1>1. worker'[w].place = p /\ worker'[w].current = k
    BY DEF Inv, Places
  <1>2. \A v \in Worker : v # w => worker'[v] = worker[v]
    BY DEF Inv, Places
  <1> QED BY <1>1, <1>2 DEF Counts

(* A claim takes one of at least one; a tick at the bound adds none.       *)
LEMMA CountsStep == Inv /\ Counts /\ [Next]_vars => Counts'
  <1> SUFFICES ASSUME Inv, Counts, [Next]_vars PROVE Counts'
    OBVIOUS
  <1>0. /\ workCounter \in 0 .. MaxWork /\ 0 \in 0 .. MaxWork
        /\ MaxWork \in Nat /\ workCounter \in Int
    BY BoundAssumption DEF Counts
  <1> USE DEF WorkerPlace, Goto
  <1>1. ASSUME NEW w \in Worker, WorkerStep(w) PROVE Counts'
    <2>1. CASE Load(w)
      <3>1. PICK p \in {"claim", "lock"} :
               /\ worker' = [worker EXCEPT ![w] = [place |-> p, current |-> workCounter]]
               /\ p = "claim" => workCounter > 0
        BY <2>1 DEF Load
      <3> QED BY <1>0, <2>1, <3>1, WorkerCounts DEF Load
    <2>2. CASE Claim(w)
      <3>1. /\ workCounter' = workCounter - 1 /\ worker[w].current = workCounter
            /\ worker[w].place = "claim"
        BY <2>2 DEF Claim
      <3>2. workCounter' \in 0 .. MaxWork
        BY <1>0, <3>1 DEF Counts
      <3> QED BY <1>0, <2>2, <3>2, WorkerCounts DEF Claim
    <2>3. CASE Exit(w) \/ Proceed(w) \/ ClaimFails(w) \/ Finish(w) \/ Wait(w)
      <3>1. PICK p \in WorkerPlace \ {"claim"} :
               worker' = [worker EXCEPT ![w] = [place |-> p, current |-> 0]]
        BY <2>3 DEF Exit, Proceed, ClaimFails, Finish, Wait
      <3>2. workCounter' = workCounter
        BY <2>3 DEF Exit, Proceed, ClaimFails, Finish, Wait
      <3> QED BY <1>0, <3>1, <3>2, WorkerCounts
    <2> QED BY <1>1, <2>1, <2>2, <2>3 DEF WorkerStep
  <1>2. ASSUME NEW s \in Starter, Tick(s) PROVE Counts'
    <2>1. workCounter' \in 0 .. MaxWork /\ worker' = worker
      BY <1>0, <1>2 DEF Tick
    <2> QED BY <2>1 DEF Counts
  <1>3. ASSUME NEW s \in Starter, Signal(s) PROVE Counts'
    <2>1. CASE waiters = << >>
      BY <1>3, <2>1 DEF Signal, Counts
    <2>2. CASE waiters # << >>
      <3>1. Head(waiters) \in Worker
        BY <2>2, TailFacts DEF Inv, Waiting
      <3>2. /\ worker' = [worker EXCEPT ![Head(waiters)] = [place |-> "top", current |-> 0]]
            /\ workCounter' = workCounter
        BY <1>3, <2>2 DEF Signal
      <3> QED BY <1>0, <3>1, <3>2, WorkerCounts
    <2> QED BY <2>1, <2>2
  <1>4. ASSUME NEW s \in Starter, Spawn(s) PROVE Counts'
    <2>1. /\ worker' = [w \in Worker |-> IF w[1] = s THEN [place |-> "top", current |-> 0]
                                                    ELSE worker[w]]
          /\ workCounter' = workCounter
      BY <1>4 DEF Spawn
    <2>2. \A w \in Worker : \/ worker'[w] = [place |-> "top", current |-> 0]
                            \/ worker'[w] = worker[w]
      BY <2>1
    <2> QED BY <1>0, <2>1, <2>2 DEF Counts
  <1>5. ASSUME NEW t \in Stopper, Broadcast(t) PROVE Counts'
    <2>1. /\ worker' = [w \in Worker |-> IF worker[w].place = "wait"
                                         THEN [place |-> "top", current |-> 0] ELSE worker[w]]
          /\ workCounter' = workCounter
      BY <1>5 DEF Broadcast
    <2>2. \A w \in Worker : \/ worker'[w] = [place |-> "top", current |-> 0]
                            \/ worker'[w] = worker[w]
      BY <2>1
    <2> QED BY <1>0, <2>1, <2>2 DEF Counts
  <1>6. ASSUME NEW s \in Starter,
               ControllerExit(s) \/ UpdaterExit(s) \/ Check(s) \/ SetRunning(s) \/ Ending(s)
        PROVE  Counts'
    BY <1>6 DEF ControllerExit, UpdaterExit, Check, SetRunning, Ending, Cancel, WaitForWorkers,
                WaitForMetrics, ClearRunning, work, Counts
  <1>7. ASSUME NEW t \in Stopper, CheckRunning(t) \/ Close(t) PROVE Counts'
    BY <1>7 DEF CheckRunning, Close, work, Counts
  <1>8. CASE UNCHANGED vars
    BY <1>8 DEF vars, Counts
  <1> QED BY <1>1, <1>2, <1>3, <1>4, <1>5, <1>6, <1>7, <1>8 DEF Next, StopperStep

(* Only Wait puts a worker to sleep, at the end of the list; only a wakeup *)
(* or a broadcast takes it out, and wakes it.                              *)
LEMMA AllWaitStep == Inv /\ AllWait /\ [Next]_vars => AllWait'
  <1> SUFFICES ASSUME Inv, AllWait, [Next]_vars,
                      NEW v \in Worker, worker'[v].place = "wait"
               PROVE  \E i \in 1 .. Len(waiters') : waiters'[i] = v
    BY DEF AllWait
  <1>0. /\ waiters \in Seq(Worker) /\ Len(waiters) \in Nat
        /\ worker \in [Worker -> [place : WorkerPlace, current : Int]]
    BY DEF Inv, Waiting, Places
  <1>1. worker[v].place = "wait" => \E i \in 1 .. Len(waiters) : waiters[i] = v
    BY DEF AllWait
  <1> USE DEF Goto
  <1>2. ASSUME NEW w \in Worker, WorkerStep(w)
        PROVE  \E i \in 1 .. Len(waiters') : waiters'[i] = v
    <2>1. CASE Wait(w)
      <3>1. /\ waiters' = Append(waiters, w)
            /\ worker' = [worker EXCEPT ![w] = [place |-> "wait", current |-> 0]]
        BY <2>1 DEF Wait
      <3>2. /\ Len(waiters') = Len(waiters) + 1 /\ waiters'[Len(waiters) + 1] = w
            /\ \A i \in 1 .. Len(waiters) : waiters'[i] = waiters[i]
        BY <1>0, <3>1
      <3>3. CASE v = w
        BY <1>0, <3>2, <3>3
      <3>4. CASE v # w
        <4>1. PICK i \in 1 .. Len(waiters) : waiters[i] = v
          BY <1>0, <1>1, <3>1, <3>4
        <4>2. i \in 1 .. Len(waiters') /\ waiters'[i] = v
          BY <1>0, <3>2, <4>1
        <4> QED BY <4>2
      <3> QED BY <3>3, <3>4
    <2>2. CASE ~Wait(w)
      <3>1. PICK p \in WorkerPlace \ {"wait"} :
               \E k : worker' = [worker EXCEPT ![w] = [place |-> p, current |-> k]]
        BY <1>2, <2>2 DEF WorkerStep, Exit, Proceed, Load, Claim, ClaimFails, Finish, WorkerPlace
      <3>2. waiters' = waiters
        BY <1>2, <2>2 DEF WorkerStep, Exit, Proceed, Load, Claim, ClaimFails, Finish
      <3>3. worker[v].place = "wait"
        BY <1>0, <3>1
      <3> QED BY <1>1, <3>2, <3>3
    <2> QED BY <2>1, <2>2
  <1>3. ASSUME NEW s \in Starter, Signal(s)
        PROVE  \E i \in 1 .. Len(waiters') : waiters'[i] = v
    <2>1. CASE waiters = << >>
      <3>1. UNCHANGED <<waiters, worker>>
        BY <1>3, <2>1 DEF Signal
      <3> QED BY <1>1, <3>1
    <2>2. CASE waiters # << >>
      <3>1. /\ Head(waiters) \in Worker /\ Head(waiters) = waiters[1]
            /\ Len(Tail(waiters)) = Len(waiters) - 1
            /\ \A i \in 1 .. Len(waiters) - 1 : Tail(waiters)[i] = waiters[i + 1]
        BY <1>0, <2>2, TailFacts
      <3>2. /\ worker' = [worker EXCEPT ![Head(waiters)] = [place |-> "top", current |-> 0]]
            /\ waiters' = Tail(waiters)
        BY <1>3, <2>2 DEF Signal
      <3>3. v # Head(waiters) /\ worker[v].place = "wait"
        BY <1>0, <3>1, <3>2
      <3>4. PICK i \in 1 .. Len(waiters) : waiters[i] = v
        BY <1>1, <3>3
      <3>5. i - 1 \in 1 .. Len(waiters') /\ (i - 1) + 1 = i /\ i - 1 \in 1 .. Len(waiters) - 1
        BY <1>0, <3>1, <3>2, <3>3, <3>4
      <3>6. waiters'[i - 1] = v
        BY <3>1, <3>2, <3>4, <3>5
      <3> QED BY <3>5, <3>6
    <2> QED BY <2>1, <2>2
  <1>4. ASSUME NEW s \in Starter, Spawn(s)
        PROVE  \E i \in 1 .. Len(waiters') : waiters'[i] = v
    <2>1. worker[v].place = "wait" /\ waiters' = waiters
      BY <1>4 DEF Spawn
    <2> QED BY <1>1, <2>1
  <1>5. ASSUME NEW t \in Stopper, Broadcast(t)
        PROVE  \E i \in 1 .. Len(waiters') : waiters'[i] = v
    BY <1>5 DEF Broadcast
  <1>6. ASSUME NEW s \in Starter,
               \/ Tick(s) \/ ControllerExit(s) \/ UpdaterExit(s)
               \/ Check(s) \/ SetRunning(s) \/ Ending(s)
        PROVE  UNCHANGED <<waiters, worker>>
    BY <1>6 DEF Tick, ControllerExit, UpdaterExit, Check, SetRunning, Ending, Cancel,
                WaitForWorkers, WaitForMetrics, ClearRunning, work
  <1>7. ASSUME NEW t \in Stopper, CheckRunning(t) \/ Close(t)
        PROVE  UNCHANGED <<waiters, worker>>
    BY <1>7 DEF CheckRunning, Close, work
  <1>8. CASE UNCHANGED vars
    BY <1>1, <1>8 DEF vars
  <1>9. CASE UNCHANGED <<waiters, worker>>
    BY <1>1, <1>9
  <1> QED BY <1>2, <1>3, <1>4, <1>5, <1>6, <1>7, <1>8, <1>9 DEF Next, StopperStep

(* The flags.                                                              *)
LEMMA FlagsStep == Flags /\ [Next]_vars => Flags'
  <1> SUFFICES ASSUME Flags, [Next]_vars PROVE Flags'
    OBVIOUS
  <1> USE DEF Flags, control
  <1>1. ASSUME NEW w \in Worker, WorkerStep(w) PROVE Flags'
    BY <1>1 DEF WorkerStep, Exit, Proceed, Load, Claim, ClaimFails, Finish, Wait
  <1>2. ASSUME NEW s \in Starter, Tick(s) \/ Signal(s) \/ ControllerExit(s) \/ UpdaterExit(s)
        PROVE  Flags'
    BY <1>2 DEF Tick, Signal, ControllerExit, UpdaterExit
  <1>3. ASSUME NEW s \in Starter, Check(s) \/ SetRunning(s) \/ Spawn(s) \/ Ending(s)
        PROVE  Flags'
    BY <1>3 DEF Check, SetRunning, Spawn, Ending, Cancel, WaitForWorkers, WaitForMetrics,
                ClearRunning
  <1>4. ASSUME NEW t \in Stopper, CheckRunning(t) \/ StopperStep(t) PROVE Flags'
    BY <1>4 DEF CheckRunning, StopperStep, Close, Broadcast
  <1>5. CASE UNCHANGED vars
    BY <1>5 DEF vars
  <1> QED BY <1>1, <1>2, <1>3, <1>4, <1>5 DEF Next

(* The counter and what workers have loaded of it stay in their bounds, and*)
(* the waiters are exactly the workers that sleep: no wakeup is wasted on  *)
(* one that does not, and none sleeps where no wakeup finds it.            *)
THEOREM TypeCorrect == Spec => []TypeOK
  <1>1. Init => Balance /\ Inv /\ Counts /\ AllWait /\ Flags
    <2> SUFFICES ASSUME Init PROVE Balance /\ Inv /\ Counts /\ AllWait /\ Flags
      OBVIOUS
    <2>1. Counts /\ AllWait
      BY BoundAssumption DEF Init, Counts, AllWait
    <2>2. Flags
      BY DEF Init, Flags
    <2> QED BY <2>1, <2>2, InitInv
  <1>2. Balance /\ Inv /\ Counts /\ AllWait /\ Flags /\ [Next]_vars
            => (Balance /\ Inv /\ Counts /\ AllWait /\ Flags)'
    BY BalanceStep, InvStep, CountsStep, AllWaitStep, FlagsStep
  <1>3. Balance /\ Inv /\ Counts /\ AllWait /\ Flags => TypeOK
    <2> SUFFICES ASSUME Balance, Inv, Counts, AllWait, Flags PROVE TypeOK
      OBVIOUS
    <2>1. worker \in [Worker -> [place : WorkerPlace, current : 0 .. MaxWork]]
      <3>1. \A w \in Worker : worker[w] \in [place : WorkerPlace, current : 0 .. MaxWork]
        BY DEF Inv, Places, Counts
      <3> QED BY <3>1 DEF Inv, Places
    <2>2. waiters \in Seq(Worker) /\ DOMAIN waiters = 1 .. Len(waiters)
      BY DEF Inv, Waiting
    <2>3. /\ \A w \in Worker :
                (\E i \in DOMAIN waiters : waiters[i] = w) <=> worker[w].place = "wait"
          /\ \A i, j \in DOMAIN waiters : waiters[i] = waiters[j] => i = j
      BY <2>2 DEF Inv, Waiting, AllWait
    <2> QED BY <2>1, <2>2, <2>3 DEF Inv, Places, StarterPlace, ControllerPlace, WorkerPlace, Counts,
                                    Flags, Balance, TypeOK
  <1> QED BY <1>1, <1>2, <1>3, PTL DEF Spec
=============================================================================
