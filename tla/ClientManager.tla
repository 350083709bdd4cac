---------------------------- MODULE ClientManager ----------------------------
(***************************************************************************)
(* shared/client_manager.go: the registry (a HashMap), the queue of the    *)
(* clients seen alive lately (a PriorityQueue of timestamps), the API      *)
(* calls of the HTTP handlers, the health checks and the cleanup worker.   *)
(*                                                                         *)
(* The two structures have a lock each and no lock covers both, so every   *)
(* access to one of them, and every callback, is a step of its own.  The   *)
(* queue is used through its contract (AbstractPriorityQueue).             *)
(*                                                                         *)
(* Time advances in ticks.  An entry of the queue is its age: the tick     *)
(* count since its timestamp.  Only differences of timestamps are used.    *)
(***************************************************************************)
EXTENDS Maps, Identities

CONSTANTS Nobody,       \* the id of a thread that works on none
          Caller,       \* threads of handlers that call AddClient and the like
          Check,        \* health-check goroutines that may run at a time
          Cleanup,      \* the cleanup worker
          MaxAge,       \* config.MaxAge in ticks
          MinAge,       \* config.MinAge in ticks
          MaxDelay      \* bound: ticks between reading the clock and using it

Thread == Caller \cup Check \cup {Cleanup}

ASSUME IDAssumption == Nobody \notin ID
ASSUME ThreadAssumption ==
    Cleanup \notin Caller \cup Check /\ Caller \cap Check = {}
ASSUME ConfigAssumption ==
    MaxAge \in Nat /\ MinAge \in Nat /\ MaxDelay \in Nat

VARIABLES hashMap,    \* the registered IDs (the keys of cm.hashMap)
          queue,      \* cm.priorityQueue: the age of each listed ID
          listener,   \* the IDs the add and remove callbacks say are listed
          thread,     \* for each thread: where it is, for which ID, since when
          up          \* the clients that answer GET /alive with 200 in time

vars == <<hashMap, queue, listener, thread, up>>

(* Ages beyond this one are all "too old", however late the clock was read.*)
AgeCap == MaxAge + MaxDelay + 1

Idle == [pc |-> "idle", id |-> Nobody, since |-> 0]

At(t, label) == thread[t].pc = label

Begin(t, label, id) ==
    /\ At(t, "idle")
    /\ thread' = [thread EXCEPT ![t] = [pc |-> label, id |-> id, since |-> 0]]

Goto(t, label) == thread' = [thread EXCEPT ![t].pc = label, ![t].since = 0]

Finish(t) == thread' = [thread EXCEPT ![t] = Idle]

Init == /\ hashMap = {}
        /\ queue = [id \in {} |-> 0]
        /\ listener = {}
        /\ thread = [t \in Thread |-> Idle]
        /\ up \in SUBSET ID

-----------------------------------------------------------------------------
(* AddClient: hashMap.Put, then read the clock and Insert, then the add    *)
(* callback.                                                               *)
AddClient(c, id) ==
    /\ Begin(c, "insert", id)
    /\ hashMap' = hashMap \cup {id}
    /\ UNCHANGED <<queue, listener, up>>

(* The clock was read at some moment since the step before.  A health      *)
(* check that found the client alive ends with the same two steps.         *)
Insert(t) ==
    /\ At(t, "insert")
    /\ \E age \in 0 .. thread[t].since : queue' = With(queue, thread[t].id, age)
    /\ Goto(t, "inserted")
    /\ UNCHANGED <<hashMap, listener, up>>

AddCallback(t) ==
    /\ At(t, "inserted")
    /\ listener' = listener \cup {thread[t].id}
    /\ Finish(t)
    /\ UNCHANGED <<hashMap, queue, up>>

(* RemoveClient: hashMap.Remove, priorityQueue.Remove, the remove callback *)
(* if there was an entry.  (Its GetPriority only gives the callback an     *)
(* argument that no callback uses.)                                        *)
RemoveClient(c, id) ==
    /\ Begin(c, "dequeue", id)
    /\ hashMap' = hashMap \ {id}
    /\ UNCHANGED <<queue, listener, up>>

(* Also the end of a health check that found the entry too old.            *)
Dequeue(t) ==
    /\ At(t, "dequeue")
    /\ queue' = Without(queue, thread[t].id)
    /\ IF thread[t].id \in DOMAIN queue THEN Goto(t, "dequeued") ELSE Finish(t)
    /\ UNCHANGED <<hashMap, listener, up>>

RemoveCallback(t) ==
    /\ At(t, "dequeued")
    /\ listener' = listener \ {thread[t].id}
    /\ Finish(t)
    /\ UNCHANGED <<hashMap, queue, up>>

(* Clear: both structures, no callback.                                    *)
Clear(c) ==
    /\ Begin(c, "clear", Nobody)
    /\ hashMap' = {}
    /\ UNCHANGED <<queue, listener, up>>

ClearQueue(c) ==
    /\ At(c, "clear")
    /\ queue' = [id \in {} |-> 0]
    /\ Finish(c)
    /\ UNCHANGED <<hashMap, listener, up>>
-----------------------------------------------------------------------------
(* One tick of healthCheckWorker: a goroutine for a random registered ID.  *)
Pick(k, id) ==
    /\ id \in hashMap
    /\ Begin(k, "contains", id)
    /\ UNCHANGED <<hashMap, queue, listener, up>>

(* A wrong Contains: an ID that is not listed is not checked.              *)
ContainsOrSkip(k) ==
    /\ At(k, "contains")
    /\ IF thread[k].id \in DOMAIN queue THEN Goto(k, "age") ELSE Finish(k)
    /\ UNCHANGED <<hashMap, queue, listener, up>>

(* The goroutine has read the clock at some moment since it was started,   *)
(* and asks the queue; an ID that is not listed is pinged at once.         *)
Contains(k) ==
    /\ At(k, "contains")
    /\ IF thread[k].id \in DOMAIN queue
       THEN \E s \in 0 .. thread[k].since :
               thread' = [thread EXCEPT ![k].pc = "age", ![k].since = s]
       ELSE Goto(k, "ping")
    /\ UNCHANGED <<hashMap, queue, listener, up>>

(* A wrong Judge: an entry too old is taken for a dead client.             *)
JudgeExpiredDead(k) ==
    /\ At(k, "age")
    /\ IF thread[k].id \in DOMAIN queue
          /\ queue[thread[k].id] - thread[k].since > MaxAge
       THEN Goto(k, "dead")
       ELSE Goto(k, "ping")
    /\ UNCHANGED <<hashMap, queue, listener, up>>

(* age = currentTime - priority, which decides what happens to the entry.  *)
Judge(k) ==
    /\ At(k, "age")
    /\ \/ /\ thread[k].id \notin DOMAIN queue
          /\ Goto(k, "ping")
       \/ /\ thread[k].id \in DOMAIN queue
          /\ LET age == queue[thread[k].id] - thread[k].since IN
             \/ age > MaxAge /\ Goto(k, "dequeue")
             \/ age <= MaxAge /\ age < MinAge /\ Finish(k)
             \/ age <= MaxAge /\ age >= MinAge /\ Goto(k, "ping")
    /\ UNCHANGED <<hashMap, queue, listener, up>>

(* A wrong Ping: it sends the request to an ID that is not registered.     *)
PingUnregistered(k) ==
    /\ At(k, "ping")
    /\ Goto(k, "request")
    /\ UNCHANGED <<hashMap, queue, listener, up>>

(* isAlive looks the hostname up; an unregistered ID counts as dead.       *)
Ping(k) ==
    /\ At(k, "ping")
    /\ Goto(k, IF thread[k].id \in hashMap THEN "request" ELSE "dead")
    /\ UNCHANGED <<hashMap, queue, listener, up>>

(* The answer to the HTTP request, or its timeout.                         *)
Answer(k) ==
    /\ At(k, "request")
    /\ Goto(k, IF thread[k].id \in up THEN "insert" ELSE "dead")
    /\ UNCHANGED <<hashMap, queue, listener, up>>

(* A dead client leaves the queue, the callback runs, then the registry.   *)
DequeueDead(k) ==
    /\ At(k, "dead")
    /\ queue' = Without(queue, thread[k].id)
    /\ Goto(k, IF thread[k].id \in DOMAIN queue THEN "dropped" ELSE "unregister")
    /\ UNCHANGED <<hashMap, listener, up>>

DeadCallback(k) ==
    /\ At(k, "dropped")
    /\ listener' = listener \ {thread[k].id}
    /\ Goto(k, "unregister")
    /\ UNCHANGED <<hashMap, queue, up>>

(* A wrong Unregister: it leaves the dead client in the registry.          *)
UnregisterNever(k) ==
    /\ At(k, "unregister")
    /\ Finish(k)
    /\ UNCHANGED <<hashMap, queue, listener, up>>

Unregister(k) ==
    /\ At(k, "unregister")
    /\ hashMap' = hashMap \ {thread[k].id}
    /\ Finish(k)
    /\ UNCHANGED <<queue, listener, up>>
-----------------------------------------------------------------------------
(* One tick of cleanupWorker: read the clock, then Peek and ExtractMin     *)
(* until the first entry is not older than MaxAge.                         *)
StartSweep ==
    /\ Begin(Cleanup, "peek", Nobody)
    /\ UNCHANGED <<hashMap, queue, listener, up>>

Oldest == {id \in DOMAIN queue : \A j \in DOMAIN queue : queue[j] <= queue[id]}

(* A wrong Expired: it spares the entries of unregistered IDs.             *)
ExpiredRegistered(id) == id \in hashMap /\ queue[id] > MaxAge

Expired(id) == queue[id] - thread[Cleanup].since > MaxAge

(* A wrong Peek: the sweep ends before its first entry.                    *)
PeekStopsAtNone ==
    /\ At(Cleanup, "peek")
    /\ Finish(Cleanup)
    /\ UNCHANGED <<hashMap, queue, listener, up>>

Peek ==
    /\ At(Cleanup, "peek")
    /\ IF \E id \in Oldest : Expired(id)
       THEN thread' = [thread EXCEPT ![Cleanup].pc = "extract"]
       ELSE Finish(Cleanup)
    /\ UNCHANGED <<hashMap, queue, listener, up>>

ExtractMin ==
    /\ At(Cleanup, "extract")
    /\ \E id \in Oldest :
          /\ queue' = Without(queue, id)
          /\ thread' = [thread EXCEPT ![Cleanup].pc = "extracted", ![Cleanup].id = id]
    /\ UNCHANGED <<hashMap, listener, up>>

ExtractNothing ==
    /\ At(Cleanup, "extract") /\ DOMAIN queue = {}
    /\ thread' = [thread EXCEPT ![Cleanup].pc = "peek"]
    /\ UNCHANGED <<hashMap, queue, listener, up>>

EvictCallback ==
    /\ At(Cleanup, "extracted")
    /\ listener' = listener \ {thread[Cleanup].id}
    /\ thread' = [thread EXCEPT ![Cleanup].pc = "peek", ![Cleanup].id = Nobody]
    /\ UNCHANGED <<hashMap, queue, up>>
-----------------------------------------------------------------------------
(* Clients come and go, and time passes: one tick for every entry and for  *)
(* every thread that will use a clock it has read.                         *)
Change(id) ==
    /\ up' = IF id \in up THEN up \ {id} ELSE up \cup {id}
    /\ UNCHANGED <<hashMap, queue, listener, thread>>

UsesClock(t) == thread[t].pc \in {"insert", "contains", "age", "peek", "extract", "extracted"}

Older(age) == IF age < AgeCap THEN age + 1 ELSE age

Tick ==
    /\ \A t \in Thread : UsesClock(t) => thread[t].since < MaxDelay
    /\ queue' = [id \in DOMAIN queue |-> Older(queue[id])]
    /\ thread' = [t \in Thread |->
                     IF UsesClock(t) THEN [thread[t] EXCEPT !.since = @ + 1]
                                     ELSE thread[t]]
    /\ UNCHANGED <<hashMap, listener, up>>

Call(c) ==
    \/ \E id \in ID : AddClient(c, id) \/ RemoveClient(c, id)
    \/ Clear(c)

(* The rest of a call that has begun.                                      *)
Continue(t) == Insert(t) \/ AddCallback(t) \/ Dequeue(t) \/ RemoveCallback(t)
               \/ ClearQueue(t)

CheckStep(k) == Contains(k) \/ Judge(k) \/ Ping(k) \/ Answer(k)
                \/ DequeueDead(k) \/ DeadCallback(k) \/ Unregister(k)

Sweep == Peek \/ ExtractMin \/ ExtractNothing \/ EvictCallback

Next ==
    \/ \E c \in Caller : Call(c)
    \/ \E t \in Caller \cup Check : Continue(t)
    \/ \E k \in Check : CheckStep(k) \/ \E id \in ID : Pick(k, id)
    \/ StartSweep \/ Sweep
    \/ \E id \in ID : Change(id)
    \/ Tick

Spec == Init /\ [][Next]_vars

(* A goroutine that can run does; both tickers fire for ever, and a random *)
(* choice repeated for ever falls on every client that stays in the map;   *)
(* time does not stop.  No caller has to call, no client has to change.    *)
Fairness ==
    /\ \A t \in Caller \cup Check : WF_vars(Continue(t))
    /\ \A k \in Check : WF_vars(CheckStep(k))
    /\ \A id \in ID : SF_vars(\E k \in Check : Pick(k, id))
    /\ WF_vars(StartSweep) /\ WF_vars(Sweep)
    /\ SF_vars(Tick)

FairSpec == Spec /\ Fairness
-----------------------------------------------------------------------------
Label == {"idle", "insert", "inserted", "dequeue", "dequeued", "clear",
          "contains", "age", "ping", "request", "dead", "dropped", "unregister",
          "peek", "extract", "extracted"}

(* Ages and delays stay within their bounds, and a thread works on an ID   *)
(* exactly where the code has one in a variable.                           *)
TypeOK ==
    /\ hashMap \subseteq ID
    /\ queue \in [DOMAIN queue -> 0 .. AgeCap] /\ DOMAIN queue \subseteq ID
    /\ listener \subseteq ID
    /\ up \subseteq ID
    /\ thread \in [Thread -> [pc : Label, id : ID \cup {Nobody}, since : 0 .. MaxDelay]]
    /\ \A t \in Thread :
          /\ (thread[t].id = Nobody) <=>
                thread[t].pc \in {"idle", "clear", "peek", "extract"}
          /\ thread[t].since > 0 => UsesClock(t)

(* A client that stays dead and is not added again is unregistered in the  *)
(* end, whatever state the queue, the checks and the calls are in.         *)
Adding(id) == \E c \in Caller : thread[c].id = id /\ thread[c].pc \in {"insert", "inserted"}

DeadUnregistered ==
    \A id \in ID : <>[](id \notin up /\ ~Adding(id)) => <>[](id \notin hashMap)

(* An entry too old is evicted or refreshed: the queue is no leak.         *)
ExpiredEvicted ==
    \A id \in ID : (id \in DOMAIN queue /\ queue[id] > MaxAge)
        ~> (id \notin DOMAIN queue \/ queue[id] <= MaxAge)

(* A queue entry without a registration, which overlapping calls can leave *)
(* behind, does not stay: no check refreshes it for ever.                  *)
GhostVanishes ==
    \A id \in ID : (id \in DOMAIN queue \ hashMap)
        ~> (id \notin DOMAIN queue \/ id \in hashMap)

(* A client that answers and stays registered is listed again and again,   *)
(* so that peers are told of it: expiry and eviction never shut it out.    *)
AliveListed ==
    \A id \in ID : <>[](id \in up /\ id \in hashMap) => []<>(id \in DOMAIN queue)
=============================================================================
