-------------------------- MODULE ClientManagerProofs --------------------------
(***************************************************************************)
(* Theorems about ClientManager and its history, for any clients, callers, *)
(* number of health checks and ages: a client that answers stays           *)
(* registered, one that is removed stays away, and the whole implements a  *)
(* registry.  At the end, theorems about its GetRandomSubset, module       *)
(* RandomSubset.                                                           *)
(***************************************************************************)
EXTENDS ClientManagerHistory, RandomSubset, FiniteSetTheorems, TLAPS

(* What a thread may be at work on.                                        *)
Work == [pc : Label, id : ID \cup {Nobody}, since : 0 .. MaxDelay]

WorkOK(w) ==
    /\ w \in Work
    /\ (w.id = Nobody) <=> w.pc \in {"idle", "clear", "peek", "extract"}
    /\ w.since > 0 => w.pc \in {"insert", "contains", "age", "peek", "extract", "extracted"}

(* The entries of the queue.                                               *)
Ages(q) == q \in [DOMAIN q -> 0 .. AgeCap] /\ DOMAIN q \subseteq ID

(* Nobody has given up a client that is stable, so no check is about to    *)
(* take it out of the registry.                                            *)
StableSafe == \A id \in stable : id \in hashMap /\ id \in up /\ ~Condemned(id)

(* Nothing is under way that could list a client that is gone.             *)
GoneSafe == \A id \in gone : id \in ID \ (hashMap \cup DOMAIN queue) /\ ~WillList(id)

Inv == TypeOK /\ StableSafe /\ GoneSafe
-----------------------------------------------------------------------------
(* What a step does to the registry, the queue and the threads.            *)

(* Only RemoveClient, Clear and a check's verdict take out of the registry.*)
OnlyRemoved == \A id \in hashMap \ hashMap' : RemoveCalled(id) \/ Condemned(id)

(* AddClient registers at once, and nothing else registers.                *)
OnlyPut == /\ \A id \in ID : PutCalled(id) => id \in hashMap'
           /\ \A id \in hashMap' \ hashMap : PutCalled(id)

(* A client is given up that is unregistered or does not answer.           *)
OnlyCondemned == \A id \in ID : (Condemned(id))' =>
    Condemned(id) \/ (~PutCalled(id) /\ id \notin hashMap \cap up)

(* Only what a call or a check was about to insert enters the queue.       *)
OnlyListed == \A id \in DOMAIN queue' \ DOMAIN queue : WillList(id)

(* A call or a check of a registered client is on the way to insert it.    *)
OnlyWillList == \A id \in ID : (WillList(id))' => WillList(id) \/ id \in hashMap \/ PutCalled(id)

(* A removal that ends has taken the client out of the queue.              *)
RemovalTakesOut == \A id \in ID : RemovalDone(id) => id \notin DOMAIN queue'

Effects == OnlyRemoved /\ OnlyPut /\ OnlyCondemned /\ OnlyListed /\ OnlyWillList
           /\ RemovalTakesOut

(* One thread goes on, to w.                                               *)
Goes(t, w) == WorkOK(w) /\ thread' = [thread EXCEPT ![t] = w]
-----------------------------------------------------------------------------
(* The type invariant in two parts.                                        *)
LEMMA TypeParts ==
    TypeOK <=> /\ hashMap \subseteq ID /\ Ages(queue) /\ listener \subseteq ID /\ up \subseteq ID
               /\ thread \in [Thread -> Work] /\ \A t \in Thread : WorkOK(thread[t])
  BY DEF TypeOK, Ages, WorkOK, Work, UsesClock

(* The bounds are numbers.                                                 *)
LEMMA DelayBounds ==
    /\ MaxDelay \in Nat /\ AgeCap \in Nat
    /\ 0 \in 0 .. MaxDelay /\ 0 .. MaxDelay \subseteq 0 .. AgeCap
  BY ConfigAssumption DEF AgeCap

(* A queue gains or loses an entry.                                        *)
LEMMA QueueChanges ==
    ASSUME NEW q, Ages(q), NEW id \in ID, NEW age \in 0 .. AgeCap
    PROVE  /\ Ages(With(q, id, age)) /\ DOMAIN With(q, id, age) = DOMAIN q \cup {id}
           /\ Ages(Without(q, id)) /\ DOMAIN Without(q, id) = DOMAIN q \ {id}
  BY DEF Ages, With, Without

(* The labels of Goto: what follows it.                                    *)
LEMMA GotoGoes ==
    ASSUME TypeOK, NEW t \in Thread, NEW label \in Label, Goto(t, label),
           (thread[t].id = Nobody) <=> label \in {"idle", "clear", "peek", "extract"}
    PROVE  \E w : Goes(t, w) /\ w.pc = label /\ w.id = thread[t].id
  <1> DEFINE w == [pc |-> label, id |-> thread[t].id, since |-> 0]
  <1>1. thread[t] \in Work /\ thread \in [Thread -> Work]
    BY TypeParts
  <1>2. w.pc = label /\ w.id = thread[t].id /\ w.since = 0 /\ w \in Work
    BY <1>1, DelayBounds DEF Work
  <1>3. WorkOK(w)
    <2> HIDE DEF w
    <2> QED BY <1>2 DEF WorkOK
  <1>4. w = [[thread[t] EXCEPT !.pc = label] EXCEPT !.since = 0]
    <2> DEFINE v == [pc |-> label, id |-> thread[t].id, since |-> thread[t].since]
    <2>1. v = [thread[t] EXCEPT !.pc = label]
      BY <1>1 DEF Work
    <2>2. w = [v EXCEPT !.since = 0]
      OBVIOUS
    <2> HIDE DEF v, w
    <2> QED BY <2>1, <2>2
  <1>5. thread' = [thread EXCEPT ![t] = w]
    BY <1>1, <1>4 DEF Goto
  <1> QED BY <1>2, <1>3, <1>5 DEF Goes

(* Finish.                                                                 *)
LEMMA FinishGoes ==
    ASSUME NEW t \in Thread, Finish(t)
    PROVE  \E w : Goes(t, w) /\ w.pc = "idle" /\ w.id = Nobody
  <1>1. WorkOK(Idle) /\ Idle.pc = "idle" /\ Idle.id = Nobody
    BY DelayBounds DEF WorkOK, Work, Idle, Label
  <1> QED BY <1>1 DEF Finish, Goes

(* Begin.                                                                  *)
LEMMA BeginGoes ==
    ASSUME NEW t \in Thread, NEW label \in Label, NEW id \in ID \cup {Nobody}, Begin(t, label, id),
           (id = Nobody) <=> label \in {"idle", "clear", "peek", "extract"}
    PROVE  \E w : Goes(t, w) /\ w.pc = label /\ w.id = id
  <1> DEFINE w == [pc |-> label, id |-> id, since |-> 0]
  <1>1. WorkOK(w) /\ w.pc = label /\ w.id = id
    BY DelayBounds DEF WorkOK, Work
  <1> QED BY <1>1 DEF Begin, Goes

(* Pointwise: what one thread's step means for the threads.                *)
LEMMA ThreadGoes ==
    ASSUME TypeOK, NEW t \in Thread, NEW w, Goes(t, w)
    PROVE  /\ thread' \in [Thread -> Work] /\ \A u \in Thread : WorkOK(thread'[u])
           /\ thread'[t] = w /\ \A u \in Thread : u # t => thread'[u] = thread[u]
  <1>1. thread \in [Thread -> Work] /\ w \in Work
    BY TypeParts DEF Goes, WorkOK
  <1>2. /\ thread'[t] = w /\ \A u \in Thread : u # t => thread'[u] = thread[u]
        /\ thread' \in [Thread -> Work]
    BY <1>1 DEF Goes
  <1> QED BY <1>2, TypeParts DEF Goes

(* A thread at work on a client.                                           *)
LEMMA Busy ==
    ASSUME TypeOK, NEW t \in Thread, thread[t].pc \notin {"idle", "clear", "peek", "extract"}
    PROVE  thread[t].id \in ID
  BY TypeParts DEF WorkOK, Work

(* A thread's step that registers nothing.                                 *)
LEMMA MoveOK ==
    ASSUME TypeOK, NEW t \in Thread, NEW w, Goes(t, w), UNCHANGED up,
           hashMap' \subseteq hashMap, OnlyRemoved,
           Ages(queue'), OnlyListed, listener' \subseteq ID,
           thread[t].pc = "dequeue" => thread[t].id \notin DOMAIN queue',
           thread[t].pc = "clear" => DOMAIN queue' = {},
           w.pc \in {"dead", "dropped", "unregister"} =>
               \/ thread[t].pc \in {"dead", "dropped", "unregister"} /\ w.id = thread[t].id
               \/ w.id \notin hashMap \cap up,
           w.pc \in {"request", "insert"} =>
               /\ thread[t].pc # "idle"
               /\ \/ thread[t].pc \in {"request", "insert"} /\ w.id = thread[t].id
                  \/ w.id \in hashMap
    PROVE  TypeOK' /\ Effects
  <1>1. /\ thread' \in [Thread -> Work] /\ \A u \in Thread : WorkOK(thread'[u])
        /\ thread'[t] = w /\ \A u \in Thread : u # t => thread'[u] = thread[u]
    BY ThreadGoes
  <1>2. TypeOK'
    BY <1>1, TypeParts DEF TypeOK, Ages, WorkOK, Work, UsesClock
  <1> Caller \subseteq Thread /\ Check \subseteq Thread
    BY DEF Thread
  <1>3. \A id : ~PutCalled(id)
    BY <1>1 DEF PutCalled, Starts, At
  <1>4. OnlyPut
    BY <1>3 DEF OnlyPut
  <1>5. OnlyCondemned
    BY <1>1, <1>3 DEF OnlyCondemned, Condemned
  <1>6. OnlyWillList
    BY <1>1 DEF OnlyWillList, WillList
  <1>7. RemovalTakesOut
    BY <1>1 DEF RemovalTakesOut, RemovalDone, At
  <1> QED BY <1>2, <1>4, <1>5, <1>6, <1>7 DEF Effects

(* What does not touch a structure adds nothing to it.                     *)
LEMMA Untouched ==
    ASSUME TypeOK
    PROVE  /\ UNCHANGED hashMap => hashMap' \subseteq hashMap /\ OnlyRemoved
           /\ UNCHANGED queue => Ages(queue') /\ OnlyListed
           /\ UNCHANGED listener => listener' \subseteq ID
           /\ \A id : listener' = listener \ {id} => listener' \subseteq ID
           /\ \A id \in ID : queue' = Without(queue, id) => /\ Ages(queue') /\ OnlyListed
                                                            /\ id \notin DOMAIN queue'
  <1>1. \A id \in ID : DOMAIN Without(queue, id) = DOMAIN queue \ {id}
                      /\ Ages(Without(queue, id))
    BY QueueChanges, TypeParts, DelayBounds
  <1> QED BY <1>1, TypeParts DEF OnlyRemoved, OnlyListed
-----------------------------------------------------------------------------
(* The beginning of AddClient, RemoveClient and Clear.                     *)
LEMMA CallOK ==
    ASSUME TypeOK, NEW c \in Caller, Call(c)
    PROVE  TypeOK' /\ Effects
  <1> c \in Thread /\ Caller \subseteq Thread /\ Check \subseteq Thread
    BY DEF Thread
  <1> hashMap \subseteq ID /\ listener \subseteq ID
    BY TypeParts
  <1>1. CASE \E id \in ID : AddClient(c, id)
    <2> PICK id \in ID : AddClient(c, id)
      BY <1>1
    <2>1. PICK w : Goes(c, w) /\ w.pc = "insert" /\ w.id = id
      BY BeginGoes, IDAssumption DEF AddClient, Label
    <2>2. /\ thread' \in [Thread -> Work] /\ \A u \in Thread : WorkOK(thread'[u])
          /\ thread'[c] = w /\ \A u \in Thread : u # c => thread'[u] = thread[u]
      BY <2>1, ThreadGoes
    <2>3. /\ hashMap' = hashMap \cup {id} /\ UNCHANGED <<queue, listener, up>>
          /\ thread[c].pc = "idle"
      BY DEF AddClient, Begin, At
    <2>4. TypeOK'
      BY <2>2, <2>3, TypeParts DEF TypeOK, Ages, WorkOK, Work, UsesClock
    <2>5. \A j : PutCalled(j) <=> j = id
      BY <2>1, <2>2, <2>3 DEF PutCalled, Starts, At
    <2>6. OnlyRemoved /\ OnlyPut /\ OnlyListed
      BY <2>3, <2>5 DEF OnlyRemoved, OnlyPut, OnlyListed
    <2>7. OnlyCondemned
      BY <2>1, <2>2 DEF OnlyCondemned, Condemned
    <2>8. OnlyWillList
      BY <2>1, <2>2, <2>5 DEF OnlyWillList, WillList
    <2>9. RemovalTakesOut
      BY <2>2, <2>3 DEF RemovalTakesOut, RemovalDone, At
    <2> QED BY <2>4, <2>6, <2>7, <2>8, <2>9 DEF Effects
  <1>2. CASE \E id \in ID : RemoveClient(c, id)
    <2> PICK id \in ID : RemoveClient(c, id)
      BY <1>2
    <2>1. PICK w : Goes(c, w) /\ w.pc = "dequeue" /\ w.id = id
      BY BeginGoes, IDAssumption DEF RemoveClient, Label
    <2>2. /\ hashMap' = hashMap \ {id} /\ UNCHANGED <<queue, listener, up>>
          /\ thread[c].pc = "idle"
      BY DEF RemoveClient, Begin, At
    <2>3. RemoveCalled(id)
      BY <2>1, <2>2, ThreadGoes DEF RemoveCalled, Starts, At
    <2>4. OnlyRemoved
      BY <2>2, <2>3 DEF OnlyRemoved
    <2> QED BY <2>1, <2>2, <2>4, MoveOK, Untouched
  <1>3. CASE Clear(c)
    <2>1. PICK w : Goes(c, w) /\ w.pc = "clear" /\ w.id = Nobody
      BY <1>3, BeginGoes DEF Clear, Label
    <2>2. /\ hashMap' = {} /\ UNCHANGED <<queue, listener, up>>
          /\ thread[c].pc = "idle"
      BY <1>3 DEF Clear, Begin, At
    <2>3. \A id : RemoveCalled(id)
      BY <2>1, <2>2, ThreadGoes DEF RemoveCalled, Starts, At
    <2>4. OnlyRemoved
      BY <2>3 DEF OnlyRemoved
    <2> QED BY <2>1, <2>2, <2>4, MoveOK, Untouched
  <1> QED BY <1>1, <1>2, <1>3 DEF Call

(* The rest of a call, and the end of a check.                             *)
LEMMA ContinueOK ==
    ASSUME TypeOK, NEW t \in Caller \cup Check, Continue(t)
    PROVE  TypeOK' /\ Effects
  <1> t \in Thread
    BY DEF Thread
  <1>1. CASE Insert(t)
    <2>1. PICK age \in 0 .. thread[t].since : queue' = With(queue, thread[t].id, age)
      BY <1>1 DEF Insert
    <2>2. /\ thread[t].pc = "insert" /\ thread[t].id \in ID /\ thread[t].id # Nobody
          /\ UNCHANGED <<hashMap, listener, up>>
      BY <1>1, Busy, IDAssumption DEF Insert, At
    <2>3. age \in 0 .. AgeCap
      BY <2>1, TypeParts, DelayBounds DEF Work
    <2>4. Ages(queue') /\ DOMAIN queue' = DOMAIN queue \cup {thread[t].id}
      BY <2>1, <2>2, <2>3, QueueChanges, TypeParts
    <2>5. OnlyListed
      BY <2>2, <2>4 DEF OnlyListed, WillList
    <2>6. PICK w : Goes(t, w) /\ w.pc = "inserted" /\ w.id = thread[t].id
      BY <1>1, <2>2, GotoGoes DEF Insert, Label
    <2> QED BY <2>2, <2>4, <2>5, <2>6, MoveOK, Untouched
  <1>2. CASE AddCallback(t)
    <2>1. /\ thread[t].pc = "inserted" /\ thread[t].id \in ID
          /\ listener' = listener \cup {thread[t].id} /\ UNCHANGED <<hashMap, queue, up>>
      BY <1>2, Busy DEF AddCallback, At
    <2>2. PICK w : Goes(t, w) /\ w.pc = "idle"
      BY <1>2, FinishGoes DEF AddCallback
    <2>3. listener' \subseteq ID
      BY <2>1, TypeParts
    <2> QED BY <2>1, <2>2, <2>3, MoveOK, Untouched
  <1>3. CASE Dequeue(t)
    <2>1. /\ thread[t].pc = "dequeue" /\ thread[t].id \in ID /\ thread[t].id # Nobody
          /\ queue' = Without(queue, thread[t].id) /\ UNCHANGED <<hashMap, listener, up>>
      BY <1>3, Busy, IDAssumption DEF Dequeue, At
    <2>2. PICK w : Goes(t, w) /\ w.pc \in {"idle", "dequeued"}
      BY <1>3, <2>1, FinishGoes, GotoGoes DEF Dequeue, Label
    <2> QED BY <2>1, <2>2, MoveOK, Untouched
  <1>4. CASE RemoveCallback(t)
    <2>1. /\ thread[t].pc = "dequeued" /\ listener' = listener \ {thread[t].id}
          /\ UNCHANGED <<hashMap, queue, up>>
      BY <1>4 DEF RemoveCallback, At
    <2>2. PICK w : Goes(t, w) /\ w.pc = "idle"
      BY <1>4, FinishGoes DEF RemoveCallback
    <2> QED BY <2>1, <2>2, MoveOK, Untouched
  <1>5. CASE ClearQueue(t)
    <2>1. /\ thread[t].pc = "clear" /\ DOMAIN queue' = {} /\ Ages(queue')
          /\ UNCHANGED <<hashMap, listener, up>>
      BY <1>5 DEF ClearQueue, At, Ages
    <2>2. PICK w : Goes(t, w) /\ w.pc = "idle"
      BY <1>5, FinishGoes DEF ClearQueue
    <2>3. OnlyListed
      BY <2>1 DEF OnlyListed
    <2> QED BY <2>1, <2>2, <2>3, MoveOK, Untouched
  <1> QED BY <1>1, <1>2, <1>3, <1>4, <1>5 DEF Continue
-----------------------------------------------------------------------------
(* A health check begins for a registered client.                          *)
LEMMA PickOK ==
    ASSUME TypeOK, NEW k \in Check, NEW id \in ID, Pick(k, id)
    PROVE  TypeOK' /\ Effects
  <1> k \in Thread
    BY DEF Thread
  <1>1. PICK w : Goes(k, w) /\ w.pc = "contains"
    BY BeginGoes, IDAssumption DEF Pick, Label
  <1>2. UNCHANGED <<hashMap, queue, listener, up>> /\ thread[k].pc = "idle"
    BY DEF Pick, Begin, At
  <1> QED BY <1>1, <1>2, MoveOK, Untouched

(* It decides what becomes of the client.                                  *)
LEMMA DecideOK ==
    ASSUME TypeOK, NEW k \in Check, Contains(k) \/ Judge(k) \/ Ping(k) \/ Answer(k)
    PROVE  TypeOK' /\ Effects
  <1> k \in Thread
    BY DEF Thread
  <1>1. /\ UNCHANGED <<hashMap, queue, listener, up>>
        /\ thread[k].pc \in {"contains", "age", "ping", "request"}
    BY DEF Contains, Judge, Ping, Answer, At
  <1>2. thread[k].id \in ID /\ thread[k].id # Nobody
    BY <1>1, Busy, IDAssumption
  <1>3. CASE Contains(k)
    <2>1. CASE Goto(k, "ping")
      <3>1. PICK w : Goes(k, w) /\ w.pc = "ping"
        BY <1>2, <2>1, GotoGoes DEF Label
      <3> QED BY <1>1, <3>1, MoveOK, Untouched
    <2>2. CASE ~Goto(k, "ping")
      <3>1. PICK s \in 0 .. thread[k].since :
               thread' = [thread EXCEPT ![k].pc = "age", ![k].since = s]
        BY <1>3, <2>2 DEF Contains
      <3> DEFINE w == [pc |-> "age", id |-> thread[k].id, since |-> s]
      <3>2. thread[k] \in Work /\ thread \in [Thread -> Work]
        BY TypeParts
      <3>3. s \in 0 .. MaxDelay
        BY <3>2, ConfigAssumption DEF Work
      <3>4. WorkOK(w)
        BY <1>2, <3>3 DEF WorkOK, Work, Label
      <3>5. w = [[thread[k] EXCEPT !.pc = "age"] EXCEPT !.since = s]
        <4> DEFINE v == [pc |-> "age", id |-> thread[k].id, since |-> thread[k].since]
        <4>1. v = [thread[k] EXCEPT !.pc = "age"]
          BY <3>2 DEF Work
        <4>2. w = [v EXCEPT !.since = s]
          OBVIOUS
        <4> HIDE DEF v, w
        <4> QED BY <4>1, <4>2
      <3>6. Goes(k, w)
        BY <3>1, <3>2, <3>4, <3>5 DEF Goes
      <3>7. w.pc = "age"
        OBVIOUS
      <3> HIDE DEF w
      <3> QED BY <1>1, <3>6, <3>7, MoveOK, Untouched
    <2> QED BY <2>1, <2>2
  <1>4. CASE Judge(k)
    <2>1. Goto(k, "ping") \/ Goto(k, "dequeue") \/ Finish(k)
      BY <1>4 DEF Judge
    <2>2. PICK w : Goes(k, w) /\ w.pc \in {"ping", "dequeue", "idle"}
      BY <1>2, <2>1, GotoGoes, FinishGoes DEF Label
    <2> QED BY <1>1, <2>2, MoveOK, Untouched
  <1>5. CASE Ping(k)
    <2> DEFINE label == IF thread[k].id \in hashMap THEN "request" ELSE "dead"
    <2>1. Goto(k, label) /\ label \in Label \ {"idle", "clear", "peek", "extract"}
      BY <1>5 DEF Ping, Label
    <2>2. PICK w : Goes(k, w) /\ w.pc = label /\ w.id = thread[k].id
      BY <1>2, <2>1, GotoGoes
    <2> QED BY <1>1, <2>2, MoveOK, Untouched
  <1>6. CASE Answer(k)
    <2> DEFINE label == IF thread[k].id \in up THEN "insert" ELSE "dead"
    <2>1. /\ Goto(k, label) /\ label \in Label \ {"idle", "clear", "peek", "extract"}
          /\ thread[k].pc = "request"
      BY <1>6 DEF Answer, At, Label
    <2>2. PICK w : Goes(k, w) /\ w.pc = label /\ w.id = thread[k].id
      BY <1>2, <2>1, GotoGoes
    <2> QED BY <1>1, <2>1, <2>2, MoveOK, Untouched
  <1> QED BY <1>3, <1>4, <1>5, <1>6

(* A client found dead leaves the queue and the registry.                  *)
LEMMA VerdictOK ==
    ASSUME TypeOK, NEW k \in Check, DequeueDead(k) \/ DeadCallback(k) \/ Unregister(k)
    PROVE  TypeOK' /\ Effects
  <1> k \in Thread
    BY DEF Thread
  <1>1. thread[k].pc \in {"dead", "dropped", "unregister"} /\ UNCHANGED up
    BY DEF DequeueDead, DeadCallback, Unregister, At
  <1>2. thread[k].id \in ID /\ thread[k].id # Nobody
    BY <1>1, Busy, IDAssumption
  <1>3. CASE DequeueDead(k)
    <2> DEFINE label == IF thread[k].id \in DOMAIN queue THEN "dropped" ELSE "unregister"
    <2>1. /\ Goto(k, label) /\ label \in {"dropped", "unregister"}
          /\ UNCHANGED <<hashMap, listener>> /\ queue' = Without(queue, thread[k].id)
      BY <1>3 DEF DequeueDead
    <2> HIDE DEF label
    <2>2. PICK w : Goes(k, w) /\ w.pc = label /\ w.id = thread[k].id
      BY <1>2, <2>1, GotoGoes DEF Label
    <2> QED BY <1>1, <1>2, <2>1, <2>2, MoveOK, Untouched
  <1>4. CASE DeadCallback(k)
    <2>1. PICK w : Goes(k, w) /\ w.pc = "unregister" /\ w.id = thread[k].id
      BY <1>2, <1>4, GotoGoes DEF DeadCallback, Label
    <2>2. UNCHANGED <<hashMap, queue>> /\ listener' = listener \ {thread[k].id}
      BY <1>4 DEF DeadCallback
    <2> QED BY <1>1, <2>1, <2>2, MoveOK, Untouched
  <1>5. CASE Unregister(k)
    <2>1. PICK w : Goes(k, w) /\ w.pc = "idle"
      BY <1>5, FinishGoes DEF Unregister
    <2>2. UNCHANGED <<queue, listener>> /\ hashMap' = hashMap \ {thread[k].id}
      BY <1>5 DEF Unregister
    <2>3. Condemned(thread[k].id) /\ hashMap' \subseteq hashMap
      BY <1>1, <2>2 DEF Condemned
    <2>4. OnlyRemoved
      BY <2>2, <2>3 DEF OnlyRemoved
    <2> QED BY <1>1, <2>1, <2>2, <2>3, <2>4, MoveOK, Untouched
  <1> QED BY <1>3, <1>4, <1>5
-----------------------------------------------------------------------------
(* The cleanup worker keeps the time at which it read the clock.           *)
LEMMA SweepGoes ==
    ASSUME TypeOK, NEW label \in {"peek", "extract", "extracted"}, NEW id \in ID \cup {Nobody},
           UsesClock(Cleanup), (id = Nobody) <=> label \in {"peek", "extract"},
           \/ thread' = [thread EXCEPT ![Cleanup].pc = label] /\ id = thread[Cleanup].id
           \/ thread' = [thread EXCEPT ![Cleanup].pc = label, ![Cleanup].id = id]
    PROVE  \E w : Goes(Cleanup, w) /\ w.pc = label /\ w.id = id
  <1> Cleanup \in Thread
    BY DEF Thread
  <1> DEFINE old == thread[Cleanup]
             v == [pc |-> label, id |-> old.id, since |-> old.since]
             w == [pc |-> label, id |-> id, since |-> old.since]
  <1>1. old \in Work /\ thread \in [Thread -> Work]
    BY TypeParts
  <1>2. v = [old EXCEPT !.pc = label] /\ w = [v EXCEPT !.id = id]
    BY <1>1 DEF Work
  <1>3. w.pc = label /\ w.id = id /\ w.since = old.since /\ w \in Work
    BY <1>1 DEF Work, Label
  <1>4. WorkOK(w)
    <2> HIDE DEF w
    <2> QED BY <1>3 DEF WorkOK
  <1>5. id = old.id => v = w
    OBVIOUS
  <1>6. Goes(Cleanup, w)
    <2> HIDE DEF v, w
    <2> QED BY <1>1, <1>2, <1>4, <1>5 DEF Goes
  <1> QED BY <1>3, <1>6

(* One tick of the cleanup worker.                                         *)
LEMMA SweepOK ==
    ASSUME TypeOK, StartSweep \/ Sweep
    PROVE  TypeOK' /\ Effects
  <1> Cleanup \in Thread
    BY DEF Thread
  <1>1. CASE StartSweep
    <2>1. PICK w : Goes(Cleanup, w) /\ w.pc = "peek"
      BY <1>1, BeginGoes DEF StartSweep, Label
    <2>2. UNCHANGED <<hashMap, queue, listener, up>> /\ thread[Cleanup].pc = "idle"
      BY <1>1 DEF StartSweep, Begin, At
    <2> QED BY <2>1, <2>2, MoveOK, Untouched
  <1>2. CASE Peek
    <2>1. /\ UNCHANGED <<hashMap, queue, listener, up>> /\ thread[Cleanup].pc = "peek"
          /\ thread[Cleanup].id = Nobody /\ UsesClock(Cleanup)
      BY <1>2, TypeParts DEF Peek, At, WorkOK, UsesClock
    <2>2. PICK w : Goes(Cleanup, w) /\ w.pc \in {"extract", "idle"}
      BY <1>2, <2>1, SweepGoes, FinishGoes DEF Peek
    <2> QED BY <2>1, <2>2, MoveOK, Untouched
  <1>3. CASE ExtractMin
    <2>1. PICK id \in Oldest :
            /\ queue' = Without(queue, id)
            /\ thread' = [thread EXCEPT ![Cleanup].pc = "extracted", ![Cleanup].id = id]
      BY <1>3 DEF ExtractMin
    <2>2. /\ UNCHANGED <<hashMap, listener, up>> /\ thread[Cleanup].pc = "extract"
          /\ UsesClock(Cleanup) /\ id \in ID /\ id # Nobody
      BY <1>3, TypeParts, IDAssumption DEF ExtractMin, At, UsesClock, Oldest, Ages
    <2>3. PICK w : Goes(Cleanup, w) /\ w.pc = "extracted"
      BY <2>1, <2>2, SweepGoes
    <2> QED BY <2>1, <2>2, <2>3, MoveOK, Untouched
  <1>4. CASE ExtractNothing
    <2>1. /\ UNCHANGED <<hashMap, queue, listener, up>> /\ thread[Cleanup].pc = "extract"
          /\ thread[Cleanup].id = Nobody /\ UsesClock(Cleanup)
      BY <1>4, TypeParts DEF ExtractNothing, At, WorkOK, UsesClock
    <2>2. PICK w : Goes(Cleanup, w) /\ w.pc = "peek"
      BY <1>4, <2>1, SweepGoes DEF ExtractNothing
    <2> QED BY <2>1, <2>2, MoveOK, Untouched
  <1>5. CASE EvictCallback
    <2>1. /\ UNCHANGED <<hashMap, queue, up>> /\ thread[Cleanup].pc = "extracted"
          /\ UsesClock(Cleanup) /\ listener' = listener \ {thread[Cleanup].id}
      BY <1>5 DEF EvictCallback, At, UsesClock
    <2>2. PICK w : Goes(Cleanup, w) /\ w.pc = "peek"
      BY <1>5, <2>1, SweepGoes DEF EvictCallback
    <2> QED BY <2>1, <2>2, MoveOK, Untouched
  <1> QED BY <1>1, <1>2, <1>3, <1>4, <1>5 DEF Sweep

(* Steps after which every thread is where it was, for the same client.    *)
LEMMA AllStay ==
    ASSUME \A t \in Thread : thread'[t].pc = thread[t].pc /\ thread'[t].id = thread[t].id,
           UNCHANGED hashMap, DOMAIN queue' = DOMAIN queue
    PROVE  Effects
  <1> Caller \subseteq Thread /\ Check \subseteq Thread
    BY DEF Thread
  <1>1. \A id : ~PutCalled(id)
    BY DEF PutCalled, Starts, At
  <1>2. OnlyRemoved /\ OnlyPut /\ OnlyListed
    BY <1>1 DEF OnlyRemoved, OnlyPut, OnlyListed
  <1>3. OnlyCondemned /\ OnlyWillList
    BY DEF OnlyCondemned, OnlyWillList, Condemned, WillList
  <1>4. RemovalTakesOut
    BY DEF RemovalTakesOut, RemovalDone, At
  <1> QED BY <1>2, <1>3, <1>4 DEF Effects

(* Clients come and go, and time passes.                                   *)
LEMMA WorldOK ==
    ASSUME TypeOK, Tick \/ \E id \in ID : Change(id)
    PROVE  TypeOK' /\ Effects
  <1>1. CASE Tick
    <2>1. /\ \A t \in Thread : UsesClock(t) => thread[t].since < MaxDelay
          /\ thread' = [t \in Thread |-> IF UsesClock(t)
                                         THEN [thread[t] EXCEPT !.since = @ + 1] ELSE thread[t]]
          /\ queue' = [id \in DOMAIN queue |-> Older(queue[id])]
          /\ UNCHANGED <<hashMap, listener, up>>
      BY <1>1 DEF Tick
    <2>2. ASSUME NEW t \in Thread
          PROVE  WorkOK(thread'[t]) /\ thread'[t].pc = thread[t].pc /\ thread'[t].id = thread[t].id
      <3>1. WorkOK(thread[t]) /\ thread[t] \in Work
        BY TypeParts
      <3>2. CASE ~UsesClock(t)
        BY <2>1, <3>1, <3>2
      <3>3. CASE UsesClock(t)
        <4>1. thread'[t] = [thread[t] EXCEPT !.since = thread[t].since + 1]
          BY <2>1, <3>3
        <4>2. thread[t].since + 1 \in 0 .. MaxDelay
          BY <2>1, <3>1, <3>3, ConfigAssumption DEF Work
        <4>3. /\ thread'[t] \in Work
              /\ thread'[t].pc = thread[t].pc /\ thread'[t].id = thread[t].id
          BY <3>1, <4>1, <4>2 DEF Work
        <4> QED BY <3>1, <3>3, <4>3 DEF WorkOK, UsesClock
      <3> QED BY <3>2, <3>3
    <2>3. thread' \in [Thread -> Work]
      <3> DEFINE new(t) == IF UsesClock(t) THEN [thread[t] EXCEPT !.since = @ + 1] ELSE thread[t]
      <3>1. thread' = [t \in Thread |-> new(t)]
        BY <2>1
      <3> HIDE DEF new
      <3>2. \A t \in Thread : thread'[t] \in Work
        BY <2>2 DEF WorkOK
      <3> QED BY <3>1, <3>2
    <2>4. Ages(queue') /\ DOMAIN queue' = DOMAIN queue
      <3>1. \A age \in 0 .. AgeCap : Older(age) \in 0 .. AgeCap
        BY DelayBounds DEF Older
      <3> QED BY <2>1, <3>1, TypeParts DEF Ages
    <2>5. TypeOK'
      BY <2>1, <2>2, <2>3, <2>4, TypeParts DEF TypeOK, Ages, WorkOK, Work, UsesClock
    <2> QED BY <2>1, <2>2, <2>4, <2>5, AllStay
  <1>2. CASE \E id \in ID : Change(id)
    <2>1. UNCHANGED <<hashMap, queue, listener, thread>> /\ up' \subseteq ID
      BY <1>2, TypeParts DEF Change
    <2>2. TypeOK'
      BY <2>1 DEF TypeOK, UsesClock
    <2> QED BY <2>1, <2>2, AllStay
  <1> QED BY <1>1, <1>2

(* Every step keeps the types, and has no other effect than those.         *)
LEMMA StepOK ==
    ASSUME TypeOK, Next
    PROVE  TypeOK' /\ Effects
  BY CallOK, ContinueOK, PickOK, DecideOK, VerdictOK, SweepOK, WorldOK DEF Next, CheckStep
-----------------------------------------------------------------------------
(* A stable client stays safe: no check that could have given it up did.   *)
LEMMA StableOK ==
    ASSUME Inv, Effects, Observe
    PROVE  StableSafe'
  <1> SUFFICES ASSUME NEW id \in stable'
               PROVE  id \in hashMap' /\ id \in up' /\ ~(Condemned(id))'
    BY DEF StableSafe, Condemned
  <1>1. /\ id \in up /\ id \in up' /\ ~RemoveCalled(id)
        /\ id \in stable \/ (PutCalled(id) /\ ~Condemned(id))
    BY DEF Observe
  <1>2. id \in ID
    BY <1>1, TypeParts DEF Inv
  <1>3. ~Condemned(id)
    BY <1>1 DEF Inv, StableSafe
  <1>4. id \in hashMap'
    BY <1>1, <1>2, <1>3 DEF Inv, StableSafe, Effects, OnlyRemoved, OnlyPut
  <1>5. ~(Condemned(id))'
    BY <1>1, <1>2, <1>3 DEF Inv, StableSafe, Effects, OnlyCondemned
  <1> QED BY <1>1, <1>4, <1>5

(* A client that is gone stays away: nobody was going to list it.          *)
LEMMA GoneOK ==
    ASSUME Inv, Effects, Observe
    PROVE  GoneSafe'
  <1> SUFFICES ASSUME NEW id \in gone'
               PROVE  id \in ID \ (hashMap' \cup DOMAIN queue') /\ ~(WillList(id))'
    BY DEF GoneSafe, WillList
  <1>1. /\ id \in ID /\ ~PutCalled(id)
        /\ id \in gone \/ (RemovalDone(id) /\ id \notin hashMap /\ ~WillList(id))
    BY DEF Observe
  <1>2. id \notin hashMap /\ ~WillList(id)
    BY <1>1 DEF Inv, GoneSafe
  <1>3. id \notin hashMap'
    BY <1>1, <1>2 DEF Effects, OnlyPut
  <1>4. id \notin DOMAIN queue'
    BY <1>1, <1>2 DEF Inv, GoneSafe, Effects, OnlyListed, RemovalTakesOut
  <1>5. ~(WillList(id))'
    BY <1>1, <1>2 DEF Effects, OnlyWillList
  <1> QED BY <1>1, <1>3, <1>4, <1>5

(* Nothing is registered at the start.                                     *)
LEMMA InitInv == HistoryInit => Inv
  <1> SUFFICES ASSUME Init, HistoryInit PROVE Inv
    BY DEF HistoryInit
  <1>1. WorkOK(Idle)
    BY DelayBounds DEF WorkOK, Work, Idle, Label
  <1>2. thread \in [Thread -> Work] /\ \A t \in Thread : WorkOK(thread[t])
    BY <1>1 DEF Init, WorkOK
  <1>3. Ages(queue)
    BY DEF Init, Ages
  <1>4. TypeOK
    BY <1>2, <1>3, TypeParts DEF Init
  <1> QED BY <1>4 DEF Inv, StableSafe, GoneSafe, HistoryInit

(* Every step keeps the invariant.                                         *)
LEMMA NextInv ==
    ASSUME Inv, [Next /\ Observe]_allvars
    PROVE  Inv'
  <1>1. CASE Next /\ Observe
    BY <1>1, StepOK, StableOK, GoneOK DEF Inv
  <1>2. CASE UNCHANGED allvars
    BY <1>2 DEF allvars, vars, history, Inv, TypeOK, UsesClock, StableSafe, GoneSafe, Condemned,
                WillList
  <1> QED BY <1>1, <1>2

(* The inductive invariant holds always.                                   *)
LEMMA Invariant == HistorySpec => []Inv
  BY InitInv, NextInv, PTL DEF HistorySpec

(* Ages and delays stay within their bounds, and a thread works on a client*)
(* exactly where the code has one in a variable.                           *)
THEOREM TypeCorrect == Spec => []TypeOK
  <1>1. Init => TypeOK
    <2> SUFFICES ASSUME Init PROVE TypeOK
      OBVIOUS
    <2>1. WorkOK(Idle)
      BY DelayBounds DEF WorkOK, Work, Idle, Label
    <2>2. thread \in [Thread -> Work] /\ \A t \in Thread : WorkOK(thread[t])
      BY <2>1 DEF Init, WorkOK
    <2> QED BY <2>2, TypeParts DEF Init, Ages
  <1>2. TypeOK /\ [Next]_vars => TypeOK'
    <2>1. CASE UNCHANGED vars
      BY <2>1 DEF vars, TypeOK, UsesClock
    <2> QED BY <2>1, StepOK
  <1> QED BY <1>1, <1>2, PTL DEF Spec

(* A client that was answering when it was registered, and has answered    *)
(* since, stays registered until someone removes it, if no check had given *)
(* it up before.                                                           *)
THEOREM StableStaysRegistered == HistorySpec => []StableRegistered
  <1>1. Inv => StableRegistered
    BY DEF Inv, StableSafe, StableRegistered
  <1> QED BY Invariant, <1>1, PTL

(* A removed client stays unregistered and unlisted until it is added      *)
(* again, if nothing that could still list it was under way.               *)
THEOREM GoneStaysForgotten == HistorySpec => []GoneForgotten
  <1>1. Inv => GoneForgotten
    BY DEF Inv, GoneSafe, GoneForgotten
  <1> QED BY Invariant, <1>1, PTL
-----------------------------------------------------------------------------
(* The client manager implements a registry: every step is one of a        *)
(* registry's, or changes nothing of it.                                   *)

Verdict == {"dead", "dropped", "unregister"}

OthersStay(t) == \A u \in Thread : u # t => thread'[u] = thread[u]

(* Where a thread's step leaves it.                                        *)
LEMMA Moves ==
    ASSUME TypeOK, NEW t \in Thread
    PROVE  /\ \A label : Goto(t, label) =>
                 thread'[t].pc = label /\ thread'[t].id = thread[t].id /\ OthersStay(t)
           /\ Finish(t) => thread'[t].pc = "idle" /\ OthersStay(t)
           /\ \A label, id : Begin(t, label, id) =>
                 /\ thread[t].pc = "idle"
                 /\ thread'[t].pc = label /\ thread'[t].id = id /\ OthersStay(t)
  <1>1. thread \in [Thread -> Work] /\ thread[t] \in Work
    BY TypeParts
  <1> QED BY <1>1 DEF Goto, Finish, Begin, At, Idle, Work, OthersStay

(* Who is given up by a step of one thread, and who no longer is.          *)
LEMMA SuspectsOf ==
    ASSUME NEW t \in Thread, OthersStay(t)
    PROVE  /\ thread[t].pc \notin Verdict /\ thread'[t].pc \notin Verdict =>
                 Suspects' = Suspects
           /\ /\ thread[t].pc \in Verdict /\ thread'[t].pc \in Verdict
              /\ thread'[t].id = thread[t].id
              => Suspects' = Suspects
           /\ /\ t \in Check /\ thread[t].pc \notin Verdict /\ thread'[t].pc \in Verdict
              /\ thread'[t].id \in ID
              => Suspects' = Suspects \cup {thread'[t].id}
           /\ /\ t \in Check /\ thread[t].pc \in Verdict /\ thread'[t].pc \notin Verdict
              /\ thread[t].id \in ID
              => /\ thread[t].id \in Suspects
                 /\ Suspects' \in {Suspects, Suspects \ {thread[t].id}}
  <1> Check \subseteq Thread
    BY DEF Thread
  <1> QED BY DEF OthersStay, Suspects, Condemned, Verdict

(* A step that leaves the registry and its suspects alone.                 *)
LEMMA Quiet ==
    ASSUME TypeOK', UNCHANGED hashMap, Suspects' = Suspects
    PROVE  R!Next
  BY DEF R!Next, R!registry, TypeOK

(* A call begins with what it does to the registry.                        *)
LEMMA CallIsRegistry ==
    ASSUME TypeOK, TypeOK', NEW c \in Caller, Call(c)
    PROVE  R!Next
  <1> c \in Thread /\ up' \subseteq ID
    BY DEF Thread, TypeOK
  <1>1. Suspects' = Suspects
    <2>1. PICK label \in {"insert", "dequeue", "clear"}, id \in ID \cup {Nobody} :
             Begin(c, label, id)
      BY DEF Call, AddClient, RemoveClient, Clear
    <2> QED BY <2>1, Moves, SuspectsOf DEF Verdict
  <1>2. CASE \E id \in ID : AddClient(c, id)
    <2>1. PICK id \in ID : AddClient(c, id)
      BY <1>2
    <2>2. id \in AskedToAdd'
      BY <2>1, Moves DEF AddClient, AskedToAdd, At
    <2>3. R!Add(id)
      BY <1>1, <2>1, <2>2 DEF AddClient, R!Add
    <2> QED BY <2>3 DEF R!Next
  <1>3. CASE \E id \in ID : RemoveClient(c, id)
    <2>1. PICK id \in ID : RemoveClient(c, id)
      BY <1>3
    <2>2. {id} \subseteq AskedToRemove'
      BY <2>1, Moves DEF RemoveClient, AskedToRemove, At
    <2>3. R!Remove({id})
      BY <1>1, <2>1, <2>2 DEF RemoveClient, R!Remove
    <2> QED BY <2>3 DEF R!Next
  <1>4. CASE Clear(c)
    <2>1. ID \subseteq AskedToRemove' /\ hashMap \subseteq ID
      BY <1>4, Moves DEF Clear, AskedToRemove, At, TypeOK
    <2>2. R!Remove(ID)
      BY <1>1, <1>4, <2>1 DEF Clear, R!Remove
    <2> QED BY <2>2 DEF R!Next
  <1> QED BY <1>2, <1>3, <1>4 DEF Call

(* The rest of the call, the start of a check, and its way to the verdict  *)
(* concern the queue and the listener.                                     *)
LEMMA ContinueIsRegistry ==
    ASSUME TypeOK, TypeOK', NEW t \in Caller \cup Check,
           Continue(t) \/ Contains(t) \/ Judge(t) \/ \E id \in ID : Pick(t, id)
    PROVE  R!Next
  <1> t \in Thread
    BY DEF Thread
  <1>1. UNCHANGED hashMap
    BY DEF Continue, Insert, AddCallback, Dequeue, RemoveCallback, ClearQueue, Contains, Judge, Pick
  <1>2. /\ thread[t].pc \notin Verdict /\ thread'[t].pc \notin Verdict /\ OthersStay(t)
    <2>1. CASE Continue(t)
      BY <2>1, Moves DEF Continue, Insert, AddCallback, Dequeue, RemoveCallback, ClearQueue, At,
                         Verdict
    <2>2. CASE Contains(t)
      <3>1. thread \in [Thread -> Work] /\ thread[t] \in Work
        BY TypeParts
      <3>2. CASE Goto(t, "ping")
        BY <2>2, <3>2, Moves DEF Contains, At, Verdict
      <3>3. CASE ~Goto(t, "ping")
        <4>1. PICK s \in 0 .. thread[t].since :
                 thread' = [thread EXCEPT ![t].pc = "age", ![t].since = s]
          BY <2>2, <3>3 DEF Contains
        <4>2. thread'[t].pc = "age" /\ OthersStay(t)
          BY <3>1, <4>1 DEF Work, OthersStay
        <4> QED BY <2>2, <4>2 DEF Contains, At, Verdict
      <3> QED BY <3>2, <3>3
    <2>3. CASE Judge(t)
      BY <2>3, Moves DEF Judge, At, Verdict
    <2>4. CASE \E id \in ID : Pick(t, id)
      BY <2>4, Moves DEF Pick, Verdict
    <2> QED BY <2>1, <2>2, <2>3, <2>4
  <1> QED BY <1>1, <1>2, SuspectsOf, Quiet

(* A check gives up a client that is unregistered or does not answer.      *)
LEMMA PingIsRegistry ==
    ASSUME TypeOK, TypeOK', NEW k \in Check, Ping(k) \/ Answer(k)
    PROVE  R!Next
  <1> k \in Thread
    BY DEF Thread
  <1>1. /\ UNCHANGED <<hashMap, up>> /\ thread[k].pc \in {"ping", "request"} /\ up' \subseteq ID
    BY DEF Ping, Answer, At, TypeOK
  <1>2. thread[k].id \in ID
    BY <1>1, Busy
  <1>3. CASE Goto(k, "request") \/ Goto(k, "insert")
    <2>1. Suspects' = Suspects
      BY <1>1, <1>3, Moves, SuspectsOf DEF Verdict
    <2> QED BY <1>1, <2>1, Quiet
  <1>4. CASE Goto(k, "dead") /\ thread[k].id \notin hashMap \cap up
    <2>1. Suspects' = Suspects \cup {thread[k].id}
      BY <1>1, <1>2, <1>4, Moves, SuspectsOf DEF Verdict
    <2>2. R!GiveUp(thread[k].id)
      BY <1>1, <1>4, <2>1 DEF R!GiveUp
    <2> QED BY <1>1, <1>2, <2>2 DEF R!Next
  <1> QED BY <1>3, <1>4 DEF Ping, Answer

(* It then takes the client out, or is on the way to it.                   *)
LEMMA VerdictIsRegistry ==
    ASSUME TypeOK, TypeOK', NEW k \in Check, DequeueDead(k) \/ DeadCallback(k) \/ Unregister(k)
    PROVE  R!Next
  <1> k \in Thread
    BY DEF Thread
  <1>1. thread[k].pc \in Verdict /\ UNCHANGED up /\ up' \subseteq ID
    BY DEF DequeueDead, DeadCallback, Unregister, At, Verdict, TypeOK
  <1>2. thread[k].id \in ID
    BY <1>1, Busy DEF Verdict
  <1>3. CASE DequeueDead(k) \/ DeadCallback(k)
    <2>1. UNCHANGED hashMap /\ (Goto(k, "dropped") \/ Goto(k, "unregister"))
      BY <1>3 DEF DequeueDead, DeadCallback
    <2>2. Suspects' = Suspects
      BY <1>1, <2>1, Moves, SuspectsOf DEF Verdict
    <2> QED BY <2>1, <2>2, Quiet
  <1>4. CASE Unregister(k)
    <2>1. hashMap' = hashMap \ {thread[k].id} /\ Finish(k)
      BY <1>4 DEF Unregister
    <2>2. thread[k].id \in Suspects /\ Suspects' \in {Suspects, Suspects \ {thread[k].id}}
      BY <1>1, <1>2, <2>1, Moves, SuspectsOf DEF Verdict
    <2>3. R!Expel(thread[k].id)
      BY <2>1, <2>2 DEF R!Expel
    <2> QED BY <1>1, <1>2, <2>3 DEF R!Next
  <1> QED BY <1>3, <1>4

(* The cleanup worker, the clients and the clock leave the registry alone. *)
LEMMA RestIsRegistry ==
    ASSUME TypeOK, TypeOK', StartSweep \/ Sweep \/ Tick \/ \E id \in ID : Change(id)
    PROVE  R!Next
  <1> Check \subseteq Thread /\ Cleanup \in Thread
    BY DEF Thread
  <1>1. UNCHANGED hashMap
    BY DEF StartSweep, Sweep, Peek, ExtractMin, ExtractNothing, EvictCallback, Tick, Change
  <1>2. \A k \in Check : thread'[k].pc = thread[k].pc /\ thread'[k].id = thread[k].id
    <2>1. CASE StartSweep \/ Sweep
      <3>1. \A k \in Check : k # Cleanup
        BY ThreadAssumption
      <3> QED BY <2>1, <3>1, TypeParts DEF StartSweep, Begin, Sweep, Peek, ExtractMin,
                                           ExtractNothing, EvictCallback, Finish
    <2>2. CASE Tick
      <3> SUFFICES ASSUME NEW k \in Check
                   PROVE  thread'[k].pc = thread[k].pc /\ thread'[k].id = thread[k].id
        OBVIOUS
      <3>1. thread[k] \in Work
        BY TypeParts
      <3>2. thread'[k] = IF UsesClock(k) THEN [thread[k] EXCEPT !.since = thread[k].since + 1]
                                         ELSE thread[k]
        BY <2>2 DEF Tick
      <3> QED BY <3>1, <3>2 DEF Work
    <2>3. CASE \E id \in ID : Change(id)
      BY <2>3 DEF Change
    <2> QED BY <2>1, <2>2, <2>3
  <1>3. Suspects' = Suspects
    BY <1>2 DEF Suspects, Condemned
  <1> QED BY <1>1, <1>3, Quiet

(* However calls, checks and the cleanup interleave, the client manager is *)
(* a registry: only a call adds a client, only a call for it or a verdict  *)
(* takes it out, and the verdict is never one on a registered client that  *)
(* answers.                                                                *)
THEOREM IsRegistry == Spec => ImplementsRegistry
  <1>1. Init => R!Init
    <2> SUFFICES ASSUME Init PROVE R!Init
      OBVIOUS
    <2>1. Suspects = {} /\ AskedToAdd = {} /\ AskedToRemove = {}
      BY DEF Init, Suspects, Condemned, AskedToAdd, AskedToRemove, At, Idle, Thread
    <2> QED BY <2>1 DEF Init, R!Init
  <1>2. TypeOK /\ TypeOK' /\ [Next]_vars => [R!Next]_(R!vars)
    <2> SUFFICES ASSUME TypeOK, TypeOK', [Next]_vars PROVE [R!Next]_(R!vars)
      OBVIOUS
    <2>1. CASE Next
      BY <2>1, CallIsRegistry, ContinueIsRegistry, PingIsRegistry, VerdictIsRegistry, RestIsRegistry
      DEF Next, CheckStep
    <2>2. CASE UNCHANGED vars
      BY <2>2 DEF vars, R!vars, R!registry, R!world, Suspects, Condemned, AskedToAdd, AskedToRemove,
                  At
    <2> QED BY <2>1, <2>2
  <1> QED BY <1>1, <1>2, TypeCorrect, PTL DEF Spec, ImplementsRegistry, R!Spec
-----------------------------------------------------------------------------
(* GetRandomSubset, for any queue and any size asked for, while the        *)
(* registry changes at any moment.                                         *)

(* No value twice.                                                         *)
Distinct(f) == \A j, k \in DOMAIN f : f[j] = f[k] => j = k

(* Each sampled ID is one of the first k of the queue.                     *)
Among(f, v, k) == \A j \in DOMAIN f : \E h \in 0 .. k - 1 : f[j] = v[h]

(* The queue, which stays as it is during a call.                          *)
QueueInv ==
    /\ size \in 0 .. Cardinality(ID)
    /\ values \in [0 .. size - 1 -> ID] /\ Distinct(values)

(* What the sample holds at each step of the three ways to take it: both   *)
(* loops keep it free of repetition, reservoir sampling because it only    *)
(* takes in values of the queue that it has not come to before.            *)
SampleInv ==
    /\ n \in 0 .. MaxN /\ i \in 0 .. size
    /\ Distinct(result)
    /\ \/ pc = "idle" /\ result = Empty /\ i = 0
       \/ pc = "reject" /\ n < size /\ i <= n
          /\ result \in [0 .. i - 1 -> ID] /\ Among(result, values, size)
       \/ pc = "reservoir" /\ n < size /\ n <= i
          /\ result \in [0 .. n - 1 -> ID] /\ Among(result, values, i)
       \/ pc = "resolve" /\ i <= Count
          /\ result \in [0 .. Count - 1 -> ID] /\ Among(result, values, size)

(* The answer holds, of the sampled IDs looked up so far, only such as     *)
(* were registered, and all that always were.                              *)
AnswerInv ==
    /\ registered \subseteq ID /\ always \subseteq seen /\ seen \subseteq ID
    /\ pc # "idle" => registered \subseteq seen /\ always \subseteq registered
    /\ pc # "resolve" => answer = {} /\ length = 0
    /\ IsFiniteSet(answer) /\ Cardinality(answer) = length
    /\ pc = "resolve" =>
        /\ length <= i
        /\ answer \subseteq Picked
        /\ answer \subseteq seen
        /\ Picked \cap always \subseteq answer

SubsetInv == QueueInv /\ SampleInv /\ AnswerInv
-----------------------------------------------------------------------------
(* n and size are numbers, and so is the smaller of them.                  *)
LEMMA Numbers ==
    ASSUME QueueInv, SampleInv
    PROVE  /\ Cardinality(ID) \in Nat /\ size \in Nat /\ n \in Nat /\ i \in Nat
           /\ Count \in 0 .. size /\ Count <= n
  <1>1. Cardinality(ID) \in Nat
    BY FS_CardinalityType, FiniteAssumption
  <1>2. size \in Nat /\ n \in Nat /\ i \in Nat
    BY <1>1, SubsetAssumption DEF QueueInv, SampleInv
  <1> QED BY <1>1, <1>2 DEF Count

(* One more value, and another value in the place of one.                  *)
LEMMA WithDistinct ==
    ASSUME NEW f, NEW j, NEW x, Distinct(f), \A k \in DOMAIN f : f[k] # x
    PROVE  Distinct(With(f, j, x))
  BY DEF Distinct, With

(* The value put in is one of the first b of the queue.                    *)
LEMMA WithAmong ==
    ASSUME NEW f, NEW v, NEW a \in Nat, NEW b \in Nat, a <= b, NEW j, NEW h \in 0 .. b - 1,
           Among(f, v, a)
    PROVE  Among(With(f, j, v[h]), v, b)
  <1>1. \A k \in DOMAIN f : \E g \in 0 .. b - 1 : f[k] = v[g]
    BY DEF Among
  <1> QED BY <1>1 DEF Among, With

(* The initial states satisfy the invariant.                               *)
LEMMA SubsetInitOK == SubsetInit => SubsetInv
  <1> SUFFICES ASSUME SubsetInit PROVE SubsetInv
    OBVIOUS
  <1>1. Cardinality(ID) \in Nat /\ MaxN \in Nat
    BY FS_CardinalityType, FiniteAssumption, SubsetAssumption
  <1>2. IsFiniteSet(answer) /\ Cardinality(answer) = length
    BY FS_EmptySet DEF SubsetInit
  <1>3. QueueInv
    BY <1>1 DEF SubsetInit, Empty, QueueInv, Distinct
  <1>4. SampleInv
    BY <1>1 DEF SubsetInit, Empty, SampleInv, Distinct
  <1>5. AnswerInv
    BY <1>2 DEF SubsetInit, AnswerInv
  <1> QED BY <1>3, <1>4, <1>5 DEF SubsetInv

(* The registry changes.                                                   *)
LEMMA ChangeOK ==
    ASSUME SubsetInv, NEW id \in ID, RegistryChanges(id)
    PROVE  SubsetInv'
  <1>1. QueueInv' /\ SampleInv'
    BY DEF SubsetInv, RegistryChanges, sampled, QueueInv, SampleInv, Count, Empty
  <1>2. Picked' = Picked
    BY DEF RegistryChanges, Picked
  <1>3. AnswerInv'
    BY <1>2 DEF SubsetInv, RegistryChanges, AnswerInv
  <1> QED BY <1>1, <1>3 DEF SubsetInv

(* The start.                                                              *)
LEMMA StartOK ==
    ASSUME SubsetInv, NEW s \in 0 .. Cardinality(ID), NEW f \in Slices(s),
           NEW m \in 0 .. MaxN, GetRandomSubset(s, f, m)
    PROVE  SubsetInv'
  <1>1. s \in Nat /\ m \in Nat /\ Cardinality(ID) \in Nat
    BY FS_CardinalityType, FiniteAssumption
  <1>2. f \in [0 .. s - 1 -> ID] /\ Distinct(f)
    BY DEF Slices, Distinct
  <1>3. size' = s /\ values' = f /\ n' = m /\ answer' = {} /\ length' = 0
    BY DEF GetRandomSubset
  <1>4. QueueInv'
    BY <1>2, <1>3 DEF QueueInv
  <1>5. SampleInv'
    <2>1. CASE m <= 0 /\ Sampling("resolve", 0, Empty)
      BY <1>1, <1>3, <2>1 DEF Sampling, Empty, SampleInv, Distinct, Among, Count
    <2>2. CASE m > 0 /\ m >= s /\ Sampling("resolve", 0, f)
      <3>1. Count' = s /\ result' = f /\ pc' = "resolve" /\ i' = 0
        BY <1>1, <1>3, <2>2 DEF Sampling, Count
      <3> QED BY <1>1, <1>2, <1>3, <3>1 DEF SampleInv, Among
    <2>3. CASE m > 0 /\ m < s /\ m <= s \div 2 /\ Sampling("reject", 0, Empty)
      BY <1>1, <1>3, <2>3 DEF Sampling, Empty, SampleInv, Distinct, Among
    <2>4. CASE /\ m > 0 /\ m < s /\ m > s \div 2
               /\ Sampling("reservoir", m, [j \in 0 .. m - 1 |-> f[j]])
      <3> DEFINE g == [j \in 0 .. m - 1 |-> f[j]]
      <3>1. g \in [0 .. m - 1 -> ID] /\ Distinct(g) /\ Among(g, f, m)
        BY <1>1, <1>2, <2>4 DEF Distinct, Among
      <3>2. pc' = "reservoir" /\ i' = m /\ result' = g
        BY <2>4 DEF Sampling
      <3> HIDE DEF g
      <3> QED BY <1>1, <1>3, <2>4, <3>1, <3>2 DEF SampleInv
    <2> QED BY <2>1, <2>2, <2>3, <2>4 DEF GetRandomSubset
  <1>6. AnswerInv'
    <2>1. i' = 0 \/ pc' = "reservoir"
      BY DEF GetRandomSubset, Sampling
    <2>2. pc' = "resolve" => Picked' = {}
      BY <2>1 DEF Picked
    <2>3. seen' = registered /\ always' = registered /\ registered' = registered
      BY DEF GetRandomSubset
    <2> QED BY <1>3, <2>1, <2>2, <2>3, FS_EmptySet
            DEF SubsetInv, AnswerInv, GetRandomSubset, Sampling
  <1> QED BY <1>4, <1>5, <1>6 DEF SubsetInv
-----------------------------------------------------------------------------
(* Rejection sampling: what is picked has not been picked before.          *)
LEMMA DrawOK ==
    ASSUME SubsetInv, NEW r \in 0 .. size - 1, Draw(r)
    PROVE  SubsetInv'
  <1>1. /\ pc = "reject" /\ i < n /\ values[r] \notin Picked
        /\ result' = With(result, i, values[r]) /\ i' = i + 1
        /\ UNCHANGED <<size, values, n, pc, answer, length, registered, seen, always>>
    BY DEF Draw, sampled
  <1>2. size \in Nat /\ n \in Nat /\ i \in Nat /\ n < size /\ QueueInv
    BY <1>1, Numbers DEF SubsetInv, SampleInv
  <1>3. result \in [0 .. i - 1 -> ID] /\ Distinct(result) /\ Among(result, values, size)
    BY <1>1 DEF SubsetInv, SampleInv
  <1>4. Distinct(result')
    BY <1>1, <1>3, WithDistinct DEF Picked
  <1>5. Among(result', values, size)
    <2>1. Among(With(result, i, values[r]), values, size)
      <3>1. size <= size /\ r \in 0 .. size - 1
        BY <1>2
      <3> QED BY <1>2, <1>3, <3>1, WithAmong
    <2> QED BY <1>1, <2>1
  <1>6. result' \in [0 .. i' - 1 -> ID]
    <2>1. values[r] \in ID
      BY <1>2 DEF QueueInv
    <2>2. 0 .. i' - 1 = (0 .. i - 1) \cup {i}
      BY <1>1, <1>2
    <2> QED BY <1>1, <1>3, <2>1, <2>2 DEF With
  <1>7. SampleInv'
    BY <1>1, <1>2, <1>4, <1>5, <1>6 DEF SubsetInv, SampleInv
  <1>8. QueueInv'
    BY <1>1, <1>2 DEF QueueInv
  <1>9. AnswerInv'
    BY <1>1 DEF SubsetInv, AnswerInv
  <1> QED BY <1>7, <1>8, <1>9 DEF SubsetInv

(* Reservoir sampling: the value at i is none of those before it.          *)
LEMMA ReplaceOK ==
    ASSUME SubsetInv, NEW j \in 0 .. size - 1, Replace(j)
    PROVE  SubsetInv'
  <1>1. /\ pc = "reservoir" /\ i < size /\ j \in 0 .. i /\ i' = i + 1
        /\ result' = IF j < n THEN With(result, j, values[i]) ELSE result
        /\ UNCHANGED <<size, values, n, pc, answer, length, registered, seen, always>>
    BY DEF Replace, sampled
  <1>2. size \in Nat /\ n \in Nat /\ i \in Nat /\ n < size /\ n <= i /\ QueueInv
    BY <1>1, Numbers DEF SubsetInv, SampleInv
  <1>3. result \in [0 .. n - 1 -> ID] /\ Distinct(result) /\ Among(result, values, i)
    BY <1>1 DEF SubsetInv, SampleInv
  <1>4. \A k \in DOMAIN result : result[k] # values[i]
    <2>1. \A h \in 0 .. i - 1 : values[h] # values[i]
      BY <1>1, <1>2 DEF QueueInv, Distinct
    <2> QED BY <1>3, <2>1 DEF Among
  <1>5. /\ result' \in [0 .. n - 1 -> ID] /\ Distinct(result')
        /\ Among(result', values, i + 1)
    <2>1. CASE j < n
      <3>1. result' = With(result, j, values[i])
        BY <1>1, <2>1
      <3>2. values[i] \in ID /\ j \in 0 .. n - 1
        BY <1>1, <1>2, <2>1 DEF QueueInv
      <3>3. result' \in [0 .. n - 1 -> ID]
        BY <1>3, <3>1, <3>2 DEF With
      <3>4. i + 1 \in Nat /\ i <= i + 1 /\ i \in 0 .. (i + 1) - 1
        BY <1>2
      <3>5. Among(With(result, j, values[i]), values, i + 1)
        BY <1>2, <1>3, <3>4, WithAmong
      <3> QED BY <1>3, <1>4, <3>1, <3>3, <3>5, WithDistinct
    <2>2. CASE ~(j < n)
      BY <1>1, <1>2, <1>3, <2>2 DEF Among
    <2> QED BY <2>1, <2>2
  <1>6. SampleInv'
    BY <1>1, <1>2, <1>5 DEF SubsetInv, SampleInv
  <1>7. QueueInv'
    BY <1>1, <1>2 DEF QueueInv
  <1>8. AnswerInv'
    BY <1>1 DEF SubsetInv, AnswerInv
  <1> QED BY <1>6, <1>7, <1>8 DEF SubsetInv

(* Either loop ends with n values.                                         *)
LEMMA SampleDoneOK ==
    ASSUME SubsetInv, SampleDone
    PROVE  SubsetInv'
  <1>1. /\ (pc = "reject" /\ i = n) \/ (pc = "reservoir" /\ i = size)
        /\ pc' = "resolve" /\ i' = 0 /\ seen' = registered
        /\ UNCHANGED <<size, values, n, result, answer, length, registered, always>>
    BY DEF SampleDone, sampled
  <1>2. size \in Nat /\ n \in Nat /\ n < size /\ QueueInv
    BY <1>1, Numbers DEF SubsetInv, SampleInv
  <1>3. Count' = n
    BY <1>1, <1>2 DEF Count
  <1>4. /\ result \in [0 .. n - 1 -> ID] /\ Distinct(result)
        /\ Among(result, values, size) /\ n \in 0 .. MaxN
    BY <1>1 DEF SubsetInv, SampleInv
  <1>5. SampleInv'
    BY <1>1, <1>2, <1>3, <1>4 DEF SampleInv
  <1>6. QueueInv'
    BY <1>1, <1>2 DEF QueueInv
  <1>7. Picked' = {}
    BY <1>1 DEF Picked
  <1>8. AnswerInv'
    BY <1>1, <1>7 DEF SubsetInv, AnswerInv
  <1> QED BY <1>5, <1>6, <1>8 DEF SubsetInv
-----------------------------------------------------------------------------
(* A sampled ID is looked up: it has not been before, as the sample has no *)
(* ID twice.                                                               *)
LEMMA ResolveOK ==
    ASSUME SubsetInv, Resolve
    PROVE  SubsetInv'
  <1>1. /\ pc = "resolve" /\ i < Count /\ i' = i + 1
        /\ IF result[i] \in registered
           THEN answer' = answer \cup {result[i]} /\ length' = length + 1
           ELSE UNCHANGED <<answer, length>>
        /\ UNCHANGED <<size, values, n, pc, result, registered, seen, always>>
    BY DEF Resolve, sampled
  <1>2. /\ size \in Nat /\ n \in Nat /\ i \in Nat
        /\ Count \in 0 .. size /\ Count' = Count
    BY <1>1, Numbers DEF SubsetInv, Count
  <1>3. QueueInv' /\ SampleInv'
    BY <1>1, <1>2 DEF SubsetInv, QueueInv, SampleInv
  <1>4. result \in [0 .. Count - 1 -> ID] /\ Distinct(result)
    BY <1>1 DEF SubsetInv, SampleInv
  <1>5. Picked' = Picked \cup {result[i]}
    <2>1. 0 .. i' - 1 = (0 .. i - 1) \cup {i}
      BY <1>1, <1>2
    <2> QED BY <1>1, <2>1 DEF Picked
  <1>6. result[i] \notin Picked
    BY <1>1, <1>2, <1>4 DEF Picked, Distinct
  <1>7. /\ IsFiniteSet(answer) /\ Cardinality(answer) = length /\ length <= i
        /\ answer \subseteq Picked /\ answer \subseteq seen
        /\ Picked \cap always \subseteq answer
        /\ registered \subseteq seen /\ always \subseteq registered
    BY <1>1 DEF SubsetInv, AnswerInv
  <1>8. /\ IsFiniteSet(answer') /\ Cardinality(answer') = length' /\ length' <= i'
    <2>1. CASE result[i] \in registered
      <3>1. result[i] \notin answer
        BY <1>6, <1>7
      <3>2. IsFiniteSet(answer') /\ Cardinality(answer') = Cardinality(answer) + 1
        BY <1>1, <1>7, <2>1, <3>1, FS_AddElement
      <3>3. length \in Nat
        BY <1>7, FS_CardinalityType
      <3> QED BY <1>1, <1>2, <1>7, <2>1, <3>2, <3>3
    <2>2. CASE result[i] \notin registered
      <3>1. length \in Nat
        BY <1>7, FS_CardinalityType
      <3> QED BY <1>1, <1>2, <1>7, <2>2, <3>1
    <2> QED BY <2>1, <2>2
  <1>9. /\ answer' \subseteq Picked' /\ answer' \subseteq seen'
        /\ Picked' \cap always' \subseteq answer'
    BY <1>1, <1>5, <1>7
  <1>10. AnswerInv'
    BY <1>1, <1>8, <1>9 DEF SubsetInv, AnswerInv
  <1> QED BY <1>3, <1>10 DEF SubsetInv

(* The end.                                                                *)
LEMMA ReturnOK ==
    ASSUME SubsetInv, Return
    PROVE  SubsetInv'
  <1>1. /\ size' = 0 /\ values' = Empty /\ result' = Empty /\ pc' = "idle" /\ n' = 0
        /\ i' = 0 /\ answer' = {} /\ length' = 0 /\ seen' = {} /\ always' = {}
        /\ registered' = registered
    BY DEF Return
  <1>2. Cardinality(ID) \in Nat /\ MaxN \in Nat
    BY FS_CardinalityType, FiniteAssumption, SubsetAssumption
  <1>3. QueueInv'
    BY <1>1, <1>2 DEF Empty, QueueInv, Distinct
  <1>4. SampleInv'
    BY <1>1, <1>2 DEF Empty, SampleInv, Distinct
  <1>5. AnswerInv'
    BY <1>1, FS_EmptySet DEF SubsetInv, AnswerInv
  <1> QED BY <1>3, <1>4, <1>5 DEF SubsetInv

(* Every step preserves it.                                                *)
LEMMA SubsetNextOK == SubsetInv /\ [SubsetNext]_subsetVars => SubsetInv'
  <1> SUFFICES ASSUME SubsetInv, [SubsetNext]_subsetVars PROVE SubsetInv'
    OBVIOUS
  <1>1. CASE UNCHANGED subsetVars
    <2>1. QueueInv' /\ SampleInv'
      BY <1>1 DEF subsetVars, sampled, SubsetInv, QueueInv, SampleInv, Count, Empty
    <2>2. Picked' = Picked
      BY <1>1 DEF subsetVars, sampled, Picked
    <2>3. AnswerInv'
      BY <1>1, <2>2 DEF subsetVars, sampled, SubsetInv, AnswerInv
    <2> QED BY <2>1, <2>3 DEF SubsetInv
  <1>2. CASE \E id \in ID : RegistryChanges(id)
    BY <1>2, ChangeOK
  <1>3. CASE \E s \in 0 .. Cardinality(ID) : \E f \in Slices(s) :
                \E m \in 0 .. MaxN : GetRandomSubset(s, f, m)
    BY <1>3, StartOK
  <1>4. CASE \E r \in 0 .. size - 1 : Draw(r)
    BY <1>4, DrawOK
  <1>5. CASE \E j \in 0 .. size - 1 : Replace(j)
    BY <1>5, ReplaceOK
  <1> QED BY <1>1, <1>2, <1>3, <1>4, <1>5,
            SampleDoneOK, ResolveOK, ReturnOK DEF SubsetNext
-----------------------------------------------------------------------------
(* Fewer values have been picked than the queue has, so not all of them.   *)
LEMMA OneLeft ==
    ASSUME SubsetInv, pc = "reject", i < n
    PROVE  \E r \in 0 .. size - 1 : values[r] \notin Picked
  <1>1. /\ size \in Nat /\ i \in Nat /\ n \in Nat /\ n < size
        /\ values \in [0 .. size - 1 -> ID] /\ Distinct(values)
    BY Numbers DEF SubsetInv, SampleInv, QueueInv
  <1> SUFFICES ASSUME \A r \in 0 .. size - 1 : values[r] \in Picked PROVE FALSE
    OBVIOUS
  <1> DEFINE S == 0 .. size - 1
             P == 0 .. i - 1
             f == [r \in S |-> CHOOSE j \in P : result[j] = values[r]]
  <1>2. \A r \in S : f[r] \in P /\ result[f[r]] = values[r]
    <2> SUFFICES ASSUME NEW r \in S PROVE f[r] \in P /\ result[f[r]] = values[r]
      OBVIOUS
    <2>1. \E j \in P : result[j] = values[r]
      BY DEF Picked
    <2> QED BY <2>1
  <1>3. /\ IsFiniteSet(S) /\ IsFiniteSet(P)
        /\ Cardinality(S) = size /\ Cardinality(P) = i
    <2>1. 0 \in Int /\ size - 1 \in Int /\ i - 1 \in Int
      BY <1>1
    <2>2. /\ IsFiniteSet(S) /\ Cardinality(S) = IF 0 > size - 1 THEN 0 ELSE (size - 1) - 0 + 1
          /\ IsFiniteSet(P) /\ Cardinality(P) = IF 0 > i - 1 THEN 0 ELSE (i - 1) - 0 + 1
      BY <2>1, FS_Interval
    <2> HIDE DEF S, P
    <2> QED BY <1>1, <2>2
  <1>4. f \in [S -> P] /\ Cardinality(P) < Cardinality(S)
    BY <1>1, <1>2, <1>3
  <1> HIDE DEF f
  <1>5. PICK x \in S, y \in S : x # y /\ f[x] = f[y]
    BY <1>3, <1>4, FS_PigeonHole
  <1>6. values[x] = values[y]
    BY <1>2, <1>5
  <1> QED BY <1>1, <1>5, <1>6 DEF Distinct

(* It gives the types that the model states.                               *)
LEMMA SubsetTypes == SubsetInv => SubsetTypeOK
  <1> SUFFICES ASSUME SubsetInv PROVE SubsetTypeOK
    OBVIOUS
  <1>1. /\ size \in Nat /\ i \in Nat /\ n \in Nat
        /\ Count \in 0 .. size /\ QueueInv /\ SampleInv /\ AnswerInv
    BY Numbers DEF SubsetInv
  <1>2. size \in 0 .. Cardinality(ID) /\ values \in Slices(size)
    BY <1>1 DEF QueueInv, Slices, Distinct
  <1>3. /\ n \in 0 .. MaxN /\ i \in 0 .. size
        /\ pc \in {"idle", "reject", "reservoir", "resolve"}
        /\ pc = "idle" => result \in {Empty}
        /\ pc = "reject" => result \in [0 .. i - 1 -> ID]
        /\ pc = "reservoir" => result \in [0 .. n - 1 -> ID]
        /\ pc = "resolve" => result \in [0 .. Count - 1 -> ID]
    BY <1>1 DEF SampleInv
  <1>4. length \in 0 .. size
    <2>1. length \in Nat
      BY <1>1, FS_CardinalityType DEF AnswerInv
    <2>2. length <= i
      BY <1>1, <2>1 DEF AnswerInv
    <2> QED BY <1>1, <1>3, <2>1, <2>2
  <1>5. answer \subseteq ID /\ registered \subseteq ID /\ always \subseteq seen /\ seen \subseteq ID
    BY <1>1 DEF AnswerInv
  <1>6. result \in CASE pc = "idle" -> {Empty}
                     [] pc = "reject" -> [0 .. i - 1 -> ID]
                     [] pc = "reservoir" -> [0 .. n - 1 -> ID]
                     [] pc = "resolve" -> [0 .. Count - 1 -> ID]
    BY <1>3
  <1> QED BY <1>2, <1>3, <1>4, <1>5, <1>6 DEF SubsetTypeOK

(* The indices of both loops stay within the slices, whatever is drawn.    *)
THEOREM SubsetTypeCorrect == SubsetSpec => []SubsetTypeOK
  <1>1. SubsetInit => SubsetInv
    BY SubsetInitOK
  <1>2. SubsetInv /\ [SubsetNext]_subsetVars => SubsetInv'
    BY SubsetNextOK
  <1> QED BY <1>1, <1>2, SubsetTypes, PTL DEF SubsetSpec

(* The sample has as many IDs as were asked for, or all, each once and     *)
(* each from the queue; and rejection sampling always has one left to      *)
(* draw, for it stops before it has picked as many as the queue has.       *)
THEOREM SampleAlwaysRight == SubsetSpec => []SampleRight
  <1>1. SubsetInv => SampleRight
    <2> SUFFICES ASSUME SubsetInv PROVE SampleRight
      OBVIOUS
    <2>1. pc = "reject" /\ i < n => \E r \in 0 .. size - 1 : values[r] \notin Picked
      BY OneLeft
    <2>2. ASSUME pc = "resolve"
          PROVE  /\ \A j, k \in 0 .. Count - 1 : result[j] = result[k] => j = k
                 /\ \A j \in 0 .. Count - 1 : \E k \in 0 .. size - 1 : result[j] = values[k]
      BY <2>2 DEF SubsetInv, SampleInv, Distinct, Among
    <2> QED BY <2>1, <2>2 DEF SampleRight
  <1>2. SubsetInit => SubsetInv
    BY SubsetInitOK
  <1>3. SubsetInv /\ [SubsetNext]_subsetVars => SubsetInv'
    BY SubsetNextOK
  <1> QED BY <1>1, <1>2, <1>3, PTL DEF SubsetSpec

(* The answer names each client once, none that was not registered at some *)
(* moment of the call, and leaves out no sampled one that always was.      *)
THEOREM AnswerAlwaysRight == SubsetSpec => []AnswerRight
  <1>1. SubsetInv => AnswerRight
    <2> SUFFICES ASSUME SubsetInv, pc = "resolve"
                 PROVE  /\ Cardinality(answer) = length /\ answer \subseteq seen
                        /\ i = Count =>
                             {result[j] : j \in 0 .. Count - 1} \cap always \subseteq answer
      BY DEF AnswerRight
    <2>1. /\ Cardinality(answer) = length /\ answer \subseteq seen
          /\ Picked \cap always \subseteq answer
      BY DEF SubsetInv, AnswerInv
    <2> QED BY <2>1 DEF Picked
  <1>2. SubsetInit => SubsetInv
    BY SubsetInitOK
  <1>3. SubsetInv /\ [SubsetNext]_subsetVars => SubsetInv'
    BY SubsetNextOK
  <1> QED BY <1>1, <1>2, <1>3, PTL DEF SubsetSpec
=============================================================================
