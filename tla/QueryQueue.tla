----------------------------- MODULE QueryQueue -----------------------------
(***************************************************************************)
(* How a client finds peers, client/main.go: the callbacks of its client   *)
(* manager put peers into queryQueue and take them out, expandContacts     *)
(* takes the first one out, exchanges contacts with it and puts it back.   *)
(*                                                                         *)
(* The client manager is module ClientManager, less its list of live       *)
(* clients: whether a removal finds an entry there, and so calls back, and *)
(* when an entry expires, is left open.  The client's own ID, which        *)
(* addNewContacts drops, is not in ID.                                     *)
(*                                                                         *)
(* sequenceCounter is incremented without a lock: its load and its store   *)
(* are two steps.  Only differences of sequence numbers matter, so they    *)
(* are kept relative to it: a number is how far sequenceCounter is ahead.  *)
(***************************************************************************)
EXTENDS Maps, Identities

CONSTANTS Nobody,     \* the id of a thread that works on none
          Worker,     \* the other goroutines: handlers, health checks, cleanup
          Expander,   \* the contact expansion worker
          MaxLag      \* bound: callbacks count while no number is this far behind

Thread == Worker \cup {Expander}

ASSUME IDAssumption == Nobody \notin ID
ASSUME ThreadAssumption == Expander \notin Worker
ASSUME BoundAssumption == MaxLag \in Nat \ {0}

VARIABLES registered,   \* the keys of clientManager.hashMap
          queryQueue,   \* for each peer in client.queryQueue: its number
          thread,       \* for each thread: where it is, for which ID, its number
          target,       \* the peer expandContacts has taken out
          answer,       \* the contacts of its answer still to be added
          up            \* the peers that answer

vars == <<registered, queryQueue, thread, target, answer, up>>

Idle == [pc |-> "idle", id |-> Nobody, number |-> 0]

At(t, label) == thread[t].pc = label
Begin(t, label, id) ==
    /\ At(t, "idle")
    /\ thread' = [thread EXCEPT ![t] = [pc |-> label, id |-> id, number |-> 0]]
Goto(t, label) == thread' = [thread EXCEPT ![t].pc = label]

(* expandContacts goes on with the next contact of the answer.             *)
Finish(t) ==
    thread' = [thread EXCEPT ![t] = IF t = Expander /\ target # Nobody
                                    THEN [Idle EXCEPT !.pc = "learn"] ELSE Idle]

Init == /\ registered \in SUBSET ID
        /\ queryQueue = [id \in {} |-> 0]
        /\ thread = [t \in Thread |-> Idle]
        /\ target = Nobody
        /\ answer = {}
        /\ up \in SUBSET ID
-----------------------------------------------------------------------------
(* AddClient, from a form.  Its callback is the next step.                 *)
AddClient(w, id) ==
    /\ Begin(w, "added", id)
    /\ registered' = registered \cup {id}
    /\ UNCHANGED <<queryQueue, target, answer, up>>

(* addNewContacts, one contact, from a peer's request: ContainsClient.     *)
NewContact(w, id) ==
    /\ id \notin registered
    /\ Begin(w, "put", id)
    /\ UNCHANGED <<registered, queryQueue, target, answer, up>>

(* AddClient for a contact that was not registered when asked.             *)
Put(t) ==
    /\ At(t, "put")
    /\ registered' = registered \cup {thread[t].id}
    /\ Goto(t, "added")
    /\ UNCHANGED <<queryQueue, target, answer, up>>

(* A wrong add callback: it asks the registry instead of queryQueue.       *)
AddCallbackAsksRegistry(t) ==
    /\ At(t, "added")
    /\ IF thread[t].id \in registered THEN Finish(t) ELSE Goto(t, "load")
    /\ UNCHANGED <<registered, queryQueue, target, answer, up>>

(* PriorityQueueAddCallback.                                               *)
AddCallback(t) ==
    /\ At(t, "added")
    /\ IF thread[t].id \in DOMAIN queryQueue THEN Finish(t) ELSE Goto(t, "load")
    /\ UNCHANGED <<registered, queryQueue, target, answer, up>>

HasNumber(t) == thread[t].pc \in {"store", "insert"}

(* The bound: somebody has to insert, or the expander to extract, first.   *)
MayCount(t) ==
    /\ \A s \in Thread : HasNumber(s) => thread[s].number < MaxLag
    /\ t = Expander \/ \A id \in DOMAIN queryQueue : queryQueue[id] < MaxLag

(* sequenceCounter++ in two steps.                                         *)
Load(t) ==
    /\ At(t, "load")
    /\ MayCount(t)
    /\ thread' = [thread EXCEPT ![t].pc = "store", ![t].number = 0]
    /\ UNCHANGED <<registered, queryQueue, target, answer, up>>

(* The counter becomes what t has read plus one: it moves on by one, or    *)
(* goes back if others have counted in between.                            *)
Store(t) ==
    LET d == 1 - thread[t].number IN
    /\ At(t, "store")
    /\ queryQueue' = [id \in DOMAIN queryQueue |-> queryQueue[id] + d]
    /\ thread' = [s \in Thread |->
          IF s = t THEN [thread[t] EXCEPT !.pc = "insert", !.number = 0]
          ELSE IF HasNumber(s) THEN [thread[s] EXCEPT !.number = @ + d] ELSE thread[s]]
    /\ UNCHANGED <<registered, target, answer, up>>

(* The argument of Insert is the number just stored or one read anew.      *)
Read(t) ==
    /\ At(t, "insert")
    /\ thread' = [thread EXCEPT ![t].number = 0]
    /\ UNCHANGED <<registered, queryQueue, target, answer, up>>

Insert(t) ==
    /\ At(t, "insert")
    /\ queryQueue' = With(queryQueue, thread[t].id, thread[t].number)
    /\ Finish(t)
    /\ UNCHANGED <<registered, target, answer, up>>
-----------------------------------------------------------------------------
RemoveClient(w, id) ==
    /\ Begin(w, "removed", id)
    /\ registered' = registered \ {id}
    /\ UNCHANGED <<queryQueue, target, answer, up>>

(* disconnect: the client manager's Clear calls no callback.               *)
Clear(w) ==
    /\ At(w, "idle")
    /\ registered' = {}
    /\ UNCHANGED <<queryQueue, thread, target, answer, up>>

(* The cleanup worker or a check drops an expired entry.                   *)
Expire(w, id) ==
    /\ Begin(w, "removed", id)
    /\ UNCHANGED <<registered, queryQueue, target, answer, up>>

(* PriorityQueueRemoveCallback, if the peer was listed.                    *)
RemoveCallback(t) ==
    /\ At(t, "removed")
    /\ queryQueue' \in {queryQueue, Without(queryQueue, thread[t].id)}
    /\ Finish(t)
    /\ UNCHANGED <<registered, target, answer, up>>

(* A health check, and what it finds.  One that skips the peer, which was  *)
(* seen less than MinAge ago, ends here and changes nothing.               *)
Pick(w, id) ==
    /\ id \in registered
    /\ Begin(w, "ping", id)
    /\ UNCHANGED <<registered, queryQueue, target, answer, up>>

Ping(w) ==
    /\ At(w, "ping")
    /\ Goto(w, IF thread[w].id \in registered \cap up THEN "added" ELSE "dead")
    /\ UNCHANGED <<registered, queryQueue, target, answer, up>>

DeadCallback(w) ==
    /\ At(w, "dead")
    /\ queryQueue' \in {queryQueue, Without(queryQueue, thread[w].id)}
    /\ Goto(w, "unregister")
    /\ UNCHANGED <<registered, target, answer, up>>

Unregister(w) ==
    /\ At(w, "unregister")
    /\ registered' = registered \ {thread[w].id}
    /\ Finish(w)
    /\ UNCHANGED <<queryQueue, target, answer, up>>
-----------------------------------------------------------------------------
(* expandContacts: ExtractMin on queryQueue.                               *)
First == {id \in DOMAIN queryQueue :
             \A j \in DOMAIN queryQueue : queryQueue[j] <= queryQueue[id]}

Extract ==
    /\ At(Expander, "idle")
    /\ \E id \in First : /\ target' = id
                         /\ queryQueue' = Without(queryQueue, id)
    /\ Goto(Expander, "lookup")
    /\ UNCHANGED <<registered, answer, up>>

(* expandContacts returns early: the peer is not put back.                 *)
GiveUp ==
    /\ target' = Nobody
    /\ Goto(Expander, "idle")
    /\ UNCHANGED <<registered, queryQueue, answer, up>>

(* A wrong GetClient: an unregistered peer is queried, too.                *)
LookupUnchecked ==
    /\ At(Expander, "lookup")
    /\ Goto(Expander, "query")
    /\ UNCHANGED <<registered, queryQueue, target, answer, up>>

Lookup ==
    /\ At(Expander, "lookup")
    /\ \/ /\ target \in registered
          /\ Goto(Expander, "query")
          /\ UNCHANGED <<registered, queryQueue, target, answer, up>>
       \/ target \notin registered /\ GiveUp

(* The HTTP request fails, even to a peer that is up, and the peer stays   *)
(* out, or it is answered.                                                 *)
QueryFails ==
    /\ At(Expander, "query")
    /\ GiveUp

QueryAnswered ==
    /\ At(Expander, "query") /\ target \in up
    /\ answer' \in SUBSET ID
    /\ Goto(Expander, "learn")
    /\ UNCHANGED <<registered, queryQueue, target, up>>

(* addNewContacts on the answer.                                           *)
Learn(id) ==
    /\ At(Expander, "learn") /\ id \in answer
    /\ answer' = answer \ {id}
    /\ thread' = IF id \in registered THEN thread
                 ELSE [thread EXCEPT ![Expander] = [pc |-> "put", id |-> id, number |-> 0]]
    /\ UNCHANGED <<registered, queryQueue, target, up>>

PutBack(label) ==
    /\ At(Expander, "learn") /\ answer = {}
    /\ thread' = [thread EXCEPT ![Expander] = [pc |-> label, id |-> target, number |-> 0]]
    /\ target' = Nobody
    /\ UNCHANGED <<registered, queryQueue, answer, up>>

(* A wrong reinsertion: sequenceCounter is not incremented.                *)
LearnedUncounted == PutBack("insert")

(* The peer is put back, with a new number, whatever happened to it.       *)
Learned == PutBack("load")

Change(id) ==
    /\ up' = IF id \in up THEN up \ {id} ELSE up \cup {id}
    /\ UNCHANGED <<registered, queryQueue, thread, target, answer>>
-----------------------------------------------------------------------------
Callback(t) == Put(t) \/ AddCallback(t) \/ Store(t) \/ Insert(t) \/ RemoveCallback(t)

CheckStep(w) == Ping(w) \/ DeadCallback(w) \/ Unregister(w)

(* A check that is not skipped picks the peer, or something inserts it.    *)
Refresh(id) == \/ \E w \in Worker : Pick(w, id)
               \/ \E t \in Thread : thread[t].id = id /\ AddCallback(t)

Expand == \/ Extract \/ Lookup \/ QueryFails \/ QueryAnswered
          \/ \E id \in ID : Learn(id)
          \/ Learned

Next ==
    \/ \E w \in Worker, id \in ID :
          \/ AddClient(w, id) \/ NewContact(w, id) \/ RemoveClient(w, id)
          \/ Pick(w, id) \/ Expire(w, id)
    \/ \E w \in Worker : Clear(w) \/ CheckStep(w)
    \/ \E t \in Thread : Callback(t) \/ Load(t) \/ Read(t)
    \/ Expand
    \/ \E id \in ID : Change(id)

Spec == Init /\ [][Next]_vars

(* Goroutines run, the expansion ticker fires for ever, and random checks  *)
(* find every registered peer again.  They do not skip it for ever: its    *)
(* entry gets older than MinAge, unless something inserts it again.        *)
Fairness ==
    /\ \A t \in Thread : WF_vars(Callback(t)) /\ SF_vars(Load(t))
    /\ \A w \in Worker : WF_vars(CheckStep(w))
    /\ \A id \in ID : SF_vars(Refresh(id))
    /\ WF_vars(Expand)

FairSpec == Spec /\ Fairness
-----------------------------------------------------------------------------
Label == {"idle", "put", "added", "load", "store", "insert", "removed", "ping", "dead",
          "unregister", "lookup", "query", "learn"}

(* Only peers are queued, and only with numbers; the expander has a target *)
(* exactly from ExtractMin to the reinsertion.                             *)
TypeOK ==
    /\ registered \subseteq ID /\ up \subseteq ID
    /\ queryQueue \in [DOMAIN queryQueue -> Int] /\ DOMAIN queryQueue \subseteq ID
    /\ thread \in [Thread -> [pc : Label, id : ID \cup {Nobody}, number : Int]]
    /\ target \in ID \cup {Nobody} /\ answer \subseteq ID
    /\ At(Expander, "lookup") \/ At(Expander, "query") \/ At(Expander, "learn") => target # Nobody
    /\ At(Expander, "idle") => target = Nobody

Removing(id) ==
    \E t \in Worker : thread[t].id = id /\ thread[t].pc \in {"removed", "dead", "unregister"}

(* A peer that answers, stays registered and is not dropped any more is    *)
(* queried again and again: an answer lost before, a removal that overtook *)
(* an add, or a racing counter never shut it out of the rotation.          *)
QueriedAgain ==
    \A id \in ID : <>[](id \in registered \cap up /\ ~Removing(id))
        => []<>(At(Expander, "query") /\ target = id)

(* A peer that stays unregistered leaves queryQueue for good, although     *)
(* Clear calls no callback and expandContacts puts a peer back that was    *)
(* removed while it was being queried.                                     *)
ForgottenLeaves ==
    \A id \in ID : <>[](id \notin registered) => <>[](id \notin DOMAIN queryQueue)
=============================================================================
