------------------------- MODULE ClientManagerHistory -------------------------
(***************************************************************************)
(* ClientManager with two history variables, which watch its steps and     *)
(* constrain none of them.  They say which clients have a claim to be      *)
(* registered and which have a claim to be forgotten.                      *)
(***************************************************************************)
EXTENDS ClientManager

VARIABLES stable,   \* registered while answering, and neither removed nor silent since
          gone      \* removed, with no call or check under way that can list it

history == <<stable, gone>>
allvars == <<vars, history>>

Starts(t, label) == At(t, "idle") /\ thread'[t].pc = label

PutCalled(id) == \E c \in Caller : Starts(c, "insert") /\ thread'[c].id = id

RemoveCalled(id) == \E c \in Caller : \/ Starts(c, "dequeue") /\ thread'[c].id = id
                                      \/ Starts(c, "clear")

(* A check of id has come to the verdict that the client is dead.          *)
Condemned(id) == \E k \in Check : /\ thread[k].id = id
                                  /\ thread[k].pc \in {"dead", "dropped", "unregister"}

(* A call or a check will insert id, or will if the client answers.        *)
WillList(id) == \E t \in Thread : /\ thread[t].id = id
                                  /\ thread[t].pc \in {"request", "insert"}

(* The queue part of RemoveClient(id) or Clear.                            *)
RemovalDone(id) ==
    \E c \in Caller : \/ At(c, "dequeue") /\ ~(At(c, "dequeue"))' /\ thread[c].id = id
                      \/ At(c, "clear") /\ ~(At(c, "clear"))'

HistoryInit == /\ Init
               /\ stable = {}
               /\ gone = {}

Observe ==
    /\ stable' = {id \in up \cap up' :
                     /\ ~RemoveCalled(id)
                     /\ id \in stable \/ (PutCalled(id) /\ ~Condemned(id))}
    /\ gone' = {id \in ID :
                   /\ ~PutCalled(id)
                   /\ \/ id \in gone
                      \/ RemovalDone(id) /\ id \notin hashMap /\ ~WillList(id)}

HistorySpec == HistoryInit /\ [][Next /\ Observe]_allvars

FairHistorySpec == HistorySpec /\ Fairness

Suspects == {id \in ID : Condemned(id)}

(* The IDs of calls between their first step and their second.             *)
AskedToAdd == {id \in ID : \E c \in Caller : At(c, "insert") /\ thread[c].id = id}

AskedToRemove ==
    {id \in ID : \E c \in Caller : At(c, "clear") \/ (At(c, "dequeue") /\ thread[c].id = id)}

(* The registry without its queue and its checks' way to a verdict; what   *)
(* saves it and ends it is not part of this module.                        *)
R == INSTANCE Registry WITH
        members <- hashMap, suspects <- Suspects, running <- TRUE, saved <- {},
        answering <- up, adding <- AskedToAdd, removing <- AskedToRemove
-----------------------------------------------------------------------------
(* A client that was answering when it was registered, and has answered    *)
(* since, stays registered until someone removes it, if no check had given *)
(* it up before: a check is at most one registration late.                 *)
StableRegistered == stable \subseteq hashMap

(* A removed client stays unregistered and unlisted until it is added      *)
(* again, if nothing that could still list it was under way.               *)
GoneForgotten == gone \cap (hashMap \cup DOMAIN queue) = {}

(* However calls, checks and the cleanup interleave, the client manager is *)
(* a registry: only a call or a verdict takes a client out of it, and no   *)
(* entry of the queue, expired or evicted, leads to a verdict by itself.   *)
ImplementsRegistry == R!Spec
=============================================================================
