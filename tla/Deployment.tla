----------------------------- MODULE Deployment -----------------------------
(***************************************************************************)
(* The deployed system: the bootstrap server makes and removes client      *)
(* containers (Containers), and the clients in the running ones connect    *)
(* to it (Connection).                                                     *)
(*                                                                         *)
(* Both parts share the containers' status: a client's process begins when *)
(* its container is started or restarted, and ends when the container is   *)
(* stopped or removed, or the process dies.                                *)
(***************************************************************************)
EXTENDS Integers

CONSTANTS Container, Name, Nothing, ComposeID, ComposeName, Request, MaxCount,
          AutoConnect, MaxRetries,
          MaxEvents   \* bound: requests and faults together

ASSUME ContainerAssumption == Nothing \notin Container /\ AutoConnect \subseteq Container
ASSUME ComposeAssumption == ComposeID \in Container /\ ComposeName \in Name
ASSUME BoundAssumption == MaxCount \in Nat \ {0} /\ MaxRetries \in Nat /\ MaxEvents \in Nat

VARIABLES containers, given, request,
          process, call, late, serverUp, registered, condemned, file, excused,
          events      \* requests and faults so far

docker == <<containers, given, request>>
peers == <<process, call, late, serverUp, registered, condemned, file, excused>>
vars == <<docker, peers, events>>

D == INSTANCE Containers WITH
        Container <- Container, Name <- Name, Nothing <- Nothing, ComposeID <- ComposeID,
        ComposeName <- ComposeName, Request <- Request, MaxCount <- MaxCount,
        containers <- containers, given <- given, request <- request

C == INSTANCE Connection WITH
        Client <- Container, AutoConnect <- AutoConnect, MaxRetries <- MaxRetries,
        running <- D!Running,
        process <- process, call <- call, late <- late, serverUp <- serverUp,
        registered <- registered, condemned <- condemned, file <- file, excused <- excused

(* The requests with one operation that the server may still serve.        *)
Asking(op) == {c \in Container : call[c] = [op |-> op, at |-> "sent"] \/ <<c, op>> \in late}

(* A client that a check has given up did not answer in time, whether its  *)
(* process runs or not.                                                    *)
R == INSTANCE Registry WITH
        ID <- Container, members <- registered, suspects <- condemned,
        running <- serverUp, saved <- file, answering <- D!Running \ condemned,
        adding <- Asking("connect"), removing <- Asking("delete")

Init == D!Init /\ C!Init /\ events = 0

(* A step of the daemon that begins or ends a process, or none.            *)
Follow == C!Lifecycle \/ (D!Running' = D!Running /\ UNCHANGED peers)

Happens == events < MaxEvents /\ events' = events + 1

Next ==
    \/ Happens /\ D!Environment /\ Follow
    \/ Happens /\ UNCHANGED docker /\ C!Environment
    \/ D!Step /\ Follow /\ UNCHANGED events
    \/ UNCHANGED <<docker, events>> /\ C!Step

Spec == Init /\ [][Next]_vars

(* Goroutines that can run do, calls end, the daemon restarts what must    *)
(* run, and checks find every registered client; faults end at MaxEvents.  *)
Fairness ==
    /\ \A r \in Request : WF_vars(D!RequestStep(r) /\ Follow /\ UNCHANGED events)
    /\ \A c \in Container :
        /\ WF_vars(D!ProcessRestarts(c) /\ Follow /\ UNCHANGED events)
        /\ WF_vars(UNCHANGED <<docker, events>> /\ C!ClientStep(c))
    /\ WF_vars(UNCHANGED <<docker, events>> /\ C!Start)

FairSpec == Spec /\ Fairness
-----------------------------------------------------------------------------
TypeOK == D!TypeOK /\ C!TypeOK /\ events \in 0 .. MaxEvents

AnswersTrue == D!AnswersTrue
ConnectedIsRegistered == C!ConnectedIsRegistered

(* The server keeps a registry as the client manager promises it: its own  *)
(* requests, checks and exits alone decide who is in it, not the fate of a *)
(* client's process or call, and a restart brings back what was saved.     *)
ServerIsRegistry == R!Spec

(* While its process runs, a client with auto-connect is connected again   *)
(* and again, unless MAX_RETRIES attempts in a row have failed.            *)
Rejoins ==
    \A c \in AutoConnect :
        []<>(c \in D!Running => \/ process[c].connected
                                \/ process[c].retryCount > 0
                                   /\ process[c].retryCount = process[c].maxRetries)

(* A client whose container is gone leaves the registry for good, also     *)
(* when its last connect is still to come, or a restart brings it back.    *)
GoneUnregistered == \A c \in Container : <>[](c \in D!Existing \/ c \notin registered)
=============================================================================
