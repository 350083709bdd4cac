----------------------------- MODULE Containers -----------------------------
(***************************************************************************)
(* Client containers: bootstrap/docker_client.go, the HTTP handlers of     *)
(* bootstrap/main.go that call it, and the Docker daemon they talk to.     *)
(*                                                                         *)
(* A call to the daemon is one step; between two of them other requests    *)
(* make theirs.  A container keeps its name until it is removed, and its   *)
(* ID, which is also its host name, is never given twice.                  *)
(***************************************************************************)
EXTENDS Maps, FiniteSets

CONSTANTS Container,   \* the IDs the daemon can give
          Name,        \* container names: the project's prefix and a client name
          Nothing,     \* no container
          ComposeID,   \* the client that docker compose starts,
          ComposeName, \* and its name
          Request,     \* goroutines of the HTTP server
          MaxCount     \* bound: clients in one bulk creation (200 in the code)

VARIABLES containers,   \* the daemon's containers: ID |-> [name, status]
          given,        \* the IDs given so far
          request       \* for each request: where it is and what it knows

vars == <<containers, given, request>>

(* left: creations still to do; todo: the names still to be worked on; id: *)
(* the container made last; before, which is history: the containers the   *)
(* request, if it is a removal, was about when it came.                    *)
Idle == [pc |-> "idle", op |-> "none", left |-> 0, todo |-> {}, id |-> Nothing,
         failed |-> FALSE, before |-> {}]

Init == /\ containers = [c \in {ComposeID} |-> [name |-> ComposeName, status |-> "running"]]
        /\ given = {ComposeID}
        /\ request = [r \in Request |-> Idle]

Existing == DOMAIN containers
Named(n) == {c \in Existing : containers[c].name = n}
Running == {c \in Existing : containers[c].status = "running"}

At(r, label) == request[r].pc = label
SetStatus(c, s) == [containers EXCEPT ![c].status = s]
-----------------------------------------------------------------------------
(* The handlers, after their checks of method and form.                    *)
Ask(r, req) == /\ At(r, "idle")
               /\ request' = [request EXCEPT ![r] = req]
               /\ UNCHANGED <<containers, given>>

addClientHandler(r, n) ==
    Ask(r, [Idle EXCEPT !.pc = "create", !.op = "add", !.left = 1, !.todo = {n}])

removeClientHandler(r, n) ==
    Ask(r, [Idle EXCEPT !.pc = "stop", !.op = "remove", !.todo = {n}, !.before = Named(n)])

bulkCreateClientsHandler(r, count) ==
    Ask(r, [Idle EXCEPT !.pc = "name", !.op = "bulk", !.left = count])

removeAllClientsHandler(r) ==
    Ask(r, [Idle EXCEPT !.pc = "list", !.op = "removeAll", !.before = Existing])

(* The answer is written, and the page with what GetClientContainers says. *)
Respond(r) == /\ At(r, "answered")
              /\ request' = [request EXCEPT ![r] = Idle]
              /\ UNCHANGED <<containers, given>>
-----------------------------------------------------------------------------
(* One creation has ended: a bulk creation goes on to the next name and,   *)
(* whatever its errors, answers OK.                                        *)
Created(r, ok) ==
    request' = [request EXCEPT
        ![r].left = @ - 1,
        ![r].pc = IF request[r].left > 1 THEN "name" ELSE "answered",
        ![r].failed = ~ok /\ request[r].op = "add"]

(* Names are random numbers and may be taken.                              *)
GenerateRandomName(r) ==
    /\ At(r, "name")
    /\ \E n \in Name : request' = [request EXCEPT ![r].pc = "create", ![r].todo = {n}]
    /\ UNCHANGED <<containers, given>>

(* The daemon gives a new ID, unless the name is taken (or, in the model,  *)
(* there is no ID left, which stands for a full disk).                     *)
Create(r, c) ==
    /\ At(r, "create") /\ c \in Container \ given
    /\ \E n \in request[r].todo :
        /\ Named(n) = {}
        /\ containers' = With(containers, c, [name |-> n, status |-> "created"])
    /\ given' = given \cup {c}

ContainerCreate(r) ==
    \E c \in Container :
        /\ Create(r, c)
        /\ request' = [request EXCEPT ![r].pc = "start", ![r].id = c]

ContainerCreateRefused(r) ==
    /\ At(r, "create")
    /\ given = Container \/ \E n \in request[r].todo : Named(n) # {}
    /\ Created(r, FALSE)
    /\ UNCHANGED <<containers, given>>

Start(r) ==
    /\ At(r, "start") /\ request[r].id \in Existing
    /\ containers' = SetStatus(request[r].id, "running")
    /\ UNCHANGED given

(* It fails if the container has been removed in between.                  *)
ContainerStart(r) ==
    \/ Start(r) /\ Created(r, TRUE)
    \/ /\ At(r, "start") /\ request[r].id \notin Existing
       /\ Created(r, FALSE)
       /\ UNCHANGED <<containers, given>>
-----------------------------------------------------------------------------
(* RemoveClient stops the container first; an error, or no such container, *)
(* does not keep it from removing.                                         *)
ContainerStop(r) ==
    /\ At(r, "stop")
    /\ containers' = [c \in Existing |->
           IF containers[c].name \in request[r].todo /\ containers[c].status # "created"
           THEN [containers[c] EXCEPT !.status = "exited"] ELSE containers[c]]
    /\ request' = [request EXCEPT ![r].pc = "remove"]
    /\ UNCHANGED given

(* A wrong listing: as docker ps lists by default.                         *)
ListRunning(r) ==
    /\ At(r, "list")
    /\ LET names == {containers[c].name : c \in Running} IN
        request' = [request EXCEPT ![r].todo = names,
                                   ![r].pc = IF names = {} THEN "answered" ELSE "remove"]
    /\ UNCHANGED <<containers, given>>

(* RemoveAllClients: the containers of any status.                         *)
GetClientContainers(r) ==
    /\ At(r, "list")
    /\ LET names == {containers[c].name : c \in Existing} IN
        request' = [request EXCEPT ![r].todo = names,
                                   ![r].pc = IF names = {} THEN "answered" ELSE "remove"]
    /\ UNCHANGED <<containers, given>>

(* A wrong collection: the last result counts.                             *)
RemovedLast(r, n, ok) ==
    request' = [request EXCEPT ![r].todo = @ \ {n},
                               ![r].failed = ~ok,
                               ![r].pc = IF request[r].todo = {n} THEN "answered" ELSE "remove"]

(* One goroutine a name; the request waits for all of them and fails if    *)
(* one has.  That nothing has the name any more is no error.               *)
Removed(r, n, ok) ==
    request' = [request EXCEPT ![r].todo = @ \ {n},
                               ![r].failed = @ \/ ~ok,
                               ![r].pc = IF request[r].todo = {n} THEN "answered" ELSE "remove"]

Remove(r, n) ==
    /\ At(r, "remove") /\ n \in request[r].todo
    /\ containers' = [c \in Existing \ Named(n) |-> containers[c]]
    /\ UNCHANGED given

ContainerRemove(r, n) == Remove(r, n) /\ Removed(r, n, TRUE)
-----------------------------------------------------------------------------
(* Any call may fail: the daemon, the image, the network, or the browser   *)
(* that has gone and so cancelled the context.                             *)
CallFails(r) ==
    /\ UNCHANGED <<containers, given>>
    /\ \/ (At(r, "create") \/ At(r, "start")) /\ Created(r, FALSE)
       \/ At(r, "stop") /\ request' = [request EXCEPT ![r].pc = "remove"]
       \/ At(r, "list") /\ request' = [request EXCEPT ![r].pc = "answered", ![r].failed = TRUE]
       \/ At(r, "remove") /\ \E n \in request[r].todo : Removed(r, n, FALSE)

(* The daemon does it, and its answer is lost: an error.  For a stop that  *)
(* is the same as an answer.                                               *)
AnswerLost(r) ==
    \/ (Start(r) \/ \E c \in Container : Create(r, c)) /\ Created(r, FALSE)
    \/ \E n \in Name : Remove(r, n) /\ Removed(r, n, FALSE)

(* A client's process dies, and the daemon starts it again: the restart    *)
(* policy is "unless stopped".                                             *)
ProcessDies(c) == /\ c \in Running
                  /\ containers' = SetStatus(c, "crashed")
                  /\ UNCHANGED <<given, request>>

ProcessRestarts(c) == /\ c \in Existing /\ containers[c].status = "crashed"
                      /\ containers' = SetStatus(c, "running")
                      /\ UNCHANGED <<given, request>>
-----------------------------------------------------------------------------
(* What comes from outside, and what server and daemon do by themselves.   *)
Arrive(r) == \/ \E n \in Name : addClientHandler(r, n) \/ removeClientHandler(r, n)
             \/ \E count \in 1 .. MaxCount : bulkCreateClientsHandler(r, count)
             \/ removeAllClientsHandler(r)

Environment == \/ \E r \in Request : Arrive(r) \/ CallFails(r) \/ AnswerLost(r)
               \/ \E c \in Container : ProcessDies(c)

RequestStep(r) == \/ GenerateRandomName(r) \/ ContainerCreate(r) \/ ContainerCreateRefused(r)
                  \/ ContainerStart(r) \/ ContainerStop(r) \/ GetClientContainers(r)
                  \/ \E n \in Name : ContainerRemove(r, n)
                  \/ Respond(r)

Step == \/ \E r \in Request : RequestStep(r)
        \/ \E c \in Container : ProcessRestarts(c)

Next == Environment \/ Step

Spec == Init /\ [][Next]_vars
-----------------------------------------------------------------------------
TypeOK ==
    /\ containers \in PartialMaps(Container, [name : Name,
                          status : {"created", "running", "crashed", "exited"}])
    /\ Existing \subseteq given /\ given \subseteq Container
    /\ request \in [Request ->
          [pc : {"idle", "name", "create", "start", "stop", "list", "remove", "answered"},
           op : {"none", "add", "remove", "bulk", "removeAll"}, left : 0 .. MaxCount,
           todo : SUBSET Name, id : Container \cup {Nothing},
           failed : BOOLEAN, before : SUBSET Container]]

(* An answer that is no error tells the truth, whatever other requests did *)
(* meanwhile: the client asked for was started (it may have crashed or     *)
(* been removed since), and of the containers a removal was about when it  *)
(* came, in whatever status, none is left.                                 *)
AnswersTrue ==
    \A r \in Request : At(r, "answered") /\ ~request[r].failed =>
        /\ request[r].op = "add" => request[r].id \notin Existing
                                    \/ containers[request[r].id].status # "created"
        /\ request[r].before \cap Existing = {}
=============================================================================
