--------------------------- MODULE DeploymentProofs --------------------------
(***************************************************************************)
(* Theorems about Deployment, for any containers, clients and requests,    *)
(* any MAX_RETRIES, and any number of faults: a client that says it is     *)
(* connected is registered, unless its registration was ended by other     *)
(* than itself; an answer about containers that is no error is true; every *)
(* count stays within its bounds; and the whole implements each part, and  *)
(* the registry that the client manager promises.  Each invariant has an   *)
(* inductive one, of the part of the system it is about.                   *)
(***************************************************************************)
EXTENDS Deployment, TLAPS

(* The types, as far as the proof needs them.                              *)
Shape ==
    /\ D!Running \subseteq Container
    /\ DOMAIN process = Container /\ DOMAIN call = Container
    /\ \A c \in Container : "connected" \in DOMAIN process[c]

(* What a client can rely on, also while the server is down: it will start *)
(* with what is in the file.                                               *)
Kept(c) == c \in (IF serverUp THEN registered ELSE file) \cup excused

Deletes(k) == k = [op |-> "delete", at |-> "served"]
Connects(k) == k = [op |-> "connect", at |-> "served"]

(* A client that is connected, or that will be when it has read an answer, *)
(* has a registration, if it has not itself just deleted it.               *)
KeptOK ==
    \A c \in Container :
        process[c].connected \/ Connects(call[c]) => Kept(c) \/ Deletes(call[c])

(* A client disconnects only from a connection, and holds the lock until   *)
(* it has the answer.                                                      *)
CallRight(c) ==
    /\ call[c] \in [op : {"connect", "delete"}, at : {"sent", "served"}] \cup {C!NoCall}
    /\ call[c].op = "delete" => process[c].connected

CallOK == \A c \in Container : CallRight(c)

PeersInv == Shape /\ CallOK /\ KeptOK
-----------------------------------------------------------------------------
(* A new process is not connected.                                         *)
LEMMA NewProcessOK ==
    ASSUME NEW c, NEW max
    PROVE  "connected" \in DOMAIN C!NewProcess(c, max) /\ ~C!NewProcess(c, max).connected
  BY DEF C!NewProcess

(* A client that has no call waits for no answer.                          *)
LEMMA NoCallOK ==
    C!NoCall.op = "none" /\ C!NoCall.at = "none" /\ ~Connects(C!NoCall) /\ ~Deletes(C!NoCall)
  <1>1. C!NoCall.op = "none" /\ C!NoCall.at = "none"
    BY DEF C!NoCall
  <1> QED BY <1>1 DEF Connects, Deletes

(* The initial states satisfy the invariant.                               *)
LEMMA PeersInit == C!Init => PeersInv
  <1> SUFFICES ASSUME C!Init PROVE PeersInv
    OBVIOUS
  <1>1. PICK max \in [AutoConnect -> 0 .. MaxRetries] :
               process = [c \in Container |->
                             C!NewProcess(c, IF c \in AutoConnect THEN max[c] ELSE 0)]
    BY DEF C!Init
  <1>2. DOMAIN process = Container
    BY <1>1
  <1>3. \A c \in Container : "connected" \in DOMAIN process[c] /\ ~process[c].connected
    BY <1>1, NewProcessOK
  <1>4. DOMAIN call = Container /\ \A c \in Container : call[c] = C!NoCall
    BY DEF C!Init
  <1>5. \A c \in Container : CallRight(c) /\ ~Connects(call[c])
    BY <1>4, NoCallOK DEF CallRight
  <1>6. D!Running \subseteq Container
    BY DEF C!Init
  <1> QED BY <1>2, <1>3, <1>4, <1>5, <1>6 DEF PeersInv, Shape, CallOK, KeptOK

(* A step of one client that ends no other's registration, and by which    *)
(* the client becomes connected only if it has one.                        *)
OthersAlone(c) ==
    /\ D!Running' \subseteq Container
    /\ DOMAIN process' = Container /\ DOMAIN call' = Container
    /\ "connected" \in DOMAIN process'[c]
    /\ \A d \in Container \ {c} : process'[d] = process[d] /\ call'[d] = call[d]

(* It keeps the invariant if it does for that client.                      *)
LEMMA ClientOnly ==
    ASSUME PeersInv, NEW c \in Container, OthersAlone(c), CallRight(c)',
           \A d \in Container \ {c} : Kept(d) => Kept(d)',
           process'[c].connected \/ Connects(call'[c]) => Kept(c)' \/ Deletes(call'[c])
    PROVE  PeersInv'
  <1>1. Shape'
    BY DEF OthersAlone, PeersInv, Shape
  <1>2. ASSUME NEW d \in Container, process'[d].connected \/ Connects(call'[d])
        PROVE  Kept(d)' \/ Deletes(call'[d])
    <2>1. CASE d = c
      BY <1>2, <2>1
    <2>2. CASE d # c
      BY <1>2, <2>2 DEF OthersAlone, PeersInv, KeptOK
    <2> QED BY <2>1, <2>2
  <1>3. CallOK'
    BY DEF OthersAlone, PeersInv, CallOK, CallRight
  <1> QED BY <1>1, <1>2, <1>3 DEF PeersInv, KeptOK

(* A step that leaves the clients alone and ends no registration.          *)
LEMMA ServerOnly ==
    ASSUME PeersInv, UNCHANGED <<process, call>>, D!Running' \subseteq Container,
           \A d \in Container : Kept(d) => Kept(d)'
    PROVE  PeersInv'
  <1>1. Shape'
    BY DEF PeersInv, Shape
  <1>2. \A c \in Container : process'[c] = process[c] /\ call'[c] = call[c]
    OBVIOUS
  <1> QED BY <1>1, <1>2 DEF PeersInv, CallOK, CallRight, KeptOK
-----------------------------------------------------------------------------
(* A step that changes other fields of a client than connected.            *)
LEMMA FieldsOnly ==
    ASSUME PeersInv, NEW c \in Container, OthersAlone(c), CallRight(c)', UNCHANGED C!server,
           process'[c].connected = process[c].connected,
           Connects(call'[c]) => Connects(call[c]),
           Deletes(call[c]) => Deletes(call'[c])
    PROVE  PeersInv'
  <1>1. \A d \in Container : Kept(d)' = Kept(d)
    BY DEF C!server, Kept
  <1>2. process'[c].connected \/ Connects(call'[c]) => Kept(c)' \/ Deletes(call'[c])
    BY <1>1 DEF PeersInv, KeptOK
  <1> QED BY <1>1, <1>2, ClientOnly

(* The steps that only decide something.                                   *)
LEMMA Decides ==
    ASSUME PeersInv, NEW c \in Container, C!tryAutoConnect(c) \/ C!refreshHandler(c)
    PROVE  PeersInv'
  <1>1. /\ D!Running \subseteq Container
        /\ DOMAIN process = Container /\ DOMAIN call = Container
        /\ "connected" \in DOMAIN process[c]
    BY DEF PeersInv, Shape
  <1>2. UNCHANGED <<call, C!server, D!Running>>
    BY DEF C!tryAutoConnect, C!refreshHandler
  <1>3. PICK p : /\ process' = [process EXCEPT ![c] = p]
                 /\ "connected" \in DOMAIN p /\ p.connected = process[c].connected
    <2>1. CASE C!refreshHandler(c)
      <3> DEFINE next == [process[c] EXCEPT !.refresh = TRUE]
      <3>1. process' = [process EXCEPT ![c] = next]
        BY <2>1, Zenon DEF C!refreshHandler
      <3>2. "connected" \in DOMAIN next /\ next.connected = process[c].connected
        BY <1>1
      <3> QED BY <3>1, <3>2
    <2>2. CASE C!tryAutoConnect(c)
      <3> DEFINE a == process[c]
                 Over == a.maxRetries > 0 /\ a.retryCount >= a.maxRetries
                 next == IF a.connected THEN [a EXCEPT !.retryCount = 0]
                         ELSE IF Over THEN [a EXCEPT !.auto = "stopped"]
                         ELSE [a EXCEPT !.auto = "decided"]
      <3>1. process' = [process EXCEPT ![c] = next]
        BY <2>2, Zenon DEF C!tryAutoConnect
      <3>2. "connected" \in DOMAIN next /\ next.connected = a.connected
        <4> HIDE DEF Over
        <4> QED BY <1>1
      <3> QED BY <3>1, <3>2
    <2> QED BY <2>1, <2>2
  <1>4. OthersAlone(c) /\ process'[c].connected = process[c].connected
    BY <1>1, <1>2, <1>3 DEF OthersAlone
  <1>5. CallRight(c)' /\ call'[c] = call[c]
    BY <1>2, <1>4 DEF PeersInv, CallOK, CallRight
  <1> QED BY <1>2, <1>4, <1>5, FieldsOnly

(* The steps that begin a call.                                            *)
LEMMA BeginsCall ==
    ASSUME PeersInv, NEW c \in Container,
           \/ C!autoConnect(c) \/ C!connectHandler(c)
           \/ C!refreshConnect(c) \/ C!disconnectHandler(c)
    PROVE  PeersInv'
  <1>1. /\ D!Running \subseteq Container
        /\ DOMAIN process = Container /\ DOMAIN call = Container
        /\ "connected" \in DOMAIN process[c]
    BY DEF PeersInv, Shape
  <1>2. /\ call[c] = C!NoCall /\ UNCHANGED <<C!server, D!Running>>
        /\ \E op \in {"connect", "delete"} :
              /\ call' = [call EXCEPT ![c] = [op |-> op, at |-> "sent"]]
              /\ op = "delete" => process[c].connected
        /\ \/ process' = [process EXCEPT ![c].auto = "calling"]
           \/ process' = [process EXCEPT ![c].page = "calling"]
           \/ process' = [process EXCEPT ![c].refresh = FALSE, ![c].page = "calling"]
    BY DEF C!autoConnect, C!connectHandler, C!refreshConnect, C!disconnectHandler, C!Free, C!Post
  <1>3. OthersAlone(c) /\ process'[c].connected = process[c].connected
    BY <1>1, <1>2 DEF OthersAlone
  <1>4. ~Connects(call'[c]) /\ ~Deletes(call[c])
    BY <1>1, <1>2 DEF C!NoCall, Connects, Deletes
  <1>5. CallRight(c)'
    BY <1>1, <1>2, <1>3 DEF CallRight
  <1> QED BY <1>2, <1>3, <1>4, <1>5, FieldsOnly
-----------------------------------------------------------------------------
(* What the end of a call leaves.                                          *)
LEMMA FinishOK ==
    ASSUME PeersInv, NEW c \in Container, NEW ok \in BOOLEAN, C!Finish(c, ok), UNCHANGED D!Running
    PROVE  /\ OthersAlone(c)
           /\ process'[c].connected = C!ConnectedAfter(c, ok)
           /\ ~Connects(call'[c]) /\ CallRight(c)'
  <1>1. /\ D!Running \subseteq Container
        /\ DOMAIN process = Container /\ DOMAIN call = Container
        /\ "connected" \in DOMAIN process[c]
    BY DEF PeersInv, Shape
  <1>2. call' = [call EXCEPT ![c] = C!NoCall]
    BY DEF C!Finish
  <1>3. /\ DOMAIN process' = Container /\ "connected" \in DOMAIN process'[c]
        /\ process'[c].connected = C!ConnectedAfter(c, ok)
        /\ \A d \in Container \ {c} : process'[d] = process[d]
    BY <1>1 DEF C!Finish
  <1> QED BY <1>1, <1>2, <1>3 DEF OthersAlone, C!NoCall, Connects, CallRight

(* Every end of a call; the file and the registry stay as they are.        *)
LEMMA CallEnds ==
    ASSUME PeersInv, NEW c \in Container, C!Answer(c) \/ C!Refused(c) \/ C!Break(c)
    PROVE  PeersInv'
  <1>1. CASE C!Answer(c)
    <2>1. C!Finish(c, TRUE) /\ UNCHANGED <<C!server, D!Running>> /\ call[c].at = "served"
      BY <1>1 DEF C!Answer
    <2>2. /\ OthersAlone(c) /\ ~Connects(call'[c]) /\ CallRight(c)'
          /\ process'[c].connected = C!ConnectedAfter(c, TRUE)
      BY <2>1, FinishOK
    <2>3. process'[c].connected => Connects(call[c])
      <3>1. call[c] \in [op : {"connect", "delete"}, at : {"served"}]
        BY <2>1, NoCallOK DEF PeersInv, CallOK, CallRight
      <3> QED BY <2>2, <3>1 DEF C!ConnectedAfter, Connects
    <2>4. \A d \in Container : Kept(d)' = Kept(d)
      BY <2>1 DEF C!server, Kept
    <2>5. process'[c].connected => Kept(c)
      BY <2>3 DEF PeersInv, KeptOK, Connects, Deletes
    <2> QED BY <2>2, <2>4, <2>5, ClientOnly
  <1>2. CASE C!Refused(c) \/ C!Break(c)
    <2>1. /\ C!Finish(c, FALSE) /\ C!ExcuseLostAnswer(c) /\ call[c] # C!NoCall
          /\ UNCHANGED <<serverUp, registered, file, D!Running>>
      BY <1>2 DEF C!Refused, C!Break
    <2>2. /\ OthersAlone(c) /\ ~Connects(call'[c]) /\ CallRight(c)'
          /\ process'[c].connected = C!ConnectedAfter(c, FALSE)
      BY <2>1, FinishOK
    <2>3. \A d \in Container : Kept(d) => Kept(d)'
      BY <2>1 DEF C!ExcuseLostAnswer, Kept
    <2>4. ASSUME process'[c].connected PROVE Kept(c)'
      <3>1. call[c] \in [op : {"delete"}, at : {"sent", "served"}]
        BY <2>1, <2>2, <2>4 DEF C!ConnectedAfter, PeersInv, CallOK, CallRight, C!NoCall
      <3>2. CASE Deletes(call[c])
        BY <2>1, <3>2 DEF C!ExcuseLostAnswer, Deletes, Kept
      <3>3. CASE ~Deletes(call[c])
        <4>1. process[c].connected
          BY <3>1 DEF PeersInv, CallOK, CallRight
        <4> QED BY <2>3, <3>3, <4>1 DEF PeersInv, KeptOK
      <3> QED BY <3>2, <3>3
    <2> QED BY <2>2, <2>3, <2>4, ClientOnly
  <1> QED BY <1>1, <1>2

(* A process that ends loses its connection, and its call.                 *)
LEMMA EndOK ==
    ASSUME PeersInv, NEW c \in Container, C!End(c)
    PROVE  PeersInv'
  <1>1. /\ D!Running \subseteq Container
        /\ DOMAIN process = Container /\ DOMAIN call = Container
    BY DEF PeersInv, Shape
  <1>2. /\ process' = [process EXCEPT ![c] = C!NewProcess(c, @.maxRetries)]
        /\ call' = [call EXCEPT ![c] = C!NoCall] /\ UNCHANGED C!server
        /\ D!Running' = D!Running \ {c}
    BY DEF C!End
  <1>3. "connected" \in DOMAIN process'[c] /\ ~process'[c].connected
    BY <1>1, <1>2, NewProcessOK
  <1>4. call'[c] = C!NoCall
    BY <1>1, <1>2
  <1>5. OthersAlone(c)
    BY <1>1, <1>2, <1>3 DEF OthersAlone
  <1>6. CallRight(c)' /\ ~Connects(call'[c])
    BY <1>4 DEF CallRight, C!NoCall, Connects
  <1>7. \A d \in Container : Kept(d)' = Kept(d)
    BY <1>2 DEF C!server, Kept
  <1> QED BY <1>3, <1>5, <1>6, <1>7, ClientOnly
-----------------------------------------------------------------------------
(* The server does what the client that waits asks for.                    *)
LEMMA ServeOK ==
    ASSUME PeersInv, NEW c \in Container, C!Serve(c)
    PROVE  PeersInv'
  <1>1. /\ D!Running \subseteq Container /\ DOMAIN process = Container /\ DOMAIN call = Container
        /\ "connected" \in DOMAIN process[c]
        /\ call[c].at = "sent" /\ CallRight(c)
    BY DEF PeersInv, Shape, CallOK, C!Serve
  <1>2. /\ UNCHANGED <<process, D!Running>> /\ call' = [call EXCEPT ![c].at = "served"]
        /\ serverUp /\ serverUp' = serverUp /\ excused' = excused \ {c}
        /\ registered' = IF call[c].op = "connect" THEN registered \cup {c}
                         ELSE registered \ {c}
    BY DEF C!Serve, C!Perform
  <1>3. OthersAlone(c)
    BY <1>1, <1>2 DEF OthersAlone
  <1>4. call[c] \in [op : {"connect", "delete"}, at : {"sent"}]
    BY <1>1 DEF CallRight, C!NoCall
  <1>5. call'[c] = [op |-> call[c].op, at |-> "served"]
    BY <1>1, <1>2, <1>4
  <1>6. CallRight(c)'
    BY <1>1, <1>2, <1>4, <1>5 DEF CallRight
  <1>7. \A d \in Container \ {c} : Kept(d) => Kept(d)'
    BY <1>2 DEF Kept
  <1>8. Kept(c)' \/ Deletes(call'[c])
    BY <1>2, <1>4, <1>5 DEF Kept, Deletes
  <1> QED BY <1>3, <1>6, <1>7, <1>8, ClientOnly

(* A late request changes a registration of which the client no longer     *)
(* knows; the health check, the exit and the loss of what was not written  *)
(* excuse the clients they take.                                           *)
LEMMA ServerOK ==
    ASSUME PeersInv,
           \/ \E c \in Container, op \in {"connect", "delete"} : C!ServeLate(c, op)
           \/ \E c \in Container : C!Judge(c) \/ C!CheckFails(c) \/ C!Unregister(c)
           \/ C!Persist \/ C!Exit \/ C!Start
    PROVE  PeersInv'
  <1>1. CASE \E c \in Container, op \in {"connect", "delete"} : C!ServeLate(c, op)
    <2>1. PICK c \in Container, op \in {"connect", "delete"} : C!ServeLate(c, op)
      BY <1>1
    <2>2. \A d \in Container : Kept(d) => Kept(d)'
      BY <2>1 DEF C!ServeLate, C!Perform, Kept
    <2>3. UNCHANGED <<process, call, D!Running>>
      BY <2>1 DEF C!ServeLate, C!Perform
    <2> QED BY <2>2, <2>3, ServerOnly DEF PeersInv, Shape
  <1>2. CASE \E c \in Container : C!Judge(c) \/ C!CheckFails(c) \/ C!Unregister(c)
    <2>1. PICK c \in Container : C!Judge(c) \/ C!CheckFails(c) \/ C!Unregister(c)
      BY <1>2
    <2>2. UNCHANGED <<process, call, D!Running>>
      BY <2>1 DEF C!Judge, C!CheckFails, C!Unregister
    <2>3. \A d \in Container : Kept(d) => Kept(d)'
      BY <2>1 DEF C!Judge, C!CheckFails, C!Unregister, Kept
    <2> QED BY <2>2, <2>3, ServerOnly DEF PeersInv, Shape
  <1>3. CASE C!Persist \/ C!Exit \/ C!Start
    <2>1. UNCHANGED <<process, call, D!Running>>
      BY <1>3 DEF C!Persist, C!Exit, C!Start
    <2>2. \A d \in Container : Kept(d) => Kept(d)'
      BY <1>3 DEF C!Persist, C!Exit, C!Start, Kept
    <2> QED BY <2>1, <2>2, ServerOnly DEF PeersInv, Shape
  <1> QED BY <1>1, <1>2, <1>3
-----------------------------------------------------------------------------
(* Every step of the connections preserves it.                             *)
LEMMA PeersNext ==
    ASSUME PeersInv, C!Next \/ UNCHANGED <<D!Running, peers>>
    PROVE  PeersInv'
  <1>1. CASE C!Environment
    BY <1>1, BeginsCall, Decides, CallEnds, ServerOK DEF C!Environment
  <1>2. CASE C!Lifecycle
    <2>1. PICK c \in Container : C!Begin(c) \/ C!End(c)
      BY <1>2 DEF C!Lifecycle
    <2>2. CASE C!Begin(c)
      BY <2>2, ServerOnly DEF C!Begin, C!server, Kept, PeersInv, Shape
    <2> QED BY <2>1, <2>2, EndOK
  <1>3. CASE C!Step
    BY <1>3, BeginsCall, Decides, CallEnds, ServeOK, ServerOK DEF C!Step, C!ClientStep
  <1>4. CASE UNCHANGED <<D!Running, peers>>
    BY <1>4, ServerOnly DEF peers, Kept, PeersInv, Shape
  <1> QED BY <1>1, <1>2, <1>3, <1>4 DEF C!Next

(* A step of the deployed system is one of its connections, or leaves them *)
(* alone.                                                                  *)
LEMMA NextIsConnection ==
    [Next]_vars => C!Next \/ UNCHANGED <<D!Running, peers>>
  <1>1. Follow => C!Next \/ UNCHANGED <<D!Running, peers>>
    BY DEF Follow, C!Next
  <1>2. UNCHANGED docker => UNCHANGED D!Running
    BY DEF docker, D!Running, D!Existing
  <1>3. UNCHANGED vars => UNCHANGED <<D!Running, peers>>
    BY <1>2 DEF vars
  <1> QED BY <1>1, <1>3 DEF Next, C!Next

(* While the server is up, a client that says it is connected is           *)
(* registered, unless a health check removed it, the server exited within  *)
(* 30 s of the registration, or a disconnect broke off halfway.            *)
THEOREM RegistrationKept == Spec => []ConnectedIsRegistered
  <1>1. PeersInv => ConnectedIsRegistered
    <2> SUFFICES ASSUME PeersInv, NEW c \in Container, serverUp, process[c].connected
                 PROVE  c \in registered \cup excused \/ Deletes(call[c])
      BY DEF ConnectedIsRegistered, C!ConnectedIsRegistered, Deletes, PeersInv, Shape
    <2> QED BY DEF PeersInv, KeptOK, Kept
  <1>2. Init => PeersInv
    BY PeersInit DEF Init
  <1>3. PeersInv /\ [Next]_vars => PeersInv'
    BY PeersNext, NextIsConnection
  <1> QED BY <1>1, <1>2, <1>3, PTL DEF Spec
-----------------------------------------------------------------------------
(* The containers, a map m, and the IDs given, g.  These definitions have  *)
(* the state as parameters, and so speak of it before and after a step.    *)
WellFormed(m, g) ==
    /\ DOMAIN m \subseteq g
    /\ \A c \in DOMAIN m : "name" \in DOMAIN m[c] /\ "status" \in DOMAIN m[c]

(* What any step does to the containers: a container keeps its name until  *)
(* it is removed, does not come back, and is never again only created.     *)
Evolves(m, g, m2, g2) ==
    /\ g \subseteq g2
    /\ WellFormed(m2, g2)
    /\ \A c \in g \cap DOMAIN m2 :
        /\ c \in DOMAIN m
        /\ m2[c].name = m[c].name
        /\ m2[c].status = "created" => m[c].status = "created"

(* What a request q knows: as long as a removal has not failed, each       *)
(* container it is about has a name that it still has to remove, and the   *)
(* container a creation is about can only be older than the step.          *)
Right(q, m, g) ==
    /\ q.before \subseteq g
    /\ q.pc \in {"name", "create", "start"} => q.before = {}
    /\ q.pc \in {"stop", "list", "remove"} => q.op # "add"
    /\ q.pc \in {"stop", "remove"} /\ ~q.failed =>
           \A c \in q.before \cap DOMAIN m : m[c].name \in q.todo
    /\ q.pc = "answered" /\ ~q.failed => q.before \cap DOMAIN m = {}
    /\ q.pc = "start" => q.id \in g
    /\ q.pc = "answered" /\ ~q.failed /\ q.op = "add" =>
           q.id \in g /\ (q.id \notin DOMAIN m \/ m[q.id].status # "created")

Fields == {"pc", "op", "left", "todo", "id", "failed", "before"}

DockerInv ==
    /\ WellFormed(containers, given)
    /\ DOMAIN request = Request
    /\ \A r \in Request : DOMAIN request[r] = Fields /\ Right(request[r], containers, given)

(* What others do makes no request wrong.                                  *)
LEMMA RightStays ==
    ASSUME NEW m, NEW g, NEW m2, NEW g2, NEW q, Evolves(m, g, m2, g2), Right(q, m, g)
    PROVE  Right(q, m2, g2)
  BY DEF Evolves, Right

(* A step that leaves the containers alone.                                *)
LEMMA EvolvesRefl ==
    ASSUME NEW m, NEW g, WellFormed(m, g)
    PROVE  Evolves(m, g, m, g)
  BY DEF Evolves

(* A step of one request: its fields remain, and the others' as they were. *)
OneRequest(r) ==
    /\ DOMAIN request' = Request
    /\ DOMAIN request'[r] = Fields
    /\ \A s \in Request \ {r} : request'[s] = request[s]

(* It keeps the invariant if the request is still right.                   *)
LEMMA RequestOnly ==
    ASSUME DockerInv, NEW r \in Request, OneRequest(r),
           Evolves(containers, given, containers', given'),
           Right(request'[r], containers', given')
    PROVE  DockerInv'
  <1>1. \A s \in Request : DOMAIN request'[s] = Fields /\ Right(request'[s], containers', given')
    BY RightStays DEF DockerInv, OneRequest
  <1> QED BY <1>1 DEF DockerInv, Evolves, OneRequest

(* A step of the daemon alone.                                             *)
LEMMA DaemonOnly ==
    ASSUME DockerInv, request' = request, Evolves(containers, given, containers', given')
    PROVE  DockerInv'
  BY RightStays DEF DockerInv, Evolves

(* The container that docker compose has started, and no request.          *)
LEMMA DockerInit == D!Init => DockerInv
  BY DEF D!Init, D!Idle, DockerInv, WellFormed, Right, Fields

(* A container that is started, dies or is started again.                  *)
LEMMA SetStatusEvolves ==
    ASSUME NEW m, NEW g, NEW c, NEW s, WellFormed(m, g), s # "created"
    PROVE  Evolves(m, g, [m EXCEPT ![c].status = s], g)
  BY DEF Evolves, WellFormed
-----------------------------------------------------------------------------
(* A request that comes, and one that is over.                             *)
LEMMA ArriveOK ==
    ASSUME DockerInv, NEW r \in Request, D!Arrive(r) \/ D!Respond(r)
    PROVE  DockerInv'
  <1>1. UNCHANGED <<containers, given>>
    BY DEF D!Arrive, D!addClientHandler, D!removeClientHandler, D!bulkCreateClientsHandler,
           D!removeAllClientsHandler, D!Ask, D!Respond
  <1>2. ASSUME NEW q, request' = [request EXCEPT ![r] = q], DOMAIN q = Fields,
               Right(q, containers, given)
        PROVE  DockerInv'
    <2>1. OneRequest(r) /\ request'[r] = q
      BY <1>2 DEF DockerInv, OneRequest
    <2> QED BY <1>1, <1>2, <2>1, RequestOnly, EvolvesRefl DEF DockerInv
  <1>3. CASE D!Respond(r)
    <2>1. DOMAIN D!Idle = Fields /\ Right(D!Idle, containers, given)
      BY DEF D!Idle, Fields, Right
    <2> QED BY <1>2, <1>3, <2>1 DEF D!Respond
  <1>4. CASE \E n \in Name : D!addClientHandler(r, n)
    <2>1. PICK n \in Name : D!addClientHandler(r, n)
      BY <1>4
    <2> DEFINE q == [D!Idle EXCEPT !.pc = "create", !.op = "add", !.left = 1, !.todo = {n}]
    <2>2. DOMAIN q = Fields /\ Right(q, containers, given)
      BY DEF D!Idle, Fields, Right
    <2> HIDE DEF q
    <2>3. request' = [request EXCEPT ![r] = q]
      BY <2>1 DEF D!addClientHandler, D!Ask, q
    <2> QED BY <1>2, <2>2, <2>3
  <1>5. CASE \E n \in Name : D!removeClientHandler(r, n)
    <2>1. PICK n \in Name : D!removeClientHandler(r, n)
      BY <1>5
    <2> DEFINE q == [D!Idle EXCEPT !.pc = "stop", !.op = "remove", !.todo = {n},
                                   !.before = D!Named(n)]
    <2>2. DOMAIN q = Fields /\ Right(q, containers, given)
      BY DEF D!Idle, Fields, Right, D!Named, D!Existing, DockerInv, WellFormed
    <2> HIDE DEF q
    <2>3. request' = [request EXCEPT ![r] = q]
      BY <2>1 DEF D!removeClientHandler, D!Ask, q
    <2> QED BY <1>2, <2>2, <2>3
  <1>6. CASE \E count \in 1 .. MaxCount : D!bulkCreateClientsHandler(r, count)
    <2>1. PICK count \in 1 .. MaxCount : D!bulkCreateClientsHandler(r, count)
      BY <1>6
    <2> DEFINE q == [D!Idle EXCEPT !.pc = "name", !.op = "bulk", !.left = count]
    <2>2. DOMAIN q = Fields /\ Right(q, containers, given)
      BY DEF D!Idle, Fields, Right
    <2> HIDE DEF q
    <2>3. request' = [request EXCEPT ![r] = q]
      BY <2>1 DEF D!bulkCreateClientsHandler, D!Ask, q
    <2> QED BY <1>2, <2>2, <2>3
  <1>7. CASE D!removeAllClientsHandler(r)
    <2> DEFINE q == [D!Idle EXCEPT !.pc = "list", !.op = "removeAll", !.before = D!Existing]
    <2>2. DOMAIN q = Fields /\ Right(q, containers, given)
      BY DEF D!Idle, Fields, Right, D!Existing, DockerInv, WellFormed
    <2> HIDE DEF q
    <2>3. request' = [request EXCEPT ![r] = q]
      BY <1>7 DEF D!removeAllClientsHandler, D!Ask, q
    <2> QED BY <1>2, <2>2, <2>3
  <1> QED BY <1>3, <1>4, <1>5, <1>6, <1>7 DEF D!Arrive
-----------------------------------------------------------------------------
(* What the daemon does for a request.                                     *)
LEMMA CreateEvolves ==
    ASSUME WellFormed(containers, given), NEW r, NEW c, D!Create(r, c)
    PROVE  Evolves(containers, given, containers', given')
  BY DEF D!Create, D!With, Evolves, WellFormed

LEMMA StartEvolves ==
    ASSUME WellFormed(containers, given), NEW r, D!Start(r)
    PROVE  Evolves(containers, given, containers', given')
  BY SetStatusEvolves DEF D!Start, D!SetStatus

LEMMA RemoveEvolves ==
    ASSUME WellFormed(containers, given), NEW r, NEW n, D!Remove(r, n)
    PROVE  /\ Evolves(containers, given, containers', given')
           /\ \A c \in DOMAIN containers' : containers'[c].name # n
  <1>1. containers' = [c \in DOMAIN containers \ D!Named(n) |-> containers[c]] /\ given' = given
    BY DEF D!Remove, D!Existing
  <1> QED BY <1>1 DEF Evolves, WellFormed, D!Named, D!Existing

(* The end of one creation.                                                *)
LEMMA CreatedRight ==
    ASSUME DockerInv, NEW r \in Request, NEW ok \in BOOLEAN, D!Created(r, ok),
           request[r].pc \in {"create", "start"},
           Evolves(containers, given, containers', given'),
           ok => /\ request[r].id \in given'
                 /\ \/ request[r].id \notin DOMAIN containers'
                    \/ containers'[request[r].id].status # "created"
    PROVE  DockerInv'
  <1> DEFINE q == request[r]
             q2 == request'[r]
  <1>1. DOMAIN q = Fields /\ Right(q, containers, given)
    BY DEF DockerInv
  <1>2. /\ OneRequest(r) /\ q2.before = q.before /\ q2.id = q.id /\ q2.op = q.op
        /\ q2.pc \in {"name", "answered"} /\ q2.failed = (~ok /\ q.op = "add")
    BY <1>1 DEF D!Created, DockerInv, OneRequest, Fields
  <1>3. q.before = {}
    BY <1>1 DEF Right
  <1> HIDE DEF q, q2
  <1>4. Right(q2, containers', given')
    BY <1>2, <1>3 DEF Right, q
  <1> QED BY <1>2, <1>4, RequestOnly DEF q2

(* The steps of a creation.                                                *)
LEMMA CreationOK ==
    ASSUME DockerInv, NEW r \in Request,
           \/ D!GenerateRandomName(r) \/ D!ContainerCreate(r)
           \/ D!ContainerCreateRefused(r) \/ D!ContainerStart(r)
    PROVE  DockerInv'
  <1> DEFINE q == request[r]
             q2 == request'[r]
  <1>1. /\ DOMAIN q = Fields /\ Right(q, containers, given) /\ WellFormed(containers, given)
        /\ Evolves(containers, given, containers, given)
    BY EvolvesRefl DEF DockerInv
  <1>2. CASE D!GenerateRandomName(r)
    <2>1. UNCHANGED <<containers, given>> /\ q.pc = "name"
      BY <1>2 DEF D!GenerateRandomName, D!At
    <2> PICK n \in Name : request' = [request EXCEPT ![r].pc = "create", ![r].todo = {n}]
      BY <1>2 DEF D!GenerateRandomName
    <2>2. OneRequest(r) /\ q2.before = q.before /\ q2.pc = "create"
      BY <1>1 DEF DockerInv, OneRequest, Fields
    <2>3. q.before = {}
      BY <1>1, <2>1 DEF Right
    <2> HIDE DEF q, q2
    <2>4. Right(q2, containers, given)
      BY <2>2, <2>3 DEF Right
    <2> QED BY <1>1, <2>1, <2>2, <2>4, RequestOnly DEF q2
  <1>3. CASE D!ContainerCreate(r)
    <2>1. PICK c \in Container :
             /\ D!Create(r, c)
             /\ request' = [request EXCEPT ![r].pc = "start", ![r].id = c]
      BY <1>3 DEF D!ContainerCreate
    <2>2. q.pc = "create" /\ c \in given'
      BY <2>1 DEF D!Create, D!At
    <2>3. Evolves(containers, given, containers', given')
      BY <1>1, <2>1, CreateEvolves
    <2>4. /\ OneRequest(r) /\ q2.before = q.before /\ q2.pc = "start" /\ q2.id = c
      BY <1>1, <2>1 DEF DockerInv, OneRequest, Fields
    <2>5. q.before = {}
      BY <1>1, <2>2 DEF Right
    <2> HIDE DEF q, q2
    <2>6. Right(q2, containers', given')
      BY <2>2, <2>4, <2>5 DEF Right
    <2> QED BY <2>3, <2>4, <2>6, RequestOnly DEF q2
  <1>4. CASE D!ContainerCreateRefused(r)
    BY <1>1, <1>4, CreatedRight DEF D!ContainerCreateRefused, D!At
  <1>5. CASE D!ContainerStart(r)
    <2>1. CASE D!Start(r) /\ D!Created(r, TRUE)
      <3>1. /\ q.pc = "start" /\ given' = given /\ q.id \in given /\ q.id \in DOMAIN containers
            /\ containers' = [containers EXCEPT ![q.id].status = "running"]
        BY <1>1, <2>1 DEF D!Start, D!At, Right, D!SetStatus, D!Existing
      <3>2. containers'[q.id].status = "running"
        BY <1>1, <3>1 DEF WellFormed
      <3>3. Evolves(containers, given, containers', given')
        BY <1>1, <2>1, StartEvolves
      <3> QED BY <2>1, <3>1, <3>2, <3>3, CreatedRight
    <2>2. CASE D!At(r, "start") /\ D!Created(r, FALSE) /\ UNCHANGED <<containers, given>>
      BY <1>1, <2>2, CreatedRight DEF D!At
    <2> QED BY <1>5, <2>1, <2>2 DEF D!ContainerStart
  <1> QED BY <1>2, <1>3, <1>4, <1>5
-----------------------------------------------------------------------------
(* One container of a removal is gone, or the daemon said no.              *)
LEMMA RemovedRight ==
    ASSUME DockerInv, NEW r \in Request, NEW n, NEW ok \in BOOLEAN, D!Removed(r, n, ok),
           request[r].pc = "remove",
           Evolves(containers, given, containers', given'),
           ok => \A c \in given \cap DOMAIN containers' : containers'[c].name # n
    PROVE  DockerInv'
  <1> DEFINE q == request[r]
             q2 == request'[r]
  <1>1. DOMAIN q = Fields /\ Right(q, containers, given)
    BY DEF DockerInv
  <1>2. /\ OneRequest(r) /\ q2.before = q.before /\ q2.id = q.id /\ q2.op = q.op
        /\ q2.pc = IF q.todo = {n} THEN "answered" ELSE "remove"
        /\ q2.todo = q.todo \ {n} /\ (~q2.failed => ~q.failed /\ ok)
    BY <1>1 DEF D!Removed, DockerInv, OneRequest, Fields
  <1>3. Right(q, containers', given')
    BY <1>1, RightStays
  <1>4. ~q2.failed => \A c \in q.before \cap DOMAIN containers' :
                          containers'[c].name \in q.todo \ {n}
    BY <1>1, <1>2, <1>3 DEF Right
  <1> HIDE DEF q, q2
  <1>5. Right(q2, containers', given')
    BY <1>2, <1>3, <1>4 DEF Right, q
  <1> QED BY <1>2, <1>5, RequestOnly DEF q2

(* The steps of a removal.                                                 *)
LEMMA RemovalOK ==
    ASSUME DockerInv, NEW r \in Request,
           \/ D!ContainerStop(r) \/ D!GetClientContainers(r)
           \/ \E n \in Name : D!ContainerRemove(r, n)
    PROVE  DockerInv'
  <1> DEFINE q == request[r]
             q2 == request'[r]
  <1>1. /\ DOMAIN q = Fields /\ Right(q, containers, given) /\ WellFormed(containers, given)
        /\ Evolves(containers, given, containers, given)
    BY EvolvesRefl DEF DockerInv
  <1>2. CASE D!ContainerStop(r)
    <2>1. /\ containers' = [c \in DOMAIN containers |->
                 IF containers[c].name \in q.todo /\ containers[c].status # "created"
                 THEN [containers[c] EXCEPT !.status = "exited"] ELSE containers[c]]
          /\ request' = [request EXCEPT ![r].pc = "remove"] /\ given' = given /\ q.pc = "stop"
      BY <1>2 DEF D!ContainerStop, D!At, D!Existing
    <2>2. Evolves(containers, given, containers', given')
      BY <1>1, <2>1 DEF Evolves, WellFormed
    <2>3. /\ OneRequest(r) /\ q2.before = q.before /\ q2.op = q.op /\ q2.pc = "remove"
          /\ q2.failed = q.failed /\ q2.todo = q.todo
      BY <1>1, <2>1 DEF DockerInv, OneRequest, Fields
    <2>4. Right(q, containers', given')
      BY <1>1, <2>2, RightStays
    <2> HIDE DEF q, q2
    <2>5. Right(q2, containers', given')
      BY <2>1, <2>3, <2>4 DEF Right
    <2> QED BY <2>2, <2>3, <2>5, RequestOnly DEF q2
  <1>3. CASE D!GetClientContainers(r)
    <2> DEFINE names == {containers[c].name : c \in DOMAIN containers}
    <2>1. /\ UNCHANGED <<containers, given>> /\ q.pc = "list"
          /\ request' = [request EXCEPT ![r].todo = names,
                             ![r].pc = IF names = {} THEN "answered" ELSE "remove"]
      BY <1>3 DEF D!GetClientContainers, D!At, D!Existing
    <2>2. /\ OneRequest(r) /\ q2.before = q.before /\ q2.op = q.op /\ q2.todo = names
          /\ q2.pc = IF names = {} THEN "answered" ELSE "remove"
      BY <1>1, <2>1 DEF DockerInv, OneRequest, Fields
    <2>3. /\ q.before \subseteq given /\ q.op # "add"
          /\ \A c \in q.before \cap DOMAIN containers : containers[c].name \in names
      BY <1>1, <2>1 DEF Right
    <2>4. names = {} => q.before \cap DOMAIN containers = {}
      BY <2>3
    <2> HIDE DEF q, q2, names
    <2>5. Right(q2, containers, given)
      BY <2>2, <2>3, <2>4 DEF Right
    <2> QED BY <1>1, <2>1, <2>2, <2>5, RequestOnly DEF q2
  <1>4. CASE \E n \in Name : D!ContainerRemove(r, n)
    <2>1. PICK n \in Name : D!ContainerRemove(r, n)
      BY <1>4
    <2>2. D!Remove(r, n) /\ D!Removed(r, n, TRUE) /\ q.pc = "remove"
      BY <2>1 DEF D!ContainerRemove, D!Remove, D!At
    <2> QED BY <1>1, <2>2, RemoveEvolves, RemovedRight
  <1> QED BY <1>2, <1>3, <1>4

(* Calls that fail change no container.                                    *)
LEMMA CallFailsOK ==
    ASSUME DockerInv, NEW r \in Request, D!CallFails(r)
    PROVE  DockerInv'
  <1> DEFINE q == request[r]
             q2 == request'[r]
  <1>1. /\ DOMAIN q = Fields /\ Right(q, containers, given)
        /\ UNCHANGED <<containers, given>> /\ Evolves(containers, given, containers, given)
    BY EvolvesRefl DEF DockerInv, D!CallFails
  <1>2. CASE (D!At(r, "create") \/ D!At(r, "start")) /\ D!Created(r, FALSE)
    BY <1>1, <1>2, CreatedRight DEF D!At
  <1>3. CASE D!At(r, "stop") /\ request' = [request EXCEPT ![r].pc = "remove"]
    <2>1. /\ OneRequest(r) /\ q2.before = q.before /\ q2.op = q.op /\ q2.pc = "remove"
          /\ q2.failed = q.failed /\ q2.todo = q.todo /\ q.pc = "stop"
      BY <1>1, <1>3 DEF DockerInv, OneRequest, Fields, D!At
    <2> HIDE DEF q, q2
    <2>2. Right(q2, containers, given)
      BY <1>1, <2>1 DEF Right
    <2> QED BY <1>1, <2>1, <2>2, RequestOnly DEF q2
  <1>4. CASE /\ D!At(r, "list")
             /\ request' = [request EXCEPT ![r].pc = "answered", ![r].failed = TRUE]
    <2>1. OneRequest(r) /\ q2.before = q.before /\ q2.pc = "answered" /\ q2.failed
      BY <1>1, <1>4 DEF DockerInv, OneRequest, Fields
    <2> HIDE DEF q, q2
    <2>2. Right(q2, containers, given)
      BY <1>1, <2>1 DEF Right
    <2> QED BY <1>1, <2>1, <2>2, RequestOnly DEF q2
  <1>5. CASE D!At(r, "remove") /\ \E n \in request[r].todo : D!Removed(r, n, FALSE)
    BY <1>1, <1>5, RemovedRight DEF D!At
  <1> QED BY <1>2, <1>3, <1>4, <1>5 DEF D!CallFails

(* Nor does an answer that is lost make a request believe anything.        *)
LEMMA AnswerLostOK ==
    ASSUME DockerInv, NEW r \in Request, D!AnswerLost(r)
    PROVE  DockerInv'
  <1>1. WellFormed(containers, given)
    BY DEF DockerInv
  <1>2. CASE (D!Start(r) \/ \E c \in Container : D!Create(r, c)) /\ D!Created(r, FALSE)
    <2>1. request[r].pc \in {"create", "start"}
      BY <1>2 DEF D!Start, D!Create, D!At
    <2>2. Evolves(containers, given, containers', given')
      BY <1>1, <1>2, StartEvolves, CreateEvolves
    <2> QED BY <1>2, <2>1, <2>2, CreatedRight
  <1>3. ASSUME NEW n \in Name, D!Remove(r, n) /\ D!Removed(r, n, FALSE)
        PROVE  DockerInv'
    <2>1. request[r].pc = "remove"
      BY <1>3 DEF D!Remove, D!At
    <2> QED BY <1>1, <1>3, <2>1, RemoveEvolves, RemovedRight
  <1> QED BY <1>2, <1>3 DEF D!AnswerLost

(* Every step of the requests and the daemon preserves the invariant.      *)
LEMMA DockerNext ==
    ASSUME DockerInv, D!Next \/ UNCHANGED docker
    PROVE  DockerInv'
  <1>1. CASE \E c \in Container : D!ProcessDies(c) \/ D!ProcessRestarts(c)
    <2>1. PICK c \in Container : D!ProcessDies(c) \/ D!ProcessRestarts(c)
      BY <1>1
    <2>2. PICK s \in {"crashed", "running"} :
             /\ containers' = [containers EXCEPT ![c].status = s]
             /\ UNCHANGED <<given, request>>
      BY <2>1 DEF D!ProcessDies, D!ProcessRestarts, D!SetStatus
    <2>3. WellFormed(containers, given) /\ s # "created"
      BY DEF DockerInv
    <2>4. Evolves(containers, given, [containers EXCEPT ![c].status = s], given)
      BY <2>3, SetStatusEvolves
    <2> QED BY <2>2, <2>4, DaemonOnly
  <1>2. CASE UNCHANGED docker
    BY <1>2, EvolvesRefl, DaemonOnly DEF docker, DockerInv
  <1> QED BY <1>1, <1>2, ArriveOK, CreationOK, RemovalOK, CallFailsOK, AnswerLostOK
          DEF D!Next, D!Environment, D!Step, D!RequestStep

(* An answer that is no error is true: the client asked for was started,   *)
(* and no container a removal was about when it came is left, whatever     *)
(* other requests did meanwhile, for any number of them.                   *)
THEOREM AnswersAlwaysTrue == Spec => []AnswersTrue
  <1>1. DockerInv => AnswersTrue
    BY DEF DockerInv, Right, AnswersTrue, D!AnswersTrue, D!At, D!Existing
  <1>2. Init => DockerInv
    BY DockerInit DEF Init
  <1>3. DockerInv /\ [Next]_vars => DockerInv'
    BY DockerNext DEF Next, D!Next, vars
  <1> QED BY <1>1, <1>2, <1>3, PTL DEF Spec
-----------------------------------------------------------------------------
(* The types of a client, and what they rest on.  A worker whose next      *)
(* attempt counts has one left, and a call is made by the worker or by the *)
(* page, and by one of them only.                                          *)
Processes == [connected : BOOLEAN, retryCount : 0 .. MaxRetries, maxRetries : 0 .. MaxRetries,
              page : {"idle", "calling"}, refresh : BOOLEAN,
              auto : {"asleep", "decided", "calling", "stopped"}]

Calls == [op : {"connect", "delete"}, at : {"sent", "served"}] \cup {C!NoCall}

MayRetry(p) == p.auto \in {"decided", "calling"} /\ p.maxRetries > 0 => p.retryCount < p.maxRetries

OneCaller(p, k, runs) ==
    IF k = C!NoCall THEN p.auto # "calling" /\ p.page # "calling"
    ELSE runs /\ (p.auto = "calling" <=> p.page # "calling")

ClientTyped(p, k, runs) ==
    p \in Processes /\ k \in Calls /\ MayRetry(p) /\ OneCaller(p, k, runs)

ClientsTyped ==
    /\ D!Running \subseteq Container
    /\ process \in [Container -> Processes] /\ call \in [Container -> Calls]
    /\ \A c \in Container : ClientTyped(process[c], call[c], c \in D!Running)

ServerTyped ==
    /\ late \subseteq Container \X {"connect", "delete"}
    /\ serverUp \in BOOLEAN
    /\ registered \subseteq Container /\ condemned \subseteq Container
    /\ file \subseteq Container /\ excused \subseteq Container
-----------------------------------------------------------------------------
(* A request that is sent, and the maximum of a process.                   *)
LEMMA SentCall ==
    ASSUME NEW k \in Calls, k.at = "sent"
    PROVE  k \in [op : {"connect", "delete"}, at : {"sent"}] /\ k # C!NoCall
  <1>1. k # C!NoCall
    BY NoCallOK
  <1> QED BY <1>1 DEF Calls

(* What a process keeps when it begins anew.                               *)
LEMMA MaxTyped ==
    ASSUME NEW p \in Processes
    PROVE  p.maxRetries \in 0 .. MaxRetries
  BY DEF Processes

(* A step of one client.                                                   *)
LEMMA ClientTypes ==
    ASSUME ClientsTyped, ServerTyped, NEW c \in Container, NEW p, NEW k,
           process' = [process EXCEPT ![c] = p], call' = [call EXCEPT ![c] = k],
           D!Running' \subseteq Container,
           \A d \in Container \ {c} : d \in D!Running' <=> d \in D!Running,
           ClientTyped(p, k, c \in D!Running')
    PROVE  ClientsTyped'
  <1>1. process' \in [Container -> Processes] /\ call' \in [Container -> Calls]
    BY DEF ClientsTyped, ClientTyped
  <1>2. ASSUME NEW d \in Container
        PROVE  ClientTyped(process'[d], call'[d], d \in D!Running')
    <2>1. CASE d = c
      BY <2>1 DEF ClientsTyped
    <2>2. CASE d # c
      <3>1. ClientTyped(process[d], call[d], d \in D!Running)
        BY DEF ClientsTyped
      <3>2. process'[d] = process[d] /\ call'[d] = call[d]
        BY <2>2 DEF ClientsTyped
      <3>3. (d \in D!Running') = (d \in D!Running)
        BY <2>2
      <3> QED BY <3>1, <3>2, <3>3 DEF ClientTyped, OneCaller
    <2> QED BY <2>1, <2>2
  <1> QED BY <1>1, <1>2 DEF ClientsTyped

(* A step that leaves the clients alone.                                   *)
LEMMA ClientsAlone ==
    ASSUME ClientsTyped, UNCHANGED <<process, call, D!Running>>
    PROVE  ClientsTyped'
  BY DEF ClientsTyped

(* A step that leaves the server alone.                                    *)
LEMMA ServerAlone ==
    ASSUME ServerTyped, UNCHANGED <<late, C!server>>
    PROVE  ServerTyped'
  BY DEF ServerTyped, C!server

(* A new process is typed, running or not.                                 *)
LEMMA NewProcessTyped ==
    ASSUME NEW c, NEW max \in 0 .. MaxRetries
    PROVE  /\ C!NewProcess(c, max) \in Processes
           /\ \A runs \in BOOLEAN : ClientTyped(C!NewProcess(c, max), C!NoCall, runs)
  <1>1. C!NewProcess(c, max) \in Processes
    BY BoundAssumption DEF C!NewProcess, Processes
  <1>2. C!NewProcess(c, max).auto \in {"asleep", "stopped"} /\ C!NewProcess(c, max).page = "idle"
    BY DEF C!NewProcess
  <1> QED BY <1>1, <1>2 DEF ClientTyped, Calls, MayRetry, OneCaller

(* The initial states are typed.                                           *)
LEMMA PeersTypesInit == C!Init => ClientsTyped /\ ServerTyped
  <1> SUFFICES ASSUME C!Init PROVE ClientsTyped /\ ServerTyped
    OBVIOUS
  <1>1. PICK max \in [AutoConnect -> 0 .. MaxRetries] :
               process = [c \in Container |->
                             C!NewProcess(c, IF c \in AutoConnect THEN max[c] ELSE 0)]
    BY DEF C!Init
  <1>2. ASSUME NEW c \in Container PROVE ClientTyped(process[c], call[c], c \in D!Running)
    <2>1. (IF c \in AutoConnect THEN max[c] ELSE 0) \in 0 .. MaxRetries
      BY <1>1, BoundAssumption
    <2>2. call[c] = C!NoCall
      BY DEF C!Init
    <2>3. (c \in D!Running) \in BOOLEAN
      OBVIOUS
    <2> QED BY <1>1, <2>1, <2>2, <2>3, NewProcessTyped
  <1>3. process \in [Container -> Processes] /\ call \in [Container -> Calls]
    BY <1>1, <1>2 DEF C!Init, ClientTyped
  <1> QED BY <1>2, <1>3 DEF C!Init, ClientsTyped, ServerTyped

(* The steps that decide something, or begin a call.                       *)
LEMMA DecideTypes ==
    ASSUME ClientsTyped, ServerTyped, NEW c \in Container,
           C!tryAutoConnect(c) \/ C!refreshHandler(c)
    PROVE  ClientsTyped' /\ ServerTyped'
  <1> DEFINE p == process[c]
  <1>1. ClientTyped(p, call[c], c \in D!Running) /\ call = [call EXCEPT ![c] = call[c]]
    BY DEF ClientsTyped
  <1>2. UNCHANGED <<late, C!server, D!Running>> /\ call' = [call EXCEPT ![c] = call[c]]
    BY <1>1 DEF C!tryAutoConnect, C!refreshHandler
  <1>3. CASE C!refreshHandler(c)
    <2> DEFINE q == [p EXCEPT !.refresh = TRUE]
    <2>1. process' = [process EXCEPT ![c] = q]
      BY <1>3, Zenon DEF C!refreshHandler
    <2>2. /\ q \in Processes /\ q.page = p.page /\ q.auto = p.auto
          /\ q.maxRetries = p.maxRetries /\ q.retryCount = p.retryCount
      BY <1>1 DEF ClientTyped, Processes
    <2> HIDE DEF q
    <2>3. ClientTyped(q, call[c], c \in D!Running')
      BY <1>1, <1>2, <2>1, <2>2 DEF ClientTyped, MayRetry, OneCaller
    <2> QED BY <1>2, <2>1, <2>3, ClientTypes, ServerAlone DEF ClientsTyped
  <1>4. CASE C!tryAutoConnect(c)
    <2> DEFINE Over == p.maxRetries > 0 /\ p.retryCount >= p.maxRetries
               q == IF p.connected THEN [p EXCEPT !.retryCount = 0]
                    ELSE IF Over THEN [p EXCEPT !.auto = "stopped"]
                    ELSE [p EXCEPT !.auto = "decided"]
    <2>1. /\ process' = [process EXCEPT ![c] = q]
          /\ p.auto = "asleep" /\ call[c] = C!NoCall
      BY <1>4, Zenon DEF C!tryAutoConnect, C!Free
    <2>2. p \in Processes
      BY <1>1 DEF ClientTyped
    <2>3. q \in Processes /\ q.page = p.page /\ q.auto \in {"asleep", "stopped", "decided"}
      BY <2>1, <2>2, BoundAssumption DEF Processes
    <2>4. MayRetry(q)
      BY <2>1, <2>2 DEF MayRetry, Processes
    <2> HIDE DEF q
    <2>5. ClientTyped(q, call[c], c \in D!Running')
      BY <1>1, <1>2, <2>1, <2>3, <2>4 DEF ClientTyped, OneCaller
    <2> QED BY <1>2, <2>1, <2>5, ClientTypes, ServerAlone DEF ClientsTyped
  <1> QED BY <1>3, <1>4

(* A call is begun by the one that had not one under way.                  *)
LEMMA CallTypes ==
    ASSUME ClientsTyped, ServerTyped, NEW c \in Container,
           \/ C!autoConnect(c) \/ C!connectHandler(c)
           \/ C!refreshConnect(c) \/ C!disconnectHandler(c)
    PROVE  ClientsTyped' /\ ServerTyped'
  <1> DEFINE p == process[c]
             byAuto == [p EXCEPT !.auto = "calling"]
             byPage == [p EXCEPT !.page = "calling"]
             byRefresh == [p EXCEPT !.refresh = FALSE, !.page = "calling"]
  <1>1. ClientTyped(p, C!NoCall, TRUE) /\ c \in D!Running /\ call[c] = C!NoCall
    BY DEF ClientsTyped, C!autoConnect, C!connectHandler, C!refreshConnect,
           C!disconnectHandler, C!Free
  <1>2. UNCHANGED <<late, C!server, D!Running>>
    BY DEF C!autoConnect, C!connectHandler, C!refreshConnect, C!disconnectHandler
  <1>3. PICK op \in {"connect", "delete"} : call' = [call EXCEPT ![c] = [op |-> op, at |-> "sent"]]
    BY DEF C!autoConnect, C!connectHandler, C!refreshConnect, C!disconnectHandler, C!Post
  <1> DEFINE k == [op |-> op, at |-> "sent"]
  <1>4. k \in Calls /\ k # C!NoCall
    BY DEF Calls, C!NoCall
  <1>5. \/ process' = [process EXCEPT ![c] = byAuto] /\ p.auto = "decided"
        \/ process' = [process EXCEPT ![c] = byPage]
        \/ process' = [process EXCEPT ![c] = byRefresh]
    BY DEF C!autoConnect, C!connectHandler, C!refreshConnect, C!disconnectHandler
  <1>6. /\ byAuto \in Processes /\ byAuto.auto = "calling" /\ byAuto.page = p.page
        /\ byAuto.maxRetries = p.maxRetries /\ byAuto.retryCount = p.retryCount
        /\ byPage \in Processes /\ byPage.page = "calling" /\ byPage.auto = p.auto
        /\ byPage.maxRetries = p.maxRetries /\ byPage.retryCount = p.retryCount
        /\ byRefresh \in Processes /\ byRefresh.page = "calling" /\ byRefresh.auto = p.auto
        /\ byRefresh.maxRetries = p.maxRetries /\ byRefresh.retryCount = p.retryCount
    BY <1>1 DEF ClientTyped, Processes
  <1> HIDE DEF byAuto, byPage, byRefresh, k
  <1>7. /\ p.auto = "decided" => ClientTyped(byAuto, k, TRUE)
        /\ ClientTyped(byPage, k, TRUE) /\ ClientTyped(byRefresh, k, TRUE)
    BY <1>1, <1>4, <1>6 DEF ClientTyped, MayRetry, OneCaller
  <1>8. call' = [call EXCEPT ![c] = k] /\ (c \in D!Running') = TRUE
    BY <1>1, <1>2, <1>3 DEF k
  <1> QED BY <1>2, <1>5, <1>7, <1>8, ClientTypes, ServerAlone DEF ClientsTyped
-----------------------------------------------------------------------------
(* The end of a call: only the attempt that was left has been counted.     *)
LEMMA FinishTypes ==
    ASSUME ClientsTyped, ServerTyped, NEW c \in Container, NEW ok \in BOOLEAN,
           C!Finish(c, ok), call[c] # C!NoCall, UNCHANGED D!Running
    PROVE  ClientsTyped'
  <1> DEFINE p == process[c]
             q == [p EXCEPT !.connected = C!ConnectedAfter(c, ok),
                            !.page = IF @ = "calling" THEN "idle" ELSE @,
                            !.auto = C!AutoAfter(c, ok),
                            !.retryCount = IF p.auto = "calling" THEN C!Retries(c, ok) ELSE @]
  <1>1. ClientTyped(p, call[c], c \in D!Running) /\ p \in Processes
    BY DEF ClientsTyped, ClientTyped
  <1>2. process' = [process EXCEPT ![c] = q] /\ call' = [call EXCEPT ![c] = C!NoCall]
    BY DEF C!Finish
  <1>3. C!ConnectedAfter(c, ok) \in BOOLEAN
    BY <1>1 DEF C!ConnectedAfter
  <1>4. p.auto = "calling" => C!Retries(c, ok) \in 0 .. MaxRetries
    BY <1>1, BoundAssumption DEF C!Retries, ClientTyped, MayRetry, Processes
  <1>5. /\ C!AutoAfter(c, ok) \in {"asleep", "decided", "stopped"}
        /\ C!AutoAfter(c, ok) = "decided" => p.auto = "decided"
    BY <1>1 DEF C!AutoAfter, Processes
  <1>6. /\ q \in Processes /\ q.page # "calling" /\ q.auto = C!AutoAfter(c, ok)
        /\ q.maxRetries = p.maxRetries
        /\ p.auto # "calling" => q.retryCount = p.retryCount
    BY <1>1, <1>3, <1>4, <1>5 DEF Processes
  <1> HIDE DEF q
  <1>7. ClientTyped(q, C!NoCall, c \in D!Running')
    BY <1>1, <1>5, <1>6 DEF ClientTyped, MayRetry, OneCaller, Calls
  <1> QED BY <1>2, <1>7, ClientTypes DEF ClientsTyped

(* Every end of a call.                                                    *)
LEMMA EndOfCallTypes ==
    ASSUME ClientsTyped, ServerTyped, NEW c \in Container,
           C!Answer(c) \/ C!Refused(c) \/ C!Break(c)
    PROVE  ClientsTyped' /\ ServerTyped'
  <1>1. CASE C!Answer(c)
    <2>1. C!Finish(c, TRUE) /\ UNCHANGED <<late, C!server, D!Running>> /\ call[c].at = "served"
      BY <1>1 DEF C!Answer
    <2>2. call[c] # C!NoCall
      BY <2>1 DEF C!NoCall
    <2> QED BY <2>1, <2>2, FinishTypes, ServerAlone
  <1>2. CASE C!Refused(c) \/ C!Break(c)
    <2>1. /\ C!Finish(c, FALSE) /\ C!ExcuseLostAnswer(c) /\ call[c] # C!NoCall
          /\ UNCHANGED <<serverUp, registered, condemned, file, D!Running>>
          /\ UNCHANGED late \/ (call[c].at = "sent" /\ late' = late \cup {<<c, call[c].op>>})
      BY <1>2 DEF C!Refused, C!Break, C!Abandon
    <2>2. call[c].op \in {"connect", "delete"}
      BY <2>1 DEF ClientsTyped, ClientTyped, Calls
    <2>3. ServerTyped'
      BY <2>1, <2>2 DEF ServerTyped, C!ExcuseLostAnswer
    <2> QED BY <2>1, <2>3, FinishTypes
  <1> QED BY <1>1, <1>2

(* A process that begins or ends.                                          *)
LEMMA LifecycleTypes ==
    ASSUME ClientsTyped, ServerTyped, C!Lifecycle
    PROVE  ClientsTyped' /\ ServerTyped'
  <1> PICK c \in Container : C!Begin(c) \/ C!End(c)
    BY DEF C!Lifecycle
  <1>1. ClientTyped(process[c], call[c], c \in D!Running)
    BY DEF ClientsTyped
  <1>2. CASE C!Begin(c)
    <2>1. /\ c \notin D!Running /\ D!Running' = D!Running \cup {c}
          /\ UNCHANGED <<late, C!server>>
          /\ process' = process /\ call' = call
      BY <1>2 DEF C!Begin
    <2>2. /\ process' = [process EXCEPT ![c] = process[c]]
          /\ call' = [call EXCEPT ![c] = call[c]]
      <3>1. process \in [Container -> Processes] /\ call \in [Container -> Calls]
        BY DEF ClientsTyped
      <3> QED BY <2>1, <3>1
    <2>3. ClientTyped(process[c], call[c], c \in D!Running')
      BY <1>1, <2>1 DEF ClientTyped, OneCaller
    <2> QED BY <2>1, <2>2, <2>3, ClientTypes, ServerAlone DEF ClientsTyped
  <1>3. CASE C!End(c)
    <2> DEFINE q == C!NewProcess(c, process[c].maxRetries)
    <2>1. /\ D!Running' = D!Running \ {c} /\ UNCHANGED C!server
          /\ process' = [process EXCEPT ![c] = q]
          /\ call' = [call EXCEPT ![c] = C!NoCall]
          /\ UNCHANGED late \/ (call[c].at = "sent" /\ late' = late \cup {<<c, call[c].op>>})
      BY <1>3 DEF C!End, C!Abandon
    <2>2. process[c].maxRetries \in 0 .. MaxRetries
      BY <1>1, MaxTyped DEF ClientTyped
    <2>3. ClientTyped(q, C!NoCall, c \in D!Running')
      <3>1. (c \in D!Running') \in BOOLEAN
        OBVIOUS
      <3> QED BY <2>2, <3>1, NewProcessTyped
    <2>4. call[c].at = "sent" => call[c].op \in {"connect", "delete"}
      BY <1>1 DEF ClientTyped, Calls, C!NoCall
    <2>5. ServerTyped'
      BY <2>1, <2>4 DEF ServerTyped, C!server
    <2> HIDE DEF q
    <2> QED BY <2>1, <2>3, <2>5, ClientTypes DEF ClientsTyped
  <1> QED BY <1>2, <1>3
-----------------------------------------------------------------------------
(* The steps of the server.                                                *)
LEMMA ServeTypes ==
    ASSUME ClientsTyped, ServerTyped, NEW c \in Container, C!Serve(c)
    PROVE  ClientsTyped' /\ ServerTyped'
  <1> DEFINE k == [op |-> call[c].op, at |-> "served"]
  <1>1. /\ ClientTyped(process[c], call[c], c \in D!Running) /\ call[c] \in Calls
        /\ process = [process EXCEPT ![c] = process[c]]
    BY DEF ClientsTyped
  <1>2. call[c].at = "sent" /\ UNCHANGED <<process, D!Running>>
    BY DEF C!Serve, C!Perform
  <1>3. call[c] \in [op : {"connect", "delete"}, at : {"sent"}]
    BY <1>1, <1>2, SentCall
  <1>4. call' = [call EXCEPT ![c] = k]
    <2>1. k = [call[c] EXCEPT !.at = "served"]
      BY <1>3
    <2> HIDE DEF k
    <2> QED BY <2>1, Zenon DEF C!Serve
  <1>5. k \in Calls /\ k # C!NoCall /\ call[c] # C!NoCall
    BY <1>3 DEF Calls, C!NoCall
  <1> HIDE DEF k
  <1>6. ClientTyped(process[c], k, c \in D!Running')
    BY <1>1, <1>2, <1>5 DEF ClientTyped, OneCaller
  <1>7. ServerTyped'
    BY DEF ServerTyped, C!Serve, C!Perform
  <1>8. process' = [process EXCEPT ![c] = process[c]]
    BY <1>1, <1>2
  <1> QED BY <1>2, <1>4, <1>6, <1>7, <1>8, ClientTypes DEF ClientsTyped

(* What the server does by itself, or for a request given up.              *)
LEMMA ServerTypes ==
    ASSUME ClientsTyped, ServerTyped,
           \/ \E c \in Container, op \in {"connect", "delete"} : C!ServeLate(c, op)
           \/ \E c \in Container : C!Judge(c) \/ C!CheckFails(c) \/ C!Unregister(c)
           \/ C!Persist \/ C!Exit \/ C!Start
    PROVE  ClientsTyped' /\ ServerTyped'
  <1>1. CASE \E c \in Container, op \in {"connect", "delete"} : C!ServeLate(c, op)
    <2> PICK c \in Container, op \in {"connect", "delete"} : C!ServeLate(c, op)
      BY <1>1
    <2>1. UNCHANGED <<process, call, D!Running>>
      BY DEF C!ServeLate, C!Perform
    <2>2. ServerTyped'
      BY DEF C!ServeLate, C!Perform, ServerTyped
    <2> QED BY <2>1, <2>2, ClientsAlone
  <1>2. CASE \E c \in Container : C!Judge(c) \/ C!CheckFails(c) \/ C!Unregister(c)
    <2> PICK c \in Container : C!Judge(c) \/ C!CheckFails(c) \/ C!Unregister(c)
      BY <1>2
    <2>1. UNCHANGED <<process, call, D!Running>>
      BY DEF C!Judge, C!CheckFails, C!Unregister
    <2>2. ServerTyped'
      BY DEF C!Judge, C!CheckFails, C!Unregister, ServerTyped
    <2> QED BY <2>1, <2>2, ClientsAlone
  <1>3. CASE C!Persist \/ C!Exit \/ C!Start
    <2>1. UNCHANGED <<process, call, D!Running>>
      BY <1>3 DEF C!Persist, C!Exit, C!Start
    <2>2. ServerTyped'
      BY <1>3 DEF C!Persist, C!Exit, C!Start, ServerTyped
    <2> QED BY <2>1, <2>2, ClientsAlone
  <1> QED BY <1>1, <1>2, <1>3

(* Every step of clients and server keeps the types.                       *)
LEMMA PeersTypesNext ==
    ASSUME ClientsTyped, ServerTyped, C!Next \/ UNCHANGED <<D!Running, peers>>
    PROVE  ClientsTyped' /\ ServerTyped'
  <1>1. CASE C!Environment
    BY <1>1, CallTypes, DecideTypes, EndOfCallTypes, ServerTypes DEF C!Environment
  <1>2. CASE C!Step
    BY <1>2, CallTypes, DecideTypes, EndOfCallTypes, ServeTypes, ServerTypes
       DEF C!Step, C!ClientStep
  <1>3. CASE UNCHANGED <<D!Running, peers>>
    BY <1>3, ClientsAlone, ServerAlone DEF peers, C!server
  <1> QED BY <1>1, <1>2, <1>3, LifecycleTypes DEF C!Next
-----------------------------------------------------------------------------
(* The types of the containers and the requests.                           *)
Statuses == {"created", "running", "crashed", "exited"}

Boxes == [name : Name, status : Statuses]

Asked == [pc : {"idle", "name", "create", "start", "stop", "list", "remove", "answered"},
          op : {"none", "add", "remove", "bulk", "removeAll"}, left : 0 .. MaxCount,
          todo : SUBSET Name, id : Container \cup {Nothing},
          failed : BOOLEAN, before : SUBSET Container]

(* A creation that has begun is one of those left to do.                   *)
OneLeft(q) == q.pc \in {"name", "create", "start"} => q.left > 0

BoxesTyped(m, g) ==
    /\ DOMAIN m \subseteq g /\ g \subseteq Container
    /\ m \in [DOMAIN m -> Boxes]

DockerTyped ==
    /\ BoxesTyped(containers, given)
    /\ request \in [Request -> Asked]
    /\ \A r \in Request : OneLeft(request[r])
-----------------------------------------------------------------------------
(* A step of one request, and of no container.                             *)
LEMMA OneAsked ==
    ASSUME DockerTyped, NEW r \in Request, NEW q \in Asked, OneLeft(q),
           request' = [request EXCEPT ![r] = q], BoxesTyped(containers', given')
    PROVE  DockerTyped'
  <1>1. request' \in [Request -> Asked]
    BY DEF DockerTyped
  <1>2. \A s \in Request : OneLeft(request'[s])
    BY DEF DockerTyped
  <1> QED BY <1>1, <1>2 DEF DockerTyped, BoxesTyped

(* A step of the daemon alone.                                             *)
LEMMA NoneAsked ==
    ASSUME DockerTyped, request' = request, BoxesTyped(containers', given')
    PROVE  DockerTyped'
  BY DEF DockerTyped, BoxesTyped

(* A request that is over.                                                 *)
LEMMA IdleTyped == D!Idle \in Asked /\ OneLeft(D!Idle)
  BY BoundAssumption DEF D!Idle, Asked, OneLeft

(* A container whose status changes.                                       *)
LEMMA StatusTypes ==
    ASSUME BoxesTyped(containers, given), NEW c, NEW s \in Statuses
    PROVE  BoxesTyped(D!SetStatus(c, s), given)
  BY DEF BoxesTyped, D!SetStatus, Boxes

(* A request that comes, and one that is over.                             *)
LEMMA ArriveTypes ==
    ASSUME DockerTyped, NEW r \in Request, D!Arrive(r) \/ D!Respond(r)
    PROVE  DockerTyped'
  <1>1. /\ UNCHANGED <<containers, given>> /\ BoxesTyped(containers', given')
        /\ \A n : D!Named(n) \subseteq Container
        /\ D!Existing \subseteq Container
    BY DEF D!Arrive, D!addClientHandler, D!removeClientHandler, D!bulkCreateClientsHandler,
           D!removeAllClientsHandler, D!Ask, D!Respond, DockerTyped, BoxesTyped, D!Named, D!Existing
  <1>2. D!Idle \in Asked
    BY IdleTyped
  <1>3. PICK q \in Asked : OneLeft(q) /\ request' = [request EXCEPT ![r] = q]
    <2>1. CASE D!Respond(r)
      BY <2>1, IdleTyped DEF D!Respond
    <2>2. CASE \E n \in Name : D!addClientHandler(r, n)
      <3> PICK n \in Name : D!addClientHandler(r, n)
        BY <2>2
      <3> DEFINE p == [D!Idle EXCEPT !.pc = "create", !.op = "add", !.left = 1, !.todo = {n}]
      <3>1. 1 \in 0 .. MaxCount /\ 1 > 0
        BY BoundAssumption
      <3>2. p \in Asked /\ OneLeft(p)
        <4>1. p \in Asked /\ p.left = 1
          BY <1>2, <3>1 DEF Asked
        <4> HIDE DEF p
        <4> QED BY <3>1, <4>1 DEF OneLeft
      <3>3. request' = [request EXCEPT ![r] = p]
        BY Zenon DEF D!addClientHandler, D!Ask
      <3> QED BY <3>2, <3>3
    <2>3. CASE \E n \in Name : D!removeClientHandler(r, n)
      <3> PICK n \in Name : D!removeClientHandler(r, n)
        BY <2>3
      <3> DEFINE p == [D!Idle EXCEPT !.pc = "stop", !.op = "remove", !.todo = {n},
                                     !.before = D!Named(n)]
      <3>1. p \in Asked /\ OneLeft(p)
        BY <1>1, <1>2, BoundAssumption DEF Asked, OneLeft
      <3>2. request' = [request EXCEPT ![r] = p]
        BY Zenon DEF D!removeClientHandler, D!Ask
      <3> QED BY <3>1, <3>2
    <2>4. CASE \E count \in 1 .. MaxCount : D!bulkCreateClientsHandler(r, count)
      <3> PICK count \in 1 .. MaxCount : D!bulkCreateClientsHandler(r, count)
        BY <2>4
      <3> DEFINE p == [D!Idle EXCEPT !.pc = "name", !.op = "bulk", !.left = count]
      <3>1. count \in 0 .. MaxCount /\ count > 0
        BY BoundAssumption
      <3>2. p \in Asked /\ OneLeft(p)
        <4>1. p \in Asked /\ p.left = count
          BY <1>2, <3>1 DEF Asked
        <4> HIDE DEF p
        <4> QED BY <3>1, <4>1 DEF OneLeft
      <3>3. request' = [request EXCEPT ![r] = p]
        BY Zenon DEF D!bulkCreateClientsHandler, D!Ask
      <3> QED BY <3>2, <3>3
    <2>5. CASE D!removeAllClientsHandler(r)
      <3> DEFINE p == [D!Idle EXCEPT !.pc = "list", !.op = "removeAll", !.before = D!Existing]
      <3>1. p \in Asked /\ OneLeft(p)
        BY <1>1, <1>2, BoundAssumption DEF Asked, OneLeft
      <3>2. request' = [request EXCEPT ![r] = p]
        BY <2>5, Zenon DEF D!removeAllClientsHandler, D!Ask
      <3> QED BY <3>1, <3>2
    <2> QED BY <2>1, <2>2, <2>3, <2>4, <2>5 DEF D!Arrive
  <1> QED BY <1>1, <1>3, OneAsked

(* What the daemon makes and takes away.                                   *)
LEMMA CreateTypes ==
    ASSUME DockerTyped, NEW r \in Request, NEW c, D!Create(r, c)
    PROVE  BoxesTyped(containers', given')
  <1>1. PICK n \in request[r].todo :
           containers' = D!With(containers, c, [name |-> n, status |-> "created"])
    BY DEF D!Create
  <1>2. c \in Container /\ given' = given \cup {c} /\ BoxesTyped(containers, given)
    BY DEF D!Create, DockerTyped
  <1>3. [name |-> n, status |-> "created"] \in Boxes
    BY <1>1 DEF DockerTyped, Asked, Boxes, Statuses
  <1> QED BY <1>1, <1>2, <1>3 DEF BoxesTyped, D!With

LEMMA RemoveTypes ==
    ASSUME DockerTyped, NEW r \in Request, NEW n, D!Remove(r, n)
    PROVE  BoxesTyped(containers', given')
  BY DEF DockerTyped, BoxesTyped, D!Remove, D!Existing

(* The end of a creation is one less to do.                                *)
LEMMA CreatedTypes ==
    ASSUME DockerTyped, NEW r \in Request, NEW ok \in BOOLEAN, D!Created(r, ok),
           request[r].pc \in {"create", "start"}, BoxesTyped(containers', given')
    PROVE  DockerTyped'
  <1> DEFINE q == request[r]
             p == [q EXCEPT !.left = @ - 1,
                            !.pc = IF q.left > 1 THEN "name" ELSE "answered",
                            !.failed = ~ok /\ q.op = "add"]
  <1>1. q \in Asked /\ q.left > 0
    BY DEF DockerTyped, OneLeft
  <1>2. /\ q.left - 1 \in 0 .. MaxCount /\ (q.left > 1 => q.left - 1 > 0)
        /\ (~ok /\ q.op = "add") \in BOOLEAN
    BY <1>1, BoundAssumption DEF Asked
  <1>3. p \in Asked
    BY <1>1, <1>2 DEF Asked
  <1>4. p.pc \in {"name", "create", "start"} => p.left > 0
    BY <1>1, <1>2 DEF Asked
  <1>5. request' = [request EXCEPT ![r] = p]
    BY DEF D!Created
  <1> HIDE DEF p
  <1> QED BY <1>3, <1>4, <1>5, OneAsked DEF OneLeft

(* The steps of a creation.                                                *)
LEMMA CreationTypes ==
    ASSUME DockerTyped, NEW r \in Request,
           \/ D!GenerateRandomName(r) \/ D!ContainerCreate(r)
           \/ D!ContainerCreateRefused(r) \/ D!ContainerStart(r)
    PROVE  DockerTyped'
  <1> DEFINE q == request[r]
  <1>1. q \in Asked /\ OneLeft(q) /\ BoxesTyped(containers, given)
    BY DEF DockerTyped
  <1>2. CASE D!GenerateRandomName(r)
    <2> PICK n \in Name : request' = [request EXCEPT ![r].pc = "create", ![r].todo = {n}]
      BY <1>2 DEF D!GenerateRandomName
    <2> DEFINE p == [q EXCEPT !.pc = "create", !.todo = {n}]
    <2>1. q.pc = "name" /\ UNCHANGED <<containers, given>>
      BY <1>2 DEF D!GenerateRandomName, D!At
    <2>2. p \in Asked /\ OneLeft(p)
      BY <1>1, <2>1 DEF Asked, OneLeft
    <2>3. request' = [request EXCEPT ![r] = p]
      OBVIOUS
    <2> HIDE DEF p
    <2> QED BY <1>1, <2>1, <2>2, <2>3, OneAsked
  <1>3. CASE D!ContainerCreate(r)
    <2>5. PICK c \in Container :
             /\ D!Create(r, c)
             /\ request' = [request EXCEPT ![r].pc = "start", ![r].id = c]
      BY <1>3 DEF D!ContainerCreate
    <2> DEFINE p == [q EXCEPT !.pc = "start", !.id = c]
    <2>1. q.pc = "create"
      BY <2>5 DEF D!Create, D!At
    <2>2. p \in Asked /\ OneLeft(p)
      BY <1>1, <2>1 DEF Asked, OneLeft
    <2>3. request' = [request EXCEPT ![r] = p]
      BY <2>5
    <2>4. BoxesTyped(containers', given')
      BY <2>5, CreateTypes
    <2> HIDE DEF p
    <2> QED BY <2>2, <2>3, <2>4, OneAsked
  <1>4. CASE D!ContainerCreateRefused(r)
    BY <1>1, <1>4, CreatedTypes DEF D!ContainerCreateRefused, D!At
  <1>5. CASE D!ContainerStart(r)
    <2>1. CASE D!Start(r) /\ D!Created(r, TRUE)
      <3>1. q.pc = "start" /\ BoxesTyped(containers', given')
        BY <1>1, <2>1, StatusTypes DEF D!Start, D!At, Statuses
      <3> QED BY <2>1, <3>1, CreatedTypes
    <2>2. CASE D!At(r, "start") /\ D!Created(r, FALSE) /\ UNCHANGED <<containers, given>>
      BY <1>1, <2>2, CreatedTypes DEF D!At
    <2> QED BY <1>5, <2>1, <2>2 DEF D!ContainerStart
  <1> QED BY <1>2, <1>3, <1>4, <1>5

(* One name less to remove.                                                *)
LEMMA RemovedTypes ==
    ASSUME DockerTyped, NEW r \in Request, NEW n, NEW ok \in BOOLEAN, D!Removed(r, n, ok),
           BoxesTyped(containers', given')
    PROVE  DockerTyped'
  <1> DEFINE q == request[r]
             p == [q EXCEPT !.todo = @ \ {n}, !.failed = @ \/ ~ok,
                            !.pc = IF q.todo = {n} THEN "answered" ELSE "remove"]
  <1>1. q \in Asked
    BY DEF DockerTyped
  <1>2. (q.failed \/ ~ok) \in BOOLEAN /\ q.todo \ {n} \in SUBSET Name
    BY <1>1 DEF Asked
  <1>3. p \in Asked /\ OneLeft(p)
    BY <1>1, <1>2 DEF Asked, OneLeft
  <1>4. request' = [request EXCEPT ![r] = p]
    BY DEF D!Removed
  <1> HIDE DEF p
  <1> QED BY <1>3, <1>4, OneAsked

(* The steps of a removal.                                                 *)
LEMMA RemovalTypes ==
    ASSUME DockerTyped, NEW r \in Request,
           \/ D!ContainerStop(r) \/ D!GetClientContainers(r)
           \/ \E n \in Name : D!ContainerRemove(r, n)
    PROVE  DockerTyped'
  <1> DEFINE q == request[r]
  <1>1. q \in Asked /\ BoxesTyped(containers, given)
    BY DEF DockerTyped
  <1>2. CASE D!ContainerStop(r)
    <2> DEFINE p == [q EXCEPT !.pc = "remove"]
    <2>1. /\ containers' = [c \in DOMAIN containers |->
                 IF containers[c].name \in q.todo /\ containers[c].status # "created"
                 THEN [containers[c] EXCEPT !.status = "exited"] ELSE containers[c]]
          /\ request' = [request EXCEPT ![r] = p] /\ given' = given
      BY <1>2 DEF D!ContainerStop, D!Existing
    <2>2. p \in Asked /\ OneLeft(p)
      BY <1>1 DEF Asked, OneLeft
    <2>3. ASSUME NEW c \in DOMAIN containers
          PROVE  containers[c] \in Boxes /\ [containers[c] EXCEPT !.status = "exited"] \in Boxes
      BY <1>1 DEF BoxesTyped, Boxes, Statuses
    <2> HIDE DEF p
    <2>4. BoxesTyped(containers', given')
      BY <1>1, <2>1, <2>3 DEF BoxesTyped
    <2> QED BY <2>1, <2>2, <2>4, OneAsked
  <1>3. CASE D!GetClientContainers(r)
    <2> DEFINE names == {containers[c].name : c \in DOMAIN containers}
               p == [q EXCEPT !.todo = names,
                              !.pc = IF names = {} THEN "answered" ELSE "remove"]
    <2>1. UNCHANGED <<containers, given>> /\ request' = [request EXCEPT ![r] = p]
      BY <1>3 DEF D!GetClientContainers, D!Existing
    <2>2. names \in SUBSET Name
      BY <1>1 DEF BoxesTyped, Boxes
    <2> HIDE DEF names
    <2>3. p \in Asked /\ OneLeft(p)
      BY <1>1, <2>2 DEF Asked, OneLeft
    <2> HIDE DEF p
    <2> QED BY <1>1, <2>1, <2>3, OneAsked
  <1>4. CASE \E n \in Name : D!ContainerRemove(r, n)
    <2> PICK n \in Name : D!ContainerRemove(r, n)
      BY <1>4
    <2>1. D!Remove(r, n) /\ D!Removed(r, n, TRUE)
      BY DEF D!ContainerRemove
    <2> QED BY <2>1, RemoveTypes, RemovedTypes
  <1> QED BY <1>2, <1>3, <1>4

(* Calls that fail.                                                        *)
LEMMA FailureTypes ==
    ASSUME DockerTyped, NEW r \in Request, D!CallFails(r)
    PROVE  DockerTyped'
  <1> DEFINE q == request[r]
  <1>1. /\ q \in Asked /\ UNCHANGED <<containers, given>>
        /\ BoxesTyped(containers', given')
    BY DEF DockerTyped, D!CallFails
  <1>2. CASE (D!At(r, "create") \/ D!At(r, "start")) /\ D!Created(r, FALSE)
    BY <1>1, <1>2, CreatedTypes DEF D!At
  <1>3. CASE request' = [request EXCEPT ![r].pc = "remove"]
    <2> DEFINE p == [q EXCEPT !.pc = "remove"]
    <2>1. p \in Asked /\ OneLeft(p)
      BY <1>1 DEF Asked, OneLeft
    <2>2. request' = [request EXCEPT ![r] = p]
      BY <1>3
    <2> HIDE DEF p
    <2> QED BY <1>1, <2>1, <2>2, OneAsked
  <1>4. CASE request' = [request EXCEPT ![r].pc = "answered", ![r].failed = TRUE]
    <2> DEFINE p == [q EXCEPT !.pc = "answered", !.failed = TRUE]
    <2>1. p \in Asked /\ OneLeft(p)
      BY <1>1 DEF Asked, OneLeft
    <2>2. request' = [request EXCEPT ![r] = p]
      BY <1>4
    <2> HIDE DEF p
    <2> QED BY <1>1, <2>1, <2>2, OneAsked
  <1>5. CASE \E n \in request[r].todo : D!Removed(r, n, FALSE)
    BY <1>1, <1>5, RemovedTypes
  <1> QED BY <1>2, <1>3, <1>4, <1>5 DEF D!CallFails

(* Answers that are lost.                                                  *)
LEMMA LossTypes ==
    ASSUME DockerTyped, NEW r \in Request, D!AnswerLost(r)
    PROVE  DockerTyped'
  <1>1. CASE (D!Start(r) \/ \E c \in Container : D!Create(r, c)) /\ D!Created(r, FALSE)
    <2>1. request[r].pc \in {"create", "start"}
      BY <1>1 DEF D!Start, D!Create, D!At
    <2>2. D!Start(r) => BoxesTyped(containers', given')
      BY StatusTypes DEF DockerTyped, D!Start, Statuses
    <2> QED BY <1>1, <2>1, <2>2, CreateTypes, CreatedTypes
  <1>2. ASSUME NEW n \in Name, D!Remove(r, n) /\ D!Removed(r, n, FALSE)
        PROVE  DockerTyped'
    BY <1>2, RemoveTypes, RemovedTypes
  <1> QED BY <1>1, <1>2 DEF D!AnswerLost

(* Every step of the requests and the daemon keeps the types.              *)
LEMMA DockerTypesNext ==
    ASSUME DockerTyped, D!Next \/ UNCHANGED docker
    PROVE  DockerTyped'
  <1>1. CASE \E c \in Container : D!ProcessDies(c) \/ D!ProcessRestarts(c)
    <2>1. PICK c \in Container : D!ProcessDies(c) \/ D!ProcessRestarts(c)
      BY <1>1
    <2>2. PICK s \in Statuses : containers' = D!SetStatus(c, s) /\ UNCHANGED <<given, request>>
      BY <2>1 DEF D!ProcessDies, D!ProcessRestarts, Statuses
    <2>3. BoxesTyped(containers', given')
      BY <2>2, StatusTypes DEF DockerTyped
    <2> QED BY <2>2, <2>3, NoneAsked
  <1>2. CASE UNCHANGED docker
    BY <1>2, NoneAsked DEF docker, DockerTyped
  <1> QED BY <1>1, <1>2, ArriveTypes, CreationTypes, RemovalTypes, FailureTypes, LossTypes
          DEF D!Next, D!Environment, D!Step, D!RequestStep

(* The initial states are typed.                                           *)
LEMMA DockerTypesInit == D!Init => DockerTyped
  <1> SUFFICES ASSUME D!Init PROVE DockerTyped
    OBVIOUS
  <1>1. [name |-> ComposeName, status |-> "running"] \in Boxes
    BY ComposeAssumption DEF Boxes, Statuses
  <1>2. BoxesTyped(containers, given)
    BY <1>1, ComposeAssumption DEF D!Init, BoxesTyped
  <1> QED BY <1>2, IdleTyped DEF D!Init, DockerTyped
-----------------------------------------------------------------------------
(* The invariant gives the types that the model states.                    *)
TypesInv == DockerTyped /\ ClientsTyped /\ ServerTyped /\ events \in 0 .. MaxEvents

(* With the bounds and names of the two modules.                           *)
LEMMA TypesInvOK == TypesInv => TypeOK
  <1> SUFFICES ASSUME TypesInv PROVE TypeOK
    OBVIOUS
  <1>1. D!TypeOK
    <2>1. BoxesTyped(containers, given)
      BY DEF TypesInv, DockerTyped
    <2>2. containers \in D!PartialMaps(Container, Boxes)
      BY <2>1 DEF BoxesTyped, D!PartialMaps
    <2>3. D!Existing \subseteq given /\ given \subseteq Container
      BY <2>1 DEF BoxesTyped, D!Existing
    <2> QED BY <2>2, <2>3 DEF D!TypeOK, TypesInv, DockerTyped, Asked, Boxes, Statuses
  <1>2. C!TypeOK
    <2>1. ASSUME NEW c \in Container
          PROVE  /\ process[c] \in Processes /\ call[c] \in Calls
                 /\ call[c] # C!NoCall => c \in D!Running /\ (process[c].auto = "calling"
                                                              <=> process[c].page # "calling")
      BY DEF TypesInv, ClientsTyped, ClientTyped, OneCaller
    <2> QED BY <2>1 DEF C!TypeOK, TypesInv, ClientsTyped, ServerTyped, Processes, Calls
  <1> QED BY <1>1, <1>2 DEF TypeOK, TypesInv

(* A counted attempt is one that was left, a call is the worker's or the   *)
(* page's and of a process that runs, and a creation one of those asked    *)
(* for: so every count stays within its bounds and every field in its      *)
(* type, for any number of containers, requests and faults.                *)
THEOREM TypeCorrect == Spec => []TypeOK
  <1>1. Init => TypesInv
    BY DockerTypesInit, PeersTypesInit, BoundAssumption DEF Init, TypesInv
  <1>2. TypesInv /\ [Next]_vars => TypesInv'
    <2> SUFFICES ASSUME TypesInv, [Next]_vars PROVE TypesInv'
      OBVIOUS
    <2>1. DockerTyped'
      BY DockerTypesNext DEF TypesInv, Next, D!Next, vars
    <2>2. ClientsTyped' /\ ServerTyped'
      BY PeersTypesNext, NextIsConnection DEF TypesInv
    <2>3. events' \in 0 .. MaxEvents
      BY BoundAssumption DEF TypesInv, Next, Happens, vars
    <2> QED BY <2>1, <2>2, <2>3 DEF TypesInv
  <1> QED BY <1>1, <1>2, TypesInvOK, PTL DEF Spec
-----------------------------------------------------------------------------
(* The deployed system implements each of its parts: what its clients and  *)
(* the server do is what Connection allows if processes begin and end at   *)
(* any time,                                                               *)
THEOREM ImplementsConnection == Spec => C!Spec
  <1>1. Init => C!Init
    BY DEF Init
  <1>2. [Next]_vars => [C!Next]_C!vars
    BY NextIsConnection DEF C!vars, peers
  <1> QED BY <1>1, <1>2, PTL DEF Spec, C!Spec

(* and what happens to containers and requests is what Containers allows,  *)
(* however the connections go on meanwhile.                                *)
THEOREM ImplementsContainers == Spec => D!Spec
  <1>1. Init => D!Init
    BY DEF Init
  <1>2. [Next]_vars => [D!Next]_D!vars
    BY DEF Next, D!Next, vars, docker, D!vars
  <1> QED BY <1>1, <1>2, PTL DEF Spec, D!Spec
-----------------------------------------------------------------------------
(* Every step of the connections is one of the server's registry, or does  *)
(* not concern it.                                                         *)
LEMMA StepIsRegistry ==
    ASSUME ClientsTyped, D!Running' \subseteq Container,
           C!Next \/ UNCHANGED <<D!Running, peers>>
    PROVE  R!Next
  <1> (D!Running \ condemned)' \subseteq Container
    OBVIOUS
  <1>1. CASE UNCHANGED <<serverUp, registered, condemned, file>>
    BY <1>1 DEF R!Next, R!registry
  <1>2. CASE \E c \in Container : C!Serve(c) \/ \E op \in {"connect", "delete"} : C!ServeLate(c, op)
    <2>1. PICK c \in Container :
             \E op : op \in {"connect", "delete"} /\ c \in Asking(op) /\ C!Perform(c, op)
      <3>1. ASSUME NEW c \in Container, C!Serve(c)
            PROVE  /\ call[c].op \in {"connect", "delete"} /\ c \in Asking(call[c].op)
                   /\ C!Perform(c, call[c].op)
        <4>1. call[c] \in Calls /\ call[c].at = "sent"
          BY <3>1 DEF ClientsTyped, C!Serve
        <4>2. call[c] = [op |-> call[c].op, at |-> "sent"] /\ call[c].op \in {"connect", "delete"}
          BY <4>1, NoCallOK DEF Calls
        <4> QED BY <3>1, <4>2 DEF C!Serve, Asking
      <3>2. ASSUME NEW c \in Container, NEW op \in {"connect", "delete"}, C!ServeLate(c, op)
            PROVE  c \in Asking(op) /\ C!Perform(c, op)
        BY <3>2 DEF C!ServeLate, Asking
      <3> QED BY <1>2, <3>1, <3>2
    <2>2. PICK op \in {"connect", "delete"} : c \in Asking(op) /\ C!Perform(c, op)
      BY <2>1
    <2>3. CASE op = "connect"
      <3>1. R!Add(c)
        BY <2>2, <2>3 DEF C!Perform, R!Add
      <3> QED BY <3>1 DEF R!Next
    <2>4. CASE op = "delete"
      <3>1. R!Remove({c})
        BY <2>2, <2>4 DEF C!Perform, R!Remove
      <3> QED BY <3>1 DEF R!Next
    <2> QED BY <2>3, <2>4
  <1>3. CASE \E c \in Container : C!Judge(c) \/ C!CheckFails(c)
    <2>1. PICK c \in Container : C!Judge(c) \/ C!CheckFails(c)
      BY <1>3
    <2>2. serverUp /\ condemned' = condemned \cup {c} /\ UNCHANGED <<serverUp, registered, file>>
      BY <2>1 DEF C!Judge, C!CheckFails
    <2>3. R!GiveUp(c)
      BY <2>2 DEF R!GiveUp
    <2> QED BY <2>3 DEF R!Next
  <1>4. CASE \E c \in Container : C!Unregister(c)
    <2>1. PICK c \in Container : C!Unregister(c)
      BY <1>4
    <2>2. R!Expel(c)
      BY <2>1 DEF C!Unregister, R!Expel
    <2> QED BY <2>2 DEF R!Next
  <1>5. CASE C!Persist \/ C!Exit \/ C!Start
    <2>1. R!Save \/ R!Exit \/ R!Start
      BY <1>5 DEF C!Persist, C!Exit, C!Start, R!Save, R!Exit, R!Start
    <2> QED BY <2>1 DEF R!Next
  <1>6. CASE \E c \in Container :
                \/ C!connectHandler(c) \/ C!refreshHandler(c) \/ C!disconnectHandler(c)
                \/ C!tryAutoConnect(c) \/ C!autoConnect(c) \/ C!refreshConnect(c)
                \/ C!Answer(c) \/ C!Refused(c) \/ C!Break(c) \/ C!Begin(c) \/ C!End(c)
    BY <1>1, <1>6 DEF C!connectHandler, C!refreshHandler, C!disconnectHandler, C!tryAutoConnect,
                      C!autoConnect, C!refreshConnect, C!Answer, C!Refused, C!Break, C!Begin,
                      C!End, C!server
  <1>7. CASE UNCHANGED <<D!Running, peers>>
    BY <1>1, <1>7 DEF peers
  <1> QED BY <1>2, <1>3, <1>4, <1>5, <1>6, <1>7 DEF C!Next, C!Environment, C!Lifecycle, C!Step,
                                                  C!ClientStep

(* The server keeps a registry as the client manager promises it: its own  *)
(* requests, checks and exits alone decide who is in it, not the fate of a *)
(* client's process or call, and a restart brings back what was saved.     *)
THEOREM ServerKeepsRegistry == Spec => ServerIsRegistry
  <1> DEFINE PInv == ClientsTyped /\ ServerTyped
  <1>1. Init => R!Init /\ PInv
    <2> SUFFICES ASSUME Init PROVE R!Init /\ PInv
      OBVIOUS
    <2>1. PInv
      BY PeersTypesInit DEF Init
    <2>2. \A op : Asking(op) = {}
      BY NoCallOK DEF Init, C!Init, Asking
    <2> QED BY <2>1, <2>2 DEF Init, C!Init, R!Init, ClientsTyped
  <1>2. PInv /\ [Next]_vars => PInv'
    BY PeersTypesNext, NextIsConnection
  <1>3. PInv /\ PInv' /\ [Next]_vars => [R!Next]_(R!vars)
    BY StepIsRegistry, NextIsConnection DEF ClientsTyped
  <1> QED BY <1>1, <1>2, <1>3, PTL DEF Spec, ServerIsRegistry, R!Spec
=============================================================================
