----------------------------- MODULE Connection -----------------------------
(***************************************************************************)
(* The connection of the clients with the bootstrap server: connect,       *)
(* disconnect, refresh and the auto-connect worker of client/main.go, the  *)
(* handlers connect and delete of bootstrap/main.go, and its registry over *)
(* exits and restarts.                                                     *)
(*                                                                         *)
(* A client holds c.mutex from before an HTTP call until it has dealt with *)
(* the answer, so it has one call at a time.  The registry is the hash map *)
(* of the server's client manager and its file; ClientManager and          *)
(* HashMapPersistence have the details.  What connect and disconnect do to *)
(* the client's own client manager is in QueryQueue.                       *)
(***************************************************************************)
EXTENDS Integers

CONSTANTS Client,       \* container IDs
          AutoConnect,  \* the clients with AUTO_CONNECT (the default)
          MaxRetries    \* bound: MAX_RETRIES of a client, where 0 is for ever

VARIABLES running,      \* the clients whose process is running
          process,      \* for each client: its fields, its worker, its page
          call,         \* for each client: the HTTP call it waits for
          late,         \* requests given up by the client, still under way
          serverUp,     \* the bootstrap server is running
          registered,   \* the keys of its clientManager.hashMap
          condemned,    \* clients that a health check is about to remove
          file,         \* the IDs in the file of the registry
          excused       \* history: registrations ended by other than their client

vars == <<running, process, call, late, serverUp, registered, condemned, file, excused>>

server == <<serverUp, registered, condemned, file, excused>>

(* auto is the auto-connect worker, page an HTTP request of the dashboard, *)
(* refresh says that one of refreshHandler is about to connect.            *)
NewProcess(c, max) ==
    [connected |-> FALSE, retryCount |-> 0, maxRetries |-> max, page |-> "idle",
     refresh |-> FALSE,
     auto |-> IF c \in AutoConnect THEN "asleep" ELSE "stopped"]

NoCall == [op |-> "none", at |-> "none"]

Init == /\ running \in SUBSET Client
        /\ \E max \in [AutoConnect -> 0 .. MaxRetries] :
               process = [c \in Client |->
                             NewProcess(c, IF c \in AutoConnect THEN max[c] ELSE 0)]
        /\ call = [c \in Client |-> NoCall]
        /\ late = {}
        /\ serverUp = TRUE
        /\ registered = {} /\ condemned = {} /\ file = {} /\ excused = {}

(* A wrong lock: a second call may begin before the first has ended.       *)
NoLock(c) == c \in running

(* c.mutex is free.                                                        *)
Free(c) == c \in running /\ call[c] = NoCall

Post(c, op) == call' = [call EXCEPT ![c] = [op |-> op, at |-> "sent"]]
-----------------------------------------------------------------------------
(* tryAutoConnect, to its decision; the lock is given back before connect  *)
(* takes it.                                                               *)
tryAutoConnect(c) ==
    /\ process[c].auto = "asleep" /\ Free(c)
    /\ LET p == process[c] IN
        process' = [process EXCEPT ![c] =
            IF p.connected THEN [p EXCEPT !.retryCount = 0]
            ELSE IF p.maxRetries > 0 /\ p.retryCount >= p.maxRetries
            THEN [p EXCEPT !.auto = "stopped"]
            ELSE [p EXCEPT !.auto = "decided"]]
    /\ UNCHANGED <<running, call, late, server>>

autoConnect(c) ==
    /\ process[c].auto = "decided" /\ Free(c)
    /\ process' = [process EXCEPT ![c].auto = "calling"]
    /\ Post(c, "connect")
    /\ UNCHANGED <<running, late, server>>

(* The dashboard's buttons.  refreshHandler looks at connected first, and  *)
(* without the lock, so another tab may disconnect before it connects;     *)
(* disconnect has nothing to do if it is not connected.                    *)
connectHandler(c) ==
    /\ process[c].page = "idle" /\ Free(c)
    /\ process' = [process EXCEPT ![c].page = "calling"]
    /\ Post(c, "connect")
    /\ UNCHANGED <<running, late, server>>

refreshHandler(c) ==
    /\ c \in running /\ process[c].connected
    /\ process' = [process EXCEPT ![c].refresh = TRUE]
    /\ UNCHANGED <<running, call, late, server>>

refreshConnect(c) ==
    /\ process[c].refresh /\ process[c].page = "idle" /\ Free(c)
    /\ process' = [process EXCEPT ![c].refresh = FALSE, ![c].page = "calling"]
    /\ Post(c, "connect")
    /\ UNCHANGED <<running, late, server>>

disconnectHandler(c) ==
    /\ process[c].page = "idle" /\ process[c].connected /\ Free(c)
    /\ process' = [process EXCEPT ![c].page = "calling"]
    /\ Post(c, "delete")
    /\ UNCHANGED <<running, late, server>>
-----------------------------------------------------------------------------
(* The end of the call: what connect, disconnect and tryAutoConnect leave. *)
(* A counter without a maximum is never looked at and stays 0 here.        *)
Retries(c, ok) == IF ok \/ process[c].maxRetries = 0 THEN 0 ELSE process[c].retryCount + 1

(* A wrong outcome: an error of connect is taken for success.              *)
ConnectedUnchecked(c, ok) == call[c].op = "connect"

ConnectedAfter(c, ok) == IF call[c].op = "connect" THEN ok ELSE ~ok

(* A wrong outcome: the auto-connect worker gives up after an error.       *)
AutoStops(c, ok) == IF process[c].auto # "calling" THEN process[c].auto
                    ELSE IF ok THEN "asleep" ELSE "stopped"

AutoAfter(c, ok) == IF process[c].auto = "calling" THEN "asleep" ELSE process[c].auto

Finish(c, ok) ==
    /\ call' = [call EXCEPT ![c] = NoCall]
    /\ process' = [process EXCEPT
           ![c].connected = ConnectedAfter(c, ok),
           ![c].page = IF @ = "calling" THEN "idle" ELSE @,
           ![c].auto = AutoAfter(c, ok),
           ![c].retryCount = IF process[c].auto = "calling" THEN Retries(c, ok) ELSE @]

Answer(c) == /\ call[c].at = "served"
             /\ Finish(c, TRUE)
             /\ UNCHANGED <<running, late, server>>

(* disconnect failed after the deletion: the client stays connected.       *)
ExcuseLostAnswer(c) ==
    excused' = IF call[c] = [op |-> "delete", at |-> "served"] THEN excused \cup {c} ELSE excused

Refused(c) == /\ call[c] # NoCall /\ ~serverUp
              /\ Finish(c, FALSE)
              /\ ExcuseLostAnswer(c)
              /\ UNCHANGED <<running, late, serverUp, registered, condemned, file>>

(* The request may be lost, or still arrive.                               *)
Abandon(c) == \/ UNCHANGED late
              \/ call[c].at = "sent" /\ late' = late \cup {<<c, call[c].op>>}

Break(c) == /\ call[c] # NoCall /\ serverUp
            /\ Finish(c, FALSE)
            /\ Abandon(c)
            /\ ExcuseLostAnswer(c)
            /\ UNCHANGED <<running, serverUp, registered, condemned, file>>
-----------------------------------------------------------------------------
(* A process begins with nothing; it may end in the middle of a call.      *)
Begin(c) == /\ c \notin running
            /\ running' = running \cup {c}
            /\ UNCHANGED <<process, call, late, server>>

End(c) == /\ c \in running
          /\ running' = running \ {c}
          /\ process' = [process EXCEPT ![c] = NewProcess(c, @.maxRetries)]
          /\ call' = [call EXCEPT ![c] = NoCall]
          /\ Abandon(c)
          /\ UNCHANGED server
-----------------------------------------------------------------------------
(* The server's handlers: AddClient and RemoveClient of the registry.      *)
Perform(c, op) ==
    /\ serverUp
    /\ registered' = IF op = "connect" THEN registered \cup {c} ELSE registered \ {c}
    /\ UNCHANGED <<running, process, serverUp, condemned, file>>

Serve(c) ==
    /\ call[c].at = "sent"
    /\ Perform(c, call[c].op)
    /\ call' = [call EXCEPT ![c].at = "served"]
    /\ excused' = excused \ {c}
    /\ UNCHANGED late

ServeLate(c, op) ==
    /\ <<c, op>> \in late
    /\ Perform(c, op)
    /\ late' = late \ {<<c, op>>}
    /\ excused' = IF op = "connect" THEN excused \ {c} ELSE excused \cup {c}
    /\ UNCHANGED call

(* A health check gets no answer, and later removes the client.            *)
Judge(c) == /\ serverUp /\ c \in registered \ running
            /\ condemned' = condemned \cup {c}
            /\ UNCHANGED <<running, process, call, late, serverUp, registered, file, excused>>

(* The answer of a living client comes too late, or not.                   *)
CheckFails(c) == /\ serverUp /\ c \in registered \cap running
                 /\ condemned' = condemned \cup {c}
                 /\ UNCHANGED <<running, process, call, late, serverUp, registered, file, excused>>

(* A wrong verdict: the client is only taken from the list of live ones.   *)
UnlistOnly(c) == /\ c \in condemned
                 /\ condemned' = condemned \ {c}
                 /\ UNCHANGED <<running, process, call, late, serverUp, registered, file, excused>>

Unregister(c) == /\ c \in condemned
                 /\ condemned' = condemned \ {c}
                 /\ registered' = registered \ {c}
                 /\ excused' = excused \cup {c}
                 /\ UNCHANGED <<running, process, call, late, serverUp, file>>

(* Every 30 s, if something has changed.                                   *)
Persist == /\ serverUp
           /\ file' = registered
           /\ UNCHANGED <<running, process, call, late, serverUp, registered, condemned, excused>>

(* main ends by log.Fatalf or a signal: the deferred Close does not run,   *)
(* and what was registered since the last write is lost.                   *)
Exit == /\ serverUp
        /\ serverUp' = FALSE
        /\ registered' = {} /\ condemned' = {} /\ late' = {}
        /\ excused' = excused \cup (registered \ file)
        /\ UNCHANGED <<running, process, call, file>>

(* A wrong Start: the new process saves its map before it has one.         *)
StartOverwrites == /\ ~serverUp
                   /\ serverUp' = TRUE
                   /\ file' = {}
                   /\ UNCHANGED <<running, process, call, late, registered, condemned, excused>>

Start == /\ ~serverUp
         /\ serverUp' = TRUE
         /\ registered' = file
         /\ UNCHANGED <<running, process, call, late, condemned, file, excused>>
-----------------------------------------------------------------------------
(* What comes from outside, what the processes do, and the goroutines that *)
(* get on.  The end of a call is assumed, as http.Post has no timeout.     *)
Environment ==
    \/ \E c \in Client : \/ connectHandler(c) \/ refreshHandler(c) \/ disconnectHandler(c)
                         \/ Break(c) \/ CheckFails(c)
    \/ Exit

Lifecycle == \E c \in Client : Begin(c) \/ End(c)

ClientStep(c) ==
    \/ tryAutoConnect(c) \/ autoConnect(c) \/ refreshConnect(c)
    \/ Answer(c) \/ Refused(c) \/ Serve(c)
    \/ Judge(c) \/ Unregister(c)
    \/ \E op \in {"connect", "delete"} : ServeLate(c, op)

Step == \/ \E c \in Client : ClientStep(c)
        \/ Persist \/ Start

Next == Environment \/ Lifecycle \/ Step

Spec == Init /\ [][Next]_vars
-----------------------------------------------------------------------------
TypeOK ==
    /\ running \subseteq Client
    /\ \A c \in Client :
        /\ process[c] \in [connected : BOOLEAN,
                           retryCount : 0 .. MaxRetries, maxRetries : 0 .. MaxRetries,
                           page : {"idle", "calling"}, refresh : BOOLEAN,
                           auto : {"asleep", "decided", "calling", "stopped"}]
        /\ call[c] \in [op : {"connect", "delete"}, at : {"sent", "served"}] \cup {NoCall}
        /\ call[c] # NoCall => c \in running /\ (process[c].auto = "calling"
                                                 <=> process[c].page # "calling")
    /\ late \subseteq Client \X {"connect", "delete"}
    /\ serverUp \in BOOLEAN
    /\ registered \subseteq Client /\ condemned \subseteq Client
    /\ file \subseteq Client /\ excused \subseteq Client

(* While the server is up, a client that says it is connected is           *)
(* registered, unless a health check removed it, the server exited within  *)
(* 30 s of the registration, or a disconnect broke off halfway.            *)
ConnectedIsRegistered ==
    \A c \in running : serverUp /\ process[c].connected =>
        c \in registered \cup excused \/ call[c] = [op |-> "delete", at |-> "served"]
=============================================================================
