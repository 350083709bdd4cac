------------------------------- MODULE Gossip -------------------------------
(***************************************************************************)
(* How clients get to know each other: the bootstrap server names some of  *)
(* the registered clients to one that connects, and each client's          *)
(* expandContacts exchanges contacts with the clients it knows, all at the *)
(* same time.                                                              *)
(*                                                                         *)
(* One client's callbacks and queue are module QueryQueue, the choice of a *)
(* random subset is RandomSubset.  Here an entry is registered or not, and *)
(* every client's process runs and answers, for src/README.md speaks of    *)
(* the peers in the network.                                               *)
(***************************************************************************)
EXTENDS FiniteSets, FiniteSetsExt, Integers

CONSTANTS Client,       \* the clients of the network
          Nobody,       \* no client
          SubsetSize,   \* the most contacts a random subset has
          MaxFailures   \* bound: how often something fails or is disconnected

ASSUME SizeAssumption == SubsetSize \in Nat \ {0} /\ MaxFailures \in Nat

VARIABLES registered,   \* the clients registered at the bootstrap server
          connected,    \* the clients that say they are connected
          knows,        \* for each client: the contacts in its client manager
          query,        \* for each client: what its expandContacts is doing
          failures      \* failures and disconnections so far

vars == <<registered, connected, knows, query, failures>>

(* peer: who is asked; contacts: what the request or its answer carries.   *)
Idle == [pc |-> "idle", peer |-> Nobody, contacts |-> {}]

Init == /\ registered = {} /\ connected = {}
        /\ knows = [c \in Client |-> {}]
        /\ query = [c \in Client |-> Idle]
        /\ failures = 0

At(c, label) == query[c].pc = label

(* GetRandomSubset, as AnswerRight of RandomSubset has it.                 *)
RandomSubsets(S) ==
    {T \in SUBSET S : Cardinality(T) = Min({SubsetSize, Cardinality(S)})}

(* addNewContacts: nobody is a contact of itself.                          *)
addNewContacts(c, contacts) == knows' = [knows EXCEPT ![c] = @ \cup (contacts \ {c})]

Fails == failures < MaxFailures /\ failures' = failures + 1
-----------------------------------------------------------------------------
(* connect, or refresh: the server adds the client and answers.            *)
Connect(c) ==
    /\ registered' = registered \cup {c}
    /\ connected' = connected \cup {c}
    /\ \E S \in RandomSubsets(registered') : addNewContacts(c, S)
    /\ UNCHANGED <<query, failures>>

(* The answer is lost.                                                     *)
ConnectUnanswered(c) ==
    /\ Fails
    /\ registered' = registered \cup {c}
    /\ connected' = connected \ {c}
    /\ UNCHANGED <<knows, query>>

(* disconnect: the server removes the client, which forgets its contacts,  *)
(* but still answers and asks.                                             *)
Disconnect(c) ==
    /\ Fails
    /\ c \in connected
    /\ registered' = registered \ {c} /\ connected' = connected \ {c}
    /\ knows' = [knows EXCEPT ![c] = {}]
    /\ UNCHANGED query
-----------------------------------------------------------------------------
(* A wrong request: without the identity of the one that asks.             *)
SentAnonymously(c, S) == S

(* What a request carries: always the client's own identity as well.       *)
Sent(c, S) == S \cup {c}

Query(c, d, S) ==
    /\ At(c, "idle") /\ d \in knows[c]
    /\ query' = [query EXCEPT ![c] = [pc |-> "asked", peer |-> d, contacts |-> Sent(c, S)]]
    /\ UNCHANGED <<registered, connected, knows, failures>>

expandContacts(c, d) == \E S \in RandomSubsets(knows[c]) : Query(c, d, S)

(* The peer's contactsHandler: it adds the contacts, then answers.         *)
Received(c) ==
    /\ At(c, "asked")
    /\ addNewContacts(query[c].peer, query[c].contacts)
    /\ query' = [query EXCEPT ![c].pc = "received", ![c].contacts = {}]
    /\ UNCHANGED <<registered, connected, failures>>

Answered(c) ==
    /\ At(c, "received")
    /\ \E S \in RandomSubsets(knows[query[c].peer]) :
          query' = [query EXCEPT ![c].pc = "answered", ![c].contacts = S]
    /\ UNCHANGED <<registered, connected, knows, failures>>

Learned(c) ==
    /\ At(c, "answered")
    /\ addNewContacts(c, query[c].contacts)
    /\ query' = [query EXCEPT ![c] = Idle]
    /\ UNCHANGED <<registered, connected, failures>>

(* The request or its answer is lost.                                      *)
QueryFails(c) ==
    /\ ~At(c, "idle")
    /\ Fails
    /\ query' = [query EXCEPT ![c] = Idle]
    /\ UNCHANGED <<registered, connected, knows>>
-----------------------------------------------------------------------------
(* A health check gets no answer in time, though the client runs: that of  *)
(* another client, and that of the server, which also loses a registration *)
(* when it ends before it has saved it.                                    *)
CheckFails(c, d) ==
    /\ Fails
    /\ d \in knows[c]
    /\ knows' = [knows EXCEPT ![c] = @ \ {d}]
    /\ UNCHANGED <<registered, connected, query>>

ServerForgets(c) ==
    /\ Fails
    /\ c \in registered
    /\ registered' = registered \ {c}
    /\ UNCHANGED <<connected, knows, query>>
-----------------------------------------------------------------------------
Exchange(c) == Received(c) \/ Answered(c) \/ Learned(c)

Next ==
    \E c \in Client :
        \/ Connect(c) \/ ConnectUnanswered(c) \/ Disconnect(c)
        \/ \E d \in Client : expandContacts(c, d) \/ CheckFails(c, d)
        \/ Exchange(c) \/ QueryFails(c) \/ ServerForgets(c)

Spec == Init /\ [][Next]_vars

(* Requests are handled, and a client that stays known is asked again and  *)
(* again (QueriedAgain), some time with each other contact in the request, *)
(* as subsets are random.  Nothing is assumed of what answers name, and    *)
(* nobody has to connect.                                                  *)
Telling(c, d, e) == \E S \in RandomSubsets(knows[c]) : e \in S /\ Query(c, d, S)

Fairness == \A c \in Client :
    /\ WF_vars(\E d \in Client : expandContacts(c, d)) /\ WF_vars(Exchange(c))
    /\ \A d \in Client \ {c} : \A e \in Client \ {c, d} : SF_vars(Telling(c, d, e))

FairSpec == Spec /\ Fairness
-----------------------------------------------------------------------------
(* However the clients are split in two, one knows another across.         *)
Linked ==
    \A group \in SUBSET Client \ {{}, Client} :
        \E c \in group, d \in Client \ group : d \in knows[c] \/ c \in knows[d]

Everybody == \A c \in Client : knows[c] = Client \ {c}

(* If connections and failures leave the network in one piece, every       *)
(* client gets to know every other, although it hears of only a few at a   *)
(* time, and also those that nobody names: a link in one direction is      *)
(* enough, whoever loses an answer, disconnects or is dropped meanwhile.   *)
Spreads == <>[]Linked => <>[]Everybody
=============================================================================
