-------------------------------- MODULE Chat --------------------------------
(***************************************************************************)
(* Chatting, client/main.go and client/db.go: a client sends a message     *)
(* over HTTP to the receiver, which saves it in its database, and then     *)
(* saves its own copy.                                                     *)
(*                                                                         *)
(* A message's ID is its sender's clock in nanoseconds, its timestamp the  *)
(* clock in seconds; the containers share the clock of their host.  send   *)
(* says for each message made how far its request has come.  A client that *)
(* stops in the middle is one whose requests break off and are not saved;  *)
(* the database file survives, and each statement on it is atomic.  Texts  *)
(* are left out; the table Contact is in ContactList.                      *)
(***************************************************************************)
EXTENDS Maps, FiniteSets

CONSTANTS Client,       \* the clients
          Second,       \* how many clock readings there are in a second
          MaxTime,      \* bound: the clock's last reading
          MaxMessages   \* bound: how many messages are made

ASSUME ChatAssumption ==
    Second \in Nat \ {0} /\ MaxTime \in Nat /\ MaxMessages \in Nat

VARIABLES now,          \* the clock
          send,         \* for each message made: where its request is
          database      \* for each client: table Message, rows by messageID

chatVars == <<now, send, database>>

ChatInit ==
    /\ now = 0
    /\ send = [m \in {} |-> "request"]
    /\ database = [c \in Client |-> [id \in {} |-> 0]]
-----------------------------------------------------------------------------
(* A wrong ID: the clock in seconds.                                       *)
SecondsAsID(time) == time \div Second

(* generateMessageID: the clock in nanoseconds.                            *)
generateMessageID(time) == time

(* INSERT OR REPLACE: a row with the same ID goes.                         *)
RcvMessage(c, m, status) ==
    database' = [database EXCEPT ![c] =
        With(@, m.messageID, [message |-> m, status |-> status])]

Goes(m, from, to) ==
    /\ m \in DOMAIN send /\ send[m] = from
    /\ send' = [send EXCEPT ![m] = to]

(* sendMessageHandler, up to the request.  The clock is read twice.  Which *)
(* clients c knows is not modelled; it may know itself.                    *)
Send(c, d) ==
    /\ Cardinality(DOMAIN send) < MaxMessages
    /\ \E later \in {now, now + 1} :
          LET m == [made |-> now, messageID |-> generateMessageID(now),
                    timestamp |-> later \div Second,
                    senderID |-> c, receiverID |-> d]
          IN m \notin DOMAIN send /\ send' = With(send, m, "request")
    /\ UNCHANGED <<now, database>>

(* messageHandler at the receiver, which answers when it has saved.        *)
Receive(m) ==
    /\ Goes(m, "request", "saved")
    /\ RcvMessage(m.receiverID, m, "received")
    /\ UNCHANGED now

(* A wrong handler: it takes any answer for a success.                     *)
AnswerUnchecked(m) ==
    /\ Goes(m, "request", "accepted")
    /\ UNCHANGED <<now, database>>

(* The request does not arrive, or it is refused, or the receiver cannot   *)
(* save: the sender gets an error and gives up.                            *)
Refused(m) ==
    /\ Goes(m, "request", "over")
    /\ UNCHANGED <<now, database>>

(* The connection breaks: the sender gives up, the request may yet arrive. *)
Break(m) ==
    /\ Goes(m, "request", "late")
    /\ UNCHANGED <<now, database>>

ReceiveLate(m) ==
    /\ Goes(m, "late", "over")
    /\ RcvMessage(m.receiverID, m, "received")
    /\ UNCHANGED now

(* The answer arrives, or it is lost and the sender gives up.              *)
Answer(m) ==
    /\ Goes(m, "saved", "accepted") \/ Goes(m, "saved", "over")
    /\ UNCHANGED <<now, database>>

(* The sender saves its copy, or cannot.                                   *)
Save(m) ==
    /\ Goes(m, "accepted", "over")
    /\ RcvMessage(m.senderID, m, "sent") \/ UNCHANGED database
    /\ UNCHANGED now
-----------------------------------------------------------------------------
(* The rows that GetChatWithContact selects.                               *)
GetChatWithContact(c, d) ==
    {id \in DOMAIN database[c] :
        LET m == database[c][id].message
        IN <<m.senderID, m.receiverID>> \in {<<c, d>>, <<d, c>>}}

Tick == /\ now < MaxTime
        /\ now' = now + 1
        /\ UNCHANGED <<send, database>>
-----------------------------------------------------------------------------
Transfer(m) == \/ Receive(m) \/ Refused(m) \/ Break(m) \/ ReceiveLate(m)
               \/ Answer(m) \/ Save(m)

ChatNext ==
    \/ \E c, d \in Client : Send(c, d)
    \/ \E m \in DOMAIN send : Transfer(m)
    \/ Tick

ChatSpec == ChatInit /\ [][ChatNext]_chatVars
-----------------------------------------------------------------------------
Message == [made : 0 .. MaxTime, messageID : 0 .. MaxTime,
            timestamp : 0 .. (MaxTime + 1) \div Second,
            senderID : Client, receiverID : Client]

(* Databases hold messages that were made, under their IDs, at their ends. *)
ChatTypeOK ==
    /\ now \in 0 .. MaxTime
    /\ DOMAIN send \subseteq Message
    /\ \A m \in DOMAIN send : send[m] \in {"request", "saved", "late", "accepted", "over"}
    /\ DOMAIN database = Client
    /\ \A c \in Client : \A id \in DOMAIN database[c] :
          /\ database[c][id].message \in DOMAIN send
          /\ database[c][id].message.messageID = id
          /\ database[c][id].status \in {"sent", "received"}
          /\ c \in {database[c][id].message.senderID, database[c][id].message.receiverID}

(* No other message was made in the same nanosecond.                       *)
Alone(m) == \A n \in DOMAIN send : n.made = m.made => n = m

Has(c, m) == \E id \in DOMAIN database[c] : database[c][id].message = m

(* What a client shows as sent, the other has: the handler saves only when *)
(* the receiver has answered that it saved, and no later message, however  *)
(* many cross or come late, takes its place.                               *)
SentIsReceived ==
    \A c \in Client : \A id \in DOMAIN database[c] :
        LET m == database[c][id].message
        IN database[c][id].status = "sent" /\ Alone(m) => Has(m.receiverID, m)

(* Both ends of a conversation keep a message they have: INSERT OR REPLACE *)
(* replaces only what was made in the same nanosecond.                     *)
HistoryKept ==
    [][\A c \in Client, m \in DOMAIN send :
          Has(c, m) /\ Alone(m)' => Has(c, m)']_chatVars
=============================================================================
