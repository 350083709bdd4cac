----------------------------- MODULE ClientProofs -----------------------------
(***************************************************************************)
(* Theorems about the client program: about Chat, for any number of        *)
(* clients and messages and any clock (what a client shows as sent is at   *)
(* the receiver, and nobody loses a message but to one made in the same    *)
(* nanosecond), and about QueryQueue.                                      *)
(***************************************************************************)
EXTENDS Chat, QueryQueue, TLAPS

(* A message's ID is the instant at which it was made, and its ends exist. *)
MessagesOK ==
    \A m \in DOMAIN send : m.messageID = m.made /\ m.senderID \in Client /\ m.receiverID \in Client

SendIsMap == send = [m \in DOMAIN send |-> send[m]]

(* Every row is that of a message, under the message's ID.                 *)
RowsOK ==
    /\ DOMAIN database = Client
    /\ database = [c \in Client |-> database[c]]
    /\ \A c \in Client : \A id \in DOMAIN database[c] :
          /\ database[c][id].message \in DOMAIN send
          /\ database[c][id].message.messageID = id

(* Once the receiver has answered, it has the message.                     *)
AnsweredIsReceived ==
    \A m \in DOMAIN send :
        send[m] \in {"saved", "accepted"} /\ Alone(m) => Has(m.receiverID, m)

Inv == MessagesOK /\ SendIsMap /\ RowsOK /\ AnsweredIsReceived /\ SentIsReceived

-----------------------------------------------------------------------------
(* What INSERT OR REPLACE leaves: its own row, and every other row that    *)
(* does not have the same ID.                                              *)
LEMMA RcvMessageRows ==
    ASSUME RowsOK, NEW c \in Client, NEW m, NEW status, RcvMessage(c, m, status)
    PROVE  /\ DOMAIN database' = Client
           /\ database' = [d \in Client |-> database'[d]]
           /\ \A d \in Client : d # c => database'[d] = database[d]
           /\ DOMAIN database'[c] = DOMAIN database[c] \cup {m.messageID}
           /\ database'[c][m.messageID] = [message |-> m, status |-> status]
           /\ \A id \in DOMAIN database[c] :
                 id # m.messageID => database'[c][id] = database[c][id]
  <1>1. database'[c] = With(database[c], m.messageID, [message |-> m, status |-> status])
    BY DEF RcvMessage, RowsOK
  <1>2. /\ DOMAIN database' = Client
        /\ database' = [d \in Client |-> database'[d]]
        /\ \A d \in Client : d # c => database'[d] = database[d]
    BY DEF RcvMessage, RowsOK
  <1>3. DOMAIN database'[c] = DOMAIN database[c] \cup {m.messageID}
    BY <1>1 DEF With
  <1>4. database'[c][m.messageID] = [message |-> m, status |-> status]
    BY <1>1 DEF With
  <1>5. ASSUME NEW id \in DOMAIN database[c], id # m.messageID
        PROVE  database'[c][id] = database[c][id]
    BY <1>1, <1>5 DEF With
  <1> QED BY <1>2, <1>3, <1>4, <1>5

(* The rows stay rows of messages, the message is there, and whatever was  *)
(* there and shares its instant with no other message is still there.      *)
LEMMA RcvMessageKeeps ==
    ASSUME MessagesOK, RowsOK, DOMAIN send' = DOMAIN send,
           NEW c \in Client, NEW m \in DOMAIN send, NEW status, RcvMessage(c, m, status)
    PROVE  /\ RowsOK'
           /\ Has(c, m)'
           /\ \A d \in Client, n \in DOMAIN send : Has(d, n) /\ Alone(n)' => Has(d, n)'
  <1>1. /\ DOMAIN database' = Client
        /\ database' = [d \in Client |-> database'[d]]
        /\ \A d \in Client : d # c => database'[d] = database[d]
        /\ DOMAIN database'[c] = DOMAIN database[c] \cup {m.messageID}
        /\ database'[c][m.messageID] = [message |-> m, status |-> status]
        /\ \A id \in DOMAIN database[c] :
              id # m.messageID => database'[c][id] = database[c][id]
    BY RcvMessageRows
  <1>2. RowsOK'
    <2> SUFFICES ASSUME NEW d \in Client, NEW id \in DOMAIN database'[d]
                 PROVE  /\ database'[d][id].message \in DOMAIN send
                        /\ database'[d][id].message.messageID = id
      BY <1>1 DEF RowsOK
    <2>1. CASE d # c
      BY <1>1, <2>1 DEF RowsOK
    <2>2. CASE d = c /\ id = m.messageID
      BY <1>1, <2>2
    <2>3. CASE d = c /\ id # m.messageID
      BY <1>1, <2>3 DEF RowsOK
    <2> QED BY <2>1, <2>2, <2>3
  <1>3. Has(c, m)'
    BY <1>1 DEF Has
  <1>4. ASSUME NEW d \in Client, NEW n \in DOMAIN send, Has(d, n), Alone(n)' PROVE Has(d, n)'
    <2>1. PICK id \in DOMAIN database[d] : database[d][id].message = n
      BY <1>4 DEF Has
    <2>2. CASE d # c
      BY <1>1, <2>1, <2>2 DEF Has
    <2>3. CASE d = c /\ id # m.messageID
      BY <1>1, <2>1, <2>3 DEF Has
    <2>4. CASE d = c /\ id = m.messageID
      <3>1. n.made = m.made
        BY <2>1, <2>4 DEF RowsOK, MessagesOK
      <3>2. n = m
        BY <1>4, <3>1 DEF Alone
      <3> QED BY <1>3, <2>4, <3>2
    <2> QED BY <2>2, <2>3, <2>4
  <1> QED BY <1>2, <1>3, <1>4

(* Making messages never makes one more alone.                             *)
LEMMA AloneBefore ==
    ASSUME NEW m, DOMAIN send \subseteq DOMAIN send', Alone(m)'
    PROVE  Alone(m)
  BY DEF Alone

LEMMA GoesFacts ==
    ASSUME SendIsMap, NEW m, NEW from, NEW to, Goes(m, from, to)
    PROVE  /\ m \in DOMAIN send /\ send[m] = from
           /\ DOMAIN send' = DOMAIN send /\ SendIsMap'
           /\ send'[m] = to
           /\ \A n \in DOMAIN send : n # m => send'[n] = send[n]
  BY DEF Goes, SendIsMap
-----------------------------------------------------------------------------
(* What a step does to nobody's history: the inside of HistoryKept.        *)
Keeps == \A c \in Client, m \in DOMAIN send : Has(c, m) /\ Alone(m)' => Has(c, m)'

(* A message is made: it has an instant for its ID.                        *)
LEMMA SendStep ==
    ASSUME Inv, NEW c \in Client, NEW d \in Client, Send(c, d) PROVE Inv' /\ Keeps
  <1>1. PICK later : LET m == [made |-> now, messageID |-> generateMessageID(now),
                               timestamp |-> later \div Second,
                               senderID |-> c, receiverID |-> d]
                     IN m \notin DOMAIN send /\ send' = With(send, m, "request")
    BY DEF Send
  <1> DEFINE m == [made |-> now, messageID |-> generateMessageID(now),
                   timestamp |-> later \div Second, senderID |-> c, receiverID |-> d]
  <1>2. m.messageID = m.made /\ m.senderID \in Client /\ m.receiverID \in Client
    BY DEF generateMessageID
  <1>3. /\ m \notin DOMAIN send
        /\ send' = With(send, m, "request")
    BY <1>1
  <1> HIDE DEF m
  <1>4. /\ DOMAIN send' = DOMAIN send \cup {m}
        /\ send'[m] = "request"
        /\ \A n \in DOMAIN send : send'[n] = send[n]
        /\ SendIsMap'
    BY <1>3 DEF With, SendIsMap
  <1>5. UNCHANGED database
    BY DEF Send
  <1>6. \A e, n : Has(e, n) <=> Has(e, n)'
    BY <1>5 DEF Has
  <1>7. \A n : Alone(n)' => Alone(n)
    BY <1>4, AloneBefore
  <1>8. MessagesOK'
    BY <1>2, <1>4 DEF Inv, MessagesOK
  <1>9. RowsOK'
    BY <1>4, <1>5 DEF Inv, RowsOK
  <1>10. AnsweredIsReceived'
    BY <1>4, <1>6, <1>7 DEF Inv, AnsweredIsReceived
  <1>11. SentIsReceived'
    BY <1>5, <1>6, <1>7 DEF Inv, SentIsReceived
  <1> QED BY <1>4, <1>6, <1>8, <1>9, <1>10, <1>11 DEF Inv, Keeps

(* A request goes on and nothing is saved.                                 *)
LEMMA QuietStep ==
    ASSUME Inv, NEW m, NEW from, NEW to, Goes(m, from, to), UNCHANGED database,
           to \in {"saved", "accepted"} => from \in {"saved", "accepted"}
    PROVE  Inv' /\ Keeps
  <1>1. /\ m \in DOMAIN send /\ send[m] = from
        /\ DOMAIN send' = DOMAIN send /\ SendIsMap'
        /\ send'[m] = to
        /\ \A n \in DOMAIN send : n # m => send'[n] = send[n]
    BY GoesFacts DEF Inv
  <1>2. \A e, n : Has(e, n) <=> Has(e, n)'
    BY DEF Has
  <1>3. \A n : Alone(n)' <=> Alone(n)
    BY <1>1 DEF Alone
  <1>4. MessagesOK' /\ RowsOK'
    BY <1>1 DEF Inv, MessagesOK, RowsOK
  <1>5. AnsweredIsReceived'
    BY <1>1, <1>2, <1>3 DEF Inv, AnsweredIsReceived
  <1>6. SentIsReceived'
    BY <1>2, <1>3 DEF Inv, SentIsReceived
  <1> QED BY <1>1, <1>2, <1>4, <1>5, <1>6 DEF Inv, Keeps

(* A message is saved: by its receiver, or by its sender after the         *)
(* receiver's answer.                                                      *)
LEMMA SaveStep ==
    ASSUME Inv, NEW m, NEW from, NEW to, Goes(m, from, to),
           NEW c \in Client, NEW status, RcvMessage(c, m, status),
           to \in {"saved", "accepted"} => c = m.receiverID,
           status = "sent" => from = "accepted"
    PROVE  Inv' /\ Keeps
  <1>1. /\ m \in DOMAIN send /\ send[m] = from
        /\ DOMAIN send' = DOMAIN send /\ SendIsMap'
        /\ send'[m] = to
        /\ \A n \in DOMAIN send : n # m => send'[n] = send[n]
    BY GoesFacts DEF Inv
  <1>2. \A n : Alone(n)' <=> Alone(n)
    BY <1>1 DEF Alone
  <1>3. MessagesOK'
    BY <1>1 DEF Inv, MessagesOK
  <1>4. /\ RowsOK'
        /\ Has(c, m)'
        /\ \A d \in Client, n \in DOMAIN send : Has(d, n) /\ Alone(n)' => Has(d, n)'
    BY <1>1, RcvMessageKeeps DEF Inv
  <1>5. AnsweredIsReceived'
    <2> SUFFICES ASSUME NEW n \in DOMAIN send, send'[n] \in {"saved", "accepted"}, Alone(n)'
                 PROVE  Has(n.receiverID, n)'
      BY <1>1 DEF AnsweredIsReceived
    <2>1. CASE n = m
      BY <1>1, <1>4, <2>1
    <2>2. CASE n # m
      BY <1>1, <1>2, <1>4, <2>2 DEF Inv, MessagesOK, AnsweredIsReceived
    <2> QED BY <2>1, <2>2
  <1>6. SentIsReceived'
    <2> SUFFICES ASSUME NEW d \in Client, NEW id \in DOMAIN database'[d], NEW n,
                        n = database'[d][id].message,
                        database'[d][id].status = "sent", Alone(n)'
                 PROVE  Has(n.receiverID, n)'
      BY DEF SentIsReceived
    <2>1. n \in DOMAIN send /\ n.receiverID \in Client
      BY <1>1, <1>3, <1>4 DEF RowsOK, MessagesOK
    <2>2. /\ \A e \in Client : e # c => database'[e] = database[e]
          /\ DOMAIN database'[c] = DOMAIN database[c] \cup {m.messageID}
          /\ database'[c][m.messageID] = [message |-> m, status |-> status]
          /\ \A j \in DOMAIN database[c] :
                j # m.messageID => database'[c][j] = database[c][j]
      BY RcvMessageRows DEF Inv
    <2>3. CASE d = c /\ id = m.messageID
      <3>1. n = m /\ from = "accepted"
        BY <2>2, <2>3
      <3>2. Has(m.receiverID, m)
        BY <1>1, <1>2, <3>1 DEF Inv, AnsweredIsReceived
      <3> QED BY <1>4, <2>1, <3>1, <3>2
    <2>4. CASE d # c \/ id # m.messageID
      <3>1. id \in DOMAIN database[d] /\ database'[d][id] = database[d][id]
        BY <2>2, <2>4
      <3>2. Has(n.receiverID, n)
        BY <1>2, <3>1 DEF Inv, SentIsReceived
      <3> QED BY <1>4, <2>1, <3>2
    <2> QED BY <2>3, <2>4
  <1> QED BY <1>1, <1>3, <1>4, <1>5, <1>6 DEF Inv, Keeps

LEMMA TransferStep ==
    ASSUME Inv, NEW m \in DOMAIN send, Transfer(m) PROVE Inv' /\ Keeps
  <1>1. m.senderID \in Client /\ m.receiverID \in Client
    BY DEF Inv, MessagesOK
  <1>2. CASE Receive(m)
    BY <1>1, <1>2, SaveStep DEF Receive
  <1>3. CASE Refused(m)
    BY <1>3, QuietStep DEF Refused
  <1>4. CASE Break(m)
    BY <1>4, QuietStep DEF Break
  <1>5. CASE ReceiveLate(m)
    BY <1>1, <1>5, SaveStep DEF ReceiveLate
  <1>6. CASE Answer(m)
    BY <1>6, QuietStep DEF Answer
  <1>7. CASE Save(m)
    <2>1. CASE RcvMessage(m.senderID, m, "sent")
      BY <1>1, <1>7, <2>1, SaveStep DEF Save
    <2>2. CASE UNCHANGED database
      BY <1>7, <2>2, QuietStep DEF Save
    <2> QED BY <1>7, <2>1, <2>2 DEF Save
  <1> QED BY <1>2, <1>3, <1>4, <1>5, <1>6, <1>7 DEF Transfer

LEMMA InitInv == ChatInit => Inv
  BY DEF ChatInit, Inv, MessagesOK, SendIsMap, RowsOK, AnsweredIsReceived, SentIsReceived

LEMMA Step == Inv /\ [ChatNext]_chatVars => Inv' /\ (Keeps \/ UNCHANGED chatVars)
  <1> SUFFICES ASSUME Inv, [ChatNext]_chatVars PROVE Inv' /\ (Keeps \/ UNCHANGED chatVars)
    OBVIOUS
  <1>1. ASSUME NEW c \in Client, NEW d \in Client, Send(c, d) PROVE Inv' /\ Keeps
    BY <1>1, SendStep
  <1>2. ASSUME NEW m \in DOMAIN send, Transfer(m) PROVE Inv' /\ Keeps
    BY <1>2, TransferStep
  <1>3. CASE Tick
    <2>1. UNCHANGED <<send, database>>
      BY <1>3 DEF Tick
    <2>2. \A c, m : (Has(c, m) <=> Has(c, m)') /\ (Alone(m) <=> Alone(m)')
      BY <2>1 DEF Has, Alone
    <2>3. Inv'
      BY <2>1, <2>2 DEF Inv, MessagesOK, SendIsMap, RowsOK, AnsweredIsReceived, SentIsReceived
    <2> QED BY <2>2, <2>3 DEF Keeps
  <1>4. CASE UNCHANGED chatVars
    <2>1. UNCHANGED <<send, database>>
      BY <1>4 DEF chatVars
    <2>2. \A c, m : (Has(c, m) <=> Has(c, m)') /\ (Alone(m) <=> Alone(m)')
      BY <2>1 DEF Has, Alone
    <2>3. Inv'
      BY <2>1, <2>2 DEF Inv, MessagesOK, SendIsMap, RowsOK, AnsweredIsReceived, SentIsReceived
    <2> QED BY <1>4, <2>3
  <1> QED BY <1>1, <1>2, <1>3, <1>4 DEF ChatNext

(* A message that its sender shows as sent is in the receiver's database,  *)
(* whatever requests, answers and saves were lost or came late.            *)
THEOREM SentIsReceivedAlways == ChatSpec => []SentIsReceived
  <1>1. Inv /\ [ChatNext]_chatVars => Inv'
    BY Step
  <1>2. Inv => SentIsReceived
    BY DEF Inv
  <1> QED BY <1>1, <1>2, InitInv, PTL DEF ChatSpec

(* INSERT OR REPLACE takes a message only from one that was made in the    *)
(* same nanosecond.                                                        *)
THEOREM HistoryIsKept == ChatSpec => HistoryKept
  <1>1. Inv /\ [ChatNext]_chatVars => Inv'
    BY Step
  <1>2. Inv /\ [ChatNext]_chatVars =>
            [\A c \in Client, m \in DOMAIN send : Has(c, m) /\ Alone(m)' => Has(c, m)']_chatVars
    BY Step DEF Keeps
  <1> QED BY <1>1, <1>2, InitInv, PTL DEF ChatSpec, HistoryKept
-----------------------------------------------------------------------------
(* The clock and the messages stay in their bounds.                        *)
SendTypes ==
    /\ now \in 0 .. MaxTime
    /\ \A m \in DOMAIN send : /\ m \in Message
                              /\ send[m] \in {"request", "saved", "late", "accepted", "over"}

(* A row is at one of the ends of its message.                             *)
RowTypes ==
    \A c \in Client : \A id \in DOMAIN database[c] :
        /\ database[c][id].status \in {"sent", "received"}
        /\ c \in {database[c][id].message.senderID, database[c][id].message.receiverID}

(* Seconds do not go back, nor below zero.                                 *)
LEMMA Seconds ==
    ASSUME NEW a \in Nat, NEW b \in Nat, NEW d \in Nat \ {0}, a <= b
    PROVE  a \div d \in 0 .. b \div d
  <1> DEFINE p == a \div d
             q == b \div d
  <1>1. p \in Int /\ q \in Int
    OBVIOUS
  <1>2. d * p <= a /\ a < d * (p + 1)
    OBVIOUS
  <1>3. d * q <= b /\ b < d * (q + 1)
    OBVIOUS
  <1> HIDE DEF p, q
  <1>4. d * p < d * (q + 1)
    BY <1>1, <1>2, <1>3
  <1>5. p < q + 1
    BY <1>1, <1>4
  <1>6. d * 0 < d * (p + 1)
    BY <1>1, <1>2
  <1>7. 0 < p + 1
    BY <1>1, <1>6
  <1>8. p \in 0 .. q
    BY <1>1, <1>5, <1>7
  <1> QED BY <1>8 DEF p, q

(* A new message is one of the messages there can be.                      *)
LEMMA SendTyped ==
    ASSUME SendTypes, NEW c \in Client, NEW d \in Client, Send(c, d)
    PROVE  SendTypes'
  <1>1. PICK later \in {now, now + 1} :
                     LET m == [made |-> now, messageID |-> generateMessageID(now),
                               timestamp |-> later \div Second,
                               senderID |-> c, receiverID |-> d]
                     IN m \notin DOMAIN send /\ send' = With(send, m, "request")
    BY DEF Send
  <1> DEFINE m == [made |-> now, messageID |-> generateMessageID(now),
                   timestamp |-> later \div Second, senderID |-> c, receiverID |-> d]
  <1>2. later \div Second \in 0 .. (MaxTime + 1) \div Second
    <2>1. later \in Nat /\ MaxTime + 1 \in Nat /\ later <= MaxTime + 1 /\ Second \in Nat \ {0}
      BY ChatAssumption DEF SendTypes
    <2> QED BY <2>1, Seconds
  <1>3. m \in Message
    BY <1>2 DEF Message, SendTypes, generateMessageID
  <1>4. send' = With(send, m, "request") /\ now' = now
    BY <1>1 DEF Send
  <1> HIDE DEF m
  <1>5. /\ DOMAIN send' = DOMAIN send \cup {m} /\ send'[m] = "request"
        /\ \A n \in DOMAIN send : n # m => send'[n] = send[n]
    BY <1>4 DEF With
  <1> QED BY <1>3, <1>4, <1>5 DEF SendTypes

(* A request goes on.                                                      *)
LEMMA GotoTyped ==
    ASSUME Inv, SendTypes, NEW m, NEW from,
           NEW to \in {"saved", "late", "accepted", "over"}, Goes(m, from, to), UNCHANGED now
    PROVE  SendTypes'
  <1>1. /\ DOMAIN send' = DOMAIN send /\ send'[m] = to
        /\ \A n \in DOMAIN send : n # m => send'[n] = send[n]
    BY GoesFacts DEF Inv
  <1> QED BY <1>1 DEF SendTypes

(* A row is saved at an end of its message.                                *)
LEMMA RowTyped ==
    ASSUME Inv, RowTypes, NEW m, NEW c \in Client, NEW status \in {"sent", "received"},
           RcvMessage(c, m, status), c \in {m.senderID, m.receiverID}
    PROVE  RowTypes'
  <1>1. /\ \A d \in Client : d # c => database'[d] = database[d]
        /\ DOMAIN database'[c] = DOMAIN database[c] \cup {m.messageID}
        /\ database'[c][m.messageID] = [message |-> m, status |-> status]
        /\ \A id \in DOMAIN database[c] :
              id # m.messageID => database'[c][id] = database[c][id]
    BY RcvMessageRows DEF Inv
  <1> SUFFICES ASSUME NEW d \in Client, NEW id \in DOMAIN database'[d]
               PROVE  LET row == database'[d][id]
                      IN /\ row.status \in {"sent", "received"}
                         /\ d \in {row.message.senderID, row.message.receiverID}
    BY DEF RowTypes
  <1>2. CASE d = c /\ id = m.messageID
    BY <1>1, <1>2
  <1>3. CASE d # c \/ id # m.messageID
    <2>1. id \in DOMAIN database[d] /\ database'[d][id] = database[d][id]
      BY <1>1, <1>3
    <2> QED BY <2>1 DEF RowTypes
  <1> QED BY <1>2, <1>3

(* A step of a request.                                                    *)
LEMMA TransferTyped ==
    ASSUME Inv, SendTypes, RowTypes, NEW m \in DOMAIN send, Transfer(m)
    PROVE  SendTypes' /\ RowTypes'
  <1>1. m.senderID \in Client /\ m.receiverID \in Client
    BY DEF Inv, MessagesOK
  <1>2. UNCHANGED database => RowTypes'
    BY DEF RowTypes
  <1>3. CASE Receive(m)
    BY <1>1, <1>3, GotoTyped, RowTyped DEF Receive
  <1>4. CASE Refused(m) \/ Break(m)
    BY <1>2, <1>4, GotoTyped DEF Refused, Break
  <1>5. CASE ReceiveLate(m)
    BY <1>1, <1>5, GotoTyped, RowTyped DEF ReceiveLate
  <1>6. CASE Answer(m)
    BY <1>2, <1>6, GotoTyped DEF Answer
  <1>7. CASE Save(m)
    BY <1>1, <1>2, <1>7, GotoTyped, RowTyped DEF Save
  <1> QED BY <1>3, <1>4, <1>5, <1>6, <1>7 DEF Transfer

(* Databases hold messages that were made, under their IDs, at their ends. *)
THEOREM ChatTypeCorrect == ChatSpec => []ChatTypeOK
  <1>1. ChatInit => Inv /\ SendTypes /\ RowTypes
    BY InitInv, ChatAssumption DEF ChatInit, SendTypes, RowTypes
  <1>2. Inv /\ SendTypes /\ RowTypes /\ [ChatNext]_chatVars => (Inv /\ SendTypes /\ RowTypes)'
    <2> SUFFICES ASSUME Inv, SendTypes, RowTypes, [ChatNext]_chatVars PROVE SendTypes' /\ RowTypes'
      BY Step
    <2>1. ASSUME NEW c \in Client, NEW d \in Client, Send(c, d) PROVE SendTypes' /\ RowTypes'
      BY <2>1, SendTyped DEF Send, RowTypes
    <2>2. ASSUME NEW m \in DOMAIN send, Transfer(m) PROVE SendTypes' /\ RowTypes'
      BY <2>2, TransferTyped
    <2>3. CASE Tick
      BY <2>3, ChatAssumption DEF Tick, SendTypes, RowTypes
    <2>4. CASE UNCHANGED chatVars
      BY <2>4 DEF chatVars, SendTypes, RowTypes
    <2> QED BY <2>1, <2>2, <2>3, <2>4 DEF ChatNext
  <1>3. Inv /\ SendTypes /\ RowTypes => ChatTypeOK
    BY DEF Inv, RowsOK, SendTypes, RowTypes, ChatTypeOK
  <1> QED BY <1>1, <1>2, <1>3, PTL DEF ChatSpec

-----------------------------------------------------------------------------
(* The query queue, for any peers and any number of goroutines.            *)

(* A query queue: numbers for some of the peers.                           *)
Numbered(q) == DOMAIN q \subseteq ID /\ q \in [DOMAIN q -> Int]

(* A thread on its way to queue a peer has one.                            *)
HasPeer(w) == w.pc \in {"put", "added", "load", "store", "insert"} => w.id \in ID

(* What a thread of the client may be at work on.                          *)
Job == [pc : Label, id : ID \cup {Nobody}, number : Int]

(* The expander has a target while it looks for new peers, none at rest.   *)
HasTarget(w) == /\ w.pc \in {"lookup", "query", "learn"} => target # Nobody
                /\ w.pc = "idle" => target = Nobody

QueryInv ==
    /\ registered \subseteq ID /\ up \subseteq ID /\ answer \subseteq ID
    /\ Numbered(queryQueue)
    /\ thread \in [Thread -> Job]
    /\ \A t \in Thread : HasPeer(thread[t])
    /\ target \in ID \cup {Nobody}
    /\ HasTarget(thread[Expander])

(* The queue gains a peer, or loses one.                                   *)
LEMMA NumberedChanges ==
    ASSUME Numbered(queryQueue), NEW id
    PROVE  /\ Numbered(Without(queryQueue, id))
           /\ id \in ID => \A k \in Int : Numbered(With(queryQueue, id, k))
  BY DEF Numbered, With, Without

(* One thread goes on, to w, and the target stays.                         *)
LEMMA JobGoes ==
    ASSUME QueryInv, NEW t \in Thread, NEW w \in Job, HasPeer(w),
           t = Expander => HasTarget(w),
           thread' = [thread EXCEPT ![t] = w], UNCHANGED target
    PROVE  /\ thread' \in [Thread -> Job]
           /\ \A s \in Thread : HasPeer(thread'[s])
           /\ target' \in ID \cup {Nobody}
           /\ HasTarget(thread[Expander])'
  BY DEF QueryInv, HasTarget, HasPeer, Thread

(* A job goes on at another place.                                         *)
LEMMA GoesTo ==
    ASSUME QueryInv, NEW t \in Thread, NEW label \in Label,
           Goto(t, label),
           label \in {"put", "added", "load", "store", "insert"} => thread[t].id \in ID,
           t = Expander => HasTarget([thread[t] EXCEPT !.pc = label]),
           UNCHANGED target
    PROVE  /\ thread' \in [Thread -> Job]
           /\ \A s \in Thread : HasPeer(thread'[s])
           /\ target' \in ID \cup {Nobody}
           /\ HasTarget(thread[Expander])'
  <1> DEFINE w == [thread[t] EXCEPT !.pc = label]
  <1>1. w \in Job /\ HasPeer(w)
    BY DEF QueryInv, HasPeer, Job
  <1>2. thread' = [thread EXCEPT ![t] = w]
    BY Zenon DEF Goto
  <1> HIDE DEF w
  <1>3. t = Expander => HasTarget(w)
    BY DEF w
  <1> QED BY <1>1, <1>2, <1>3, JobGoes

(* A thread has finished with one peer.                                    *)
LEMMA Finishes ==
    ASSUME QueryInv, NEW t \in Thread, Finish(t), UNCHANGED target
    PROVE  /\ thread' \in [Thread -> Job]
           /\ \A s \in Thread : HasPeer(thread'[s])
           /\ target' \in ID \cup {Nobody}
           /\ HasTarget(thread[Expander])'
  <1> DEFINE w == IF t = Expander /\ target # Nobody
                  THEN [Idle EXCEPT !.pc = "learn"] ELSE Idle
  <1>1. w \in Job /\ HasPeer(w)
    BY DEF HasPeer, Job, Idle, Label
  <1>2. t = Expander => HasTarget(w)
    BY DEF HasTarget, Idle
  <1>3. thread' = [thread EXCEPT ![t] = w]
    BY Zenon DEF Finish
  <1> HIDE DEF w
  <1> QED BY <1>1, <1>2, <1>3, JobGoes

(* A worker begins a call.                                                 *)
LEMMA Begins ==
    ASSUME QueryInv, NEW t \in Worker, NEW id \in ID,
           NEW label \in {"put", "added", "removed", "ping"}, Begin(t, label, id),
           UNCHANGED target
    PROVE  /\ thread' \in [Thread -> Job]
           /\ \A s \in Thread : HasPeer(thread'[s])
           /\ target' \in ID \cup {Nobody}
           /\ HasTarget(thread[Expander])'
  <1> DEFINE w == [pc |-> label, id |-> id, number |-> 0]
  <1>1. w \in Job /\ HasPeer(w) /\ t \in Thread /\ t # Expander
    BY ThreadAssumption DEF HasPeer, Job, Label, Thread
  <1>2. thread' = [thread EXCEPT ![t] = w]
    BY Zenon DEF Begin
  <1> HIDE DEF w
  <1> QED BY <1>1, <1>2, JobGoes
LEMMA QueryInit == Init => QueryInv
  <1> SUFFICES ASSUME Init PROVE QueryInv
    OBVIOUS
  <1>1. Idle \in Job /\ HasPeer(Idle)
    BY DEF Job, HasPeer, Idle, Label
  <1>2. HasTarget(Idle)
    BY DEF HasTarget, Idle, Init
  <1>3. thread = [t \in Thread |-> Idle] /\ Expander \in Thread
    BY DEF Init, Thread
  <1>4. Numbered(queryQueue)
    BY DEF Numbered, Init
  <1> QED BY <1>1, <1>2, <1>3, <1>4 DEF Init, QueryInv

(* A call begins, on any peer.                                             *)
LEMMA CallsOK ==
    ASSUME QueryInv, NEW w \in Worker, NEW id \in ID,
           \/ AddClient(w, id) \/ NewContact(w, id) \/ RemoveClient(w, id)
           \/ Pick(w, id) \/ Expire(w, id)
    PROVE  QueryInv'
  <1> w \in Thread /\ w # Expander
    BY ThreadAssumption DEF Thread
  <1>1. CASE AddClient(w, id)
    <2>1. Begin(w, "added", id) /\ UNCHANGED target
      BY <1>1 DEF AddClient
    <2> QED BY <1>1, <2>1, Begins DEF QueryInv, AddClient
  <1>5. CASE NewContact(w, id)
    <2>1. Begin(w, "put", id) /\ UNCHANGED target
      BY <1>5 DEF NewContact
    <2> QED BY <1>5, <2>1, Begins DEF QueryInv, NewContact
  <1>2. CASE RemoveClient(w, id)
    <2>1. Begin(w, "removed", id) /\ UNCHANGED target
      BY <1>2 DEF RemoveClient
    <2> QED BY <1>2, <2>1, Begins DEF QueryInv, RemoveClient
  <1>3. CASE Pick(w, id)
    <2>1. Begin(w, "ping", id) /\ UNCHANGED target
      BY <1>3 DEF Pick
    <2> QED BY <1>3, <2>1, Begins DEF QueryInv, Pick
  <1>4. CASE Expire(w, id)
    <2>1. Begin(w, "removed", id) /\ UNCHANGED target
      BY <1>4 DEF Expire
    <2> QED BY <1>4, <2>1, Begins DEF QueryInv, Expire
  <1> QED BY <1>1, <1>2, <1>3, <1>4, <1>5

(* A health check goes on.                                                 *)
LEMMA ChecksOK ==
    ASSUME QueryInv, NEW w \in Worker, CheckStep(w) PROVE QueryInv'
  <1> w \in Thread /\ w # Expander
    BY ThreadAssumption DEF Thread
  <1>1. CASE Ping(w)
    <2> DEFINE label == IF thread[w].id \in registered \cap up THEN "added" ELSE "dead"
    <2>1. label \in Label /\ (label = "added" => thread[w].id \in ID) /\ label \in {"added", "dead"}
      BY DEF Label, QueryInv
    <2>2. Goto(w, label) /\ UNCHANGED target
      BY <1>1 DEF Ping
    <2> HIDE DEF label
    <2> QED BY <1>1, <2>1, <2>2, GoesTo DEF QueryInv, Ping
  <1>2. CASE DeadCallback(w)
    <2>1. Goto(w, "unregister") /\ UNCHANGED target /\ "unregister" \in Label
      BY <1>2 DEF DeadCallback, Label
    <2>2. Numbered(queryQueue')
      BY <1>2, NumberedChanges DEF QueryInv, DeadCallback
    <2> QED BY <1>2, <2>1, <2>2, GoesTo DEF QueryInv, Numbered, DeadCallback
  <1>3. CASE Unregister(w)
    <2>1. Finish(w) /\ UNCHANGED target
      BY <1>3 DEF Unregister
    <2> QED BY <1>3, <2>1, Finishes DEF QueryInv, Unregister
  <1> QED BY <1>1, <1>2, <1>3 DEF CheckStep

(* The callbacks, with the counter.                                        *)
LEMMA CallbacksOK ==
    ASSUME QueryInv, NEW t \in Thread, Callback(t) \/ Load(t) \/ Read(t)
    PROVE  QueryInv'
  <1>1. CASE AddCallback(t)
    <2>1. CASE Finish(t)
      <3>1. UNCHANGED target
        BY <1>1 DEF AddCallback
      <3> QED BY <1>1, <2>1, <3>1, Finishes DEF QueryInv, AddCallback
    <2>2. CASE Goto(t, "load")
      <3>1. UNCHANGED target /\ thread[t].pc = "added" /\ "load" \in Label
        BY <1>1 DEF AddCallback, At, Label
      <3>2. thread[t].id \in ID
        BY <3>1 DEF QueryInv, HasPeer
      <3>3. HasTarget([thread[t] EXCEPT !.pc = "load"])
        BY DEF HasTarget, QueryInv, Job
      <3> QED BY <1>1, <2>2, <3>1, <3>2, <3>3, GoesTo DEF QueryInv, AddCallback
    <2> QED BY <1>1, <2>1, <2>2 DEF AddCallback
  <1>2. CASE Load(t)
    <2> DEFINE v == [thread[t] EXCEPT !.pc = "store"]
               w == [v EXCEPT !.number = 0]
    <2>1. UNCHANGED target /\ thread[t].pc = "load"
      BY <1>2 DEF Load, At
    <2>2. thread[t] \in Job /\ thread[t].id \in ID
      BY <2>1 DEF QueryInv, HasPeer
    <2>3. v \in Job /\ v.pc = "store" /\ v.id = thread[t].id
      BY <2>2 DEF Job, Label
    <2>4. w \in Job /\ w.pc = "store" /\ w.id = thread[t].id
      <3> HIDE DEF v
      <3> QED BY <2>3 DEF Job
    <2>5. thread' = [thread EXCEPT ![t] = w]
      BY <1>2 DEF Load, QueryInv
    <2> HIDE DEF v, w
    <2>6. HasPeer(w) /\ HasTarget(w)
      BY <2>2, <2>4 DEF HasPeer, HasTarget
    <2> QED BY <1>2, <2>1, <2>4, <2>5, <2>6, JobGoes DEF QueryInv, Load
  <1>3. CASE Store(t)
    <2> DEFINE d == 1 - thread[t].number
               new(s) == IF s = t THEN [thread[t] EXCEPT !.pc = "insert", !.number = 0]
                         ELSE IF HasNumber(s) THEN [thread[s] EXCEPT !.number = @ + d]
                         ELSE thread[s]
    <2>1. thread[t].pc = "store" /\ d \in Int
      BY <1>3 DEF Store, At, QueryInv, Job
    <2>2. Numbered(queryQueue')
      <3>1. queryQueue' = [id \in DOMAIN queryQueue |-> queryQueue[id] + d]
        BY <1>3, Zenon DEF Store
      <3> HIDE DEF d
      <3> QED BY <2>1, <3>1 DEF QueryInv, Numbered
    <2>3. thread' = [s \in Thread |-> new(s)]
      BY <1>3, Zenon DEF Store
    <2>4. ASSUME NEW s \in Thread
          PROVE  /\ new(s) \in Job /\ HasPeer(new(s))
                 /\ s = Expander => HasTarget(new(s))
      <3> HIDE DEF d
      <3>1. thread[s] \in Job /\ HasPeer(thread[s]) /\ thread[t] \in Job /\ HasPeer(thread[t])
            /\ (s = Expander => HasTarget(thread[s]))
        BY DEF QueryInv
      <3>2. CASE s = t
        <4>1. thread[t].id \in ID
          BY <2>1, <3>1 DEF HasPeer
        <4>2. new(s) = [pc |-> "insert", id |-> thread[t].id, number |-> 0]
          BY <3>1, <3>2 DEF Job
        <4> HIDE DEF new
        <4> QED BY <4>1, <4>2 DEF Job, HasPeer, HasTarget, Label
      <3>3. CASE s # t /\ HasNumber(s)
        <4> DEFINE w == [thread[s] EXCEPT !.number = @ + d]
        <4>1. w \in Job /\ w.pc = thread[s].pc /\ w.id = thread[s].id
          BY <2>1, <3>1 DEF Job
        <4>2. new(s) = w
          BY <3>3
        <4> HIDE DEF new, w
        <4> QED BY <3>1, <4>1, <4>2 DEF HasPeer, HasTarget
      <3>4. CASE s # t /\ ~HasNumber(s)
        BY <3>1, <3>4
      <3> QED BY <3>2, <3>3, <3>4
    <2> HIDE DEF new, d
    <2>5. /\ thread' \in [Thread -> Job] /\ \A s \in Thread : HasPeer(thread'[s])
          /\ HasTarget(thread[Expander])'
      <3>1. Expander \in Thread /\ UNCHANGED target
        BY <1>3 DEF Thread, Store
      <3> QED BY <2>3, <2>4, <3>1 DEF HasTarget
    <2> QED BY <1>3, <2>2, <2>5 DEF QueryInv, Numbered, Store
  <1>4. CASE Insert(t)
    <2>1. Finish(t) /\ UNCHANGED target
      BY <1>4 DEF Insert
    <2>2. thread[t].id \in ID /\ thread[t].number \in Int
      BY <1>4 DEF Insert, At, QueryInv, HasPeer, Job
    <2>3. Numbered(queryQueue')
      BY <1>4, <2>2, NumberedChanges DEF Insert, QueryInv
    <2> QED BY <1>4, <2>1, <2>3, Finishes DEF QueryInv, Numbered, Insert
  <1>5. CASE RemoveCallback(t)
    <2>1. Finish(t) /\ UNCHANGED target
      BY <1>5 DEF RemoveCallback
    <2>2. Numbered(queryQueue')
      BY <1>5, NumberedChanges DEF RemoveCallback, QueryInv
    <2> QED BY <1>5, <2>1, <2>2, Finishes DEF QueryInv, Numbered, RemoveCallback
  <1>6. CASE Put(t)
    <2>1. Goto(t, "added") /\ UNCHANGED target /\ thread[t].pc = "put" /\ "added" \in Label
      BY <1>6 DEF Put, At, Label
    <2>2. thread[t].id \in ID
      BY <2>1 DEF QueryInv, HasPeer
    <2>3. HasTarget([thread[t] EXCEPT !.pc = "added"])
      BY DEF HasTarget, QueryInv, Job
    <2> QED BY <1>6, <2>1, <2>2, <2>3, GoesTo DEF QueryInv, Put
  <1>7. CASE Read(t)
    <2> DEFINE w == [thread[t] EXCEPT !.number = 0]
    <2>1. UNCHANGED target /\ thread[t].pc = "insert"
      BY <1>7 DEF Read, At
    <2>2. thread[t] \in Job /\ thread[t].id \in ID
      BY <2>1 DEF QueryInv, HasPeer
    <2>3. w \in Job /\ w.pc = "insert" /\ w.id = thread[t].id
      BY <2>1, <2>2 DEF Job
    <2>4. thread' = [thread EXCEPT ![t] = w]
      BY <1>7, Zenon DEF Read
    <2> HIDE DEF w
    <2>5. HasPeer(w) /\ HasTarget(w)
      BY <2>2, <2>3 DEF HasPeer, HasTarget
    <2> QED BY <1>7, <2>1, <2>3, <2>4, <2>5, JobGoes DEF QueryInv, Read
  <1> QED BY <1>1, <1>2, <1>3, <1>4, <1>5, <1>6, <1>7 DEF Callback

(* The expander's thread goes on, with another target.                     *)
LEMMA Retargets ==
    ASSUME QueryInv, NEW w \in Job, HasPeer(w), target' \in ID \cup {Nobody},
           thread' = [thread EXCEPT ![Expander] = w],
           w.pc \in {"lookup", "query", "learn"} => target' # Nobody,
           w.pc = "idle" => target' = Nobody
    PROVE  /\ thread' \in [Thread -> Job]
           /\ \A s \in Thread : HasPeer(thread'[s])
           /\ HasTarget(thread[Expander])'
  <1>1. Expander \in Thread /\ thread \in [Thread -> Job]
    BY DEF Thread, QueryInv
  <1>2. thread'[Expander] = w
    BY <1>1
  <1> QED BY <1>1, <1>2 DEF QueryInv, HasTarget, HasPeer

(* The expander gives up.                                                  *)
LEMMA GivesUp ==
    ASSUME QueryInv, GiveUp PROVE QueryInv'
  <1> DEFINE w == [thread[Expander] EXCEPT !.pc = "idle"]
  <1>1. thread' = [thread EXCEPT ![Expander] = w]
    BY Zenon DEF GiveUp, Goto
  <1>2. w \in Job /\ HasPeer(w) /\ w.pc = "idle"
    BY DEF QueryInv, Job, HasPeer, Label, Thread
  <1> HIDE DEF w
  <1>3. target' = Nobody
    BY DEF GiveUp
  <1> QED BY <1>1, <1>2, <1>3, Retargets DEF QueryInv, GiveUp

(* Contact expansion.                                                      *)
LEMMA ExpandOK ==
    ASSUME QueryInv, Expand PROVE QueryInv'
  <1> DEFINE at(label) == [thread[Expander] EXCEPT !.pc = label]
  <1> Expander \in Thread
    BY DEF Thread
  <1>1. CASE Extract
    <2>1. PICK id \in First : target' = id /\ queryQueue' = Without(queryQueue, id)
      BY <1>1 DEF Extract
    <2>2. id \in ID /\ Numbered(queryQueue') /\ target' \in ID \cup {Nobody} /\ target' # Nobody
      BY <2>1, NumberedChanges, IDAssumption DEF First, QueryInv, Numbered
    <2>3. at("lookup") \in Job /\ HasPeer(at("lookup")) /\ at("lookup").pc = "lookup"
      BY DEF QueryInv, Job, HasPeer, Label
    <2>4. thread' = [thread EXCEPT ![Expander] = at("lookup")]
      BY <1>1, Zenon DEF Extract, Goto
    <2> HIDE DEF at
    <2>5. /\ thread' \in [Thread -> Job] /\ \A s \in Thread : HasPeer(thread'[s])
          /\ HasTarget(thread[Expander])'
      BY <2>2, <2>3, <2>4, Retargets
    <2> QED BY <1>1, <2>2, <2>5 DEF QueryInv, Numbered, Extract
  <1>2. CASE Lookup
    <2>1. CASE GiveUp
      BY <2>1, GivesUp
    <2>2. CASE Goto(Expander, "query") /\ UNCHANGED <<registered, queryQueue, target, answer, up>>
      <3>1. HasTarget(at("query")) /\ "query" \in Label
        BY <1>2 DEF QueryInv, HasTarget, Lookup, At, Job, Label
      <3> QED BY <2>2, <3>1, GoesTo DEF QueryInv
    <2> QED BY <1>2, <2>1, <2>2 DEF Lookup
  <1>3. CASE QueryFails
    BY <1>3, GivesUp DEF QueryFails
  <1>4. CASE QueryAnswered
    <2>1. HasTarget(at("learn")) /\ "learn" \in Label
      BY <1>4 DEF QueryInv, HasTarget, QueryAnswered, At, Job, Label
    <2>2. Goto(Expander, "learn") /\ UNCHANGED target
      BY <1>4 DEF QueryAnswered
    <2> QED BY <1>4, <2>1, <2>2, GoesTo DEF QueryInv, QueryAnswered
  <1>5. ASSUME NEW id \in ID, Learn(id) PROVE QueryInv'
    <2>1. CASE id \in registered
      BY <1>5, <2>1 DEF QueryInv, HasTarget, Learn
    <2>2. CASE id \notin registered
      <3> DEFINE w == [pc |-> "put", id |-> id, number |-> 0]
      <3>1. w \in Job /\ HasPeer(w) /\ HasTarget(w)
        BY DEF Job, HasPeer, HasTarget, Label
      <3>2. thread' = [thread EXCEPT ![Expander] = w] /\ UNCHANGED target
        BY <1>5, <2>2, Zenon DEF Learn
      <3> HIDE DEF w
      <3>3. /\ thread' \in [Thread -> Job] /\ \A s \in Thread : HasPeer(thread'[s])
            /\ HasTarget(thread[Expander])'
        BY <3>1, <3>2, JobGoes
      <3> QED BY <1>5, <2>2, <3>3 DEF QueryInv, Learn
    <2> QED BY <2>1, <2>2
  <1>6. CASE Learned
    <2> DEFINE w == [pc |-> "load", id |-> target, number |-> 0]
    <2>1. target \in ID /\ target' = Nobody
      BY <1>6 DEF QueryInv, HasTarget, Learned, PutBack, At
    <2>2. w \in Job /\ HasPeer(w) /\ w.pc = "load"
      BY <2>1 DEF Job, HasPeer, Label
    <2>3. thread' = [thread EXCEPT ![Expander] = w]
      BY <1>6, Zenon DEF Learned, PutBack
    <2> HIDE DEF w
    <2>4. /\ thread' \in [Thread -> Job] /\ \A s \in Thread : HasPeer(thread'[s])
          /\ HasTarget(thread[Expander])'
      BY <2>1, <2>2, <2>3, Retargets
    <2> QED BY <1>6, <2>1, <2>4 DEF QueryInv, Learned, PutBack
  <1> QED BY <1>1, <1>2, <1>3, <1>4, <1>5, <1>6 DEF Expand

LEMMA QueryNext == QueryInv /\ [Next]_vars => QueryInv'
  <1> SUFFICES ASSUME QueryInv, [Next]_vars PROVE QueryInv'
    OBVIOUS
  <1>1. CASE UNCHANGED vars
    BY <1>1 DEF QueryInv, HasTarget, vars
  <1>2. ASSUME NEW id \in ID, Change(id) PROVE QueryInv'
    BY <1>2 DEF QueryInv, HasTarget, Change
  <1>3. ASSUME NEW w \in Worker, Clear(w) PROVE QueryInv'
    BY <1>3 DEF QueryInv, HasTarget, Clear
  <1> QED BY <1>1, <1>2, <1>3, CallsOK, ChecksOK, CallbacksOK, ExpandOK DEF Next

(* Only peers are queued for a query, and the expander has one exactly     *)
(* from ExtractMin to the reinsertion, whoever answers or removes it.      *)
THEOREM QueryTypeCorrect == Spec => []TypeOK
  <1>1. QueryInv => TypeOK
    BY DEF QueryInv, HasTarget, Numbered, Job, TypeOK, At
  <1> QED BY <1>1, QueryInit, QueryNext, PTL DEF Spec
=============================================================================
