----------------------------- MODULE ContactList -----------------------------
(***************************************************************************)
(* The list of contacts beside a chat, client/main.go and client/db.go:    *)
(* GetAllContactMessages lists the rows of table Contact, each with its    *)
(* last message, then the peers of the query queue that have no row yet,   *)
(* with none, and gives these a row.                                       *)
(*                                                                         *)
(* A tab is a browser page that asks for the list again and again, at the  *)
(* same time as the messages of Chat arrive and other tabs ask.            *)
(***************************************************************************)
EXTENDS Chat

CONSTANTS Viewer,   \* bound: the clients whose contact lists are looked at
          Queued,   \* bound: the peers that get into their query queues
          Tabs      \* bound: the tabs of one client

ASSUME ViewerAssumption ==
    Viewer \subseteq Client /\ Queued \subseteq Client /\ Tabs \in Nat

Tab == Viewer \X (1 .. Tabs)

VARIABLES known,      \* for each viewer: peers in queryQueue and the registry
          contacts,   \* for each viewer: the IDs in table Contact
          at,         \* for each tab: where its request is
          page        \* for each tab: the contacts listed, with their last message

listVars == <<known, contacts, at, page>>
vars == <<chatVars, listVars>>

Init ==
    /\ ChatInit
    /\ known = [c \in Viewer |-> {}]
    /\ contacts = [c \in Viewer |-> {}]
    /\ at = [t \in Tab |-> "idle"]
    /\ page = [t \in Tab |-> [d \in {} |-> {}]]
-----------------------------------------------------------------------------
(* A wrong partition: by sender.                                           *)
PartnerIsSender(c, m) == m.senderID

(* The CASE by which the query partitions the messages.                    *)
Partner(c, m) == IF m.senderID = c THEN m.receiverID ELSE m.senderID

Newest(c, rows) ==
    LET Time(id) == database[c][id].message.timestamp
    IN {database[c][id].message : id \in {i \in rows : \A j \in rows : Time(j) <= Time(i)}}

(* The rows numbered 1 in their partition, which ties leave open.          *)
LastMessages(c, d) ==
    Newest(c, {id \in DOMAIN database[c] :
                  LET m == database[c][id].message
                  IN c \in {m.senderID, m.receiverID} /\ Partner(c, m) = d})

(* GetContactsWithLastMessage: a contact without messages is listed, too.  *)
GetContactsWithLastMessage(t) ==
    /\ at[t] = "idle"
    /\ LET c == t[1] IN
        \E p \in [contacts[c] -> SUBSET DOMAIN send] :
            /\ \A d \in contacts[c] :
                  IF LastMessages(c, d) = {} THEN p[d] = {}
                  ELSE \E m \in LastMessages(c, d) : p[d] = {m}
            /\ page' = [page EXCEPT ![t] = p]
    /\ at' = [at EXCEPT ![t] = "append"]
    /\ UNCHANGED <<chatVars, known, contacts>>

(* Peers of the queue that the query did not return.                       *)
NewContacts(t) == known[t[1]] \ DOMAIN page[t]

(* A wrong loop: the new contacts are shown and not saved.                 *)
AppendUnsaved(t) ==
    /\ at[t] = "append"
    /\ page' = [page EXCEPT ![t] =
           [d \in DOMAIN @ \cup NewContacts(t) |-> IF d \in NewContacts(t) THEN {} ELSE @[d]]]
    /\ at' = [at EXCEPT ![t] = "idle"]
    /\ UNCHANGED <<chatVars, known, contacts>>

(* They are shown with no message, whether AddContact succeeds or not; it  *)
(* ignores a contact that another tab has added.                           *)
AppendNewContacts(t) ==
    /\ at[t] = "append"
    /\ page' = [page EXCEPT ![t] =
           [d \in DOMAIN @ \cup NewContacts(t) |-> IF d \in NewContacts(t) THEN {} ELSE @[d]]]
    /\ \E added \in SUBSET NewContacts(t) :
          contacts' = [contacts EXCEPT ![t[1]] = @ \cup added]
    /\ at' = [at EXCEPT ![t] = "idle"]
    /\ UNCHANGED <<chatVars, known>>

(* The client manager and the query queue find peers and lose them.        *)
KnownChanges(c, d) ==
    /\ known' = [known EXCEPT ![c] = IF d \in @ THEN @ \ {d} ELSE @ \cup {d}]
    /\ UNCHANGED <<chatVars, contacts, at, page>>
-----------------------------------------------------------------------------
Next ==
    \/ ChatNext /\ UNCHANGED listVars
    \/ \E t \in Tab : GetContactsWithLastMessage(t) \/ AppendNewContacts(t)
    \/ \E c \in Viewer, d \in Queued : KnownChanges(c, d)

Spec == Init /\ [][Next]_vars

(* Tabs ask again every few seconds, and adding a contact that is listed   *)
(* again and again succeeds in the end.  Nothing is assumed of messages.   *)
Fairness ==
    \A t \in Tab :
        /\ WF_vars(GetContactsWithLastMessage(t)) /\ WF_vars(AppendNewContacts(t))
        /\ \A d \in Client : SF_vars(AppendNewContacts(t) /\ d \in contacts'[t[1]])

FairSpec == Spec /\ Fairness
-----------------------------------------------------------------------------
(* What a tab shows for a contact is what the chat that opens shows last.  *)
UpToDate(t, d) ==
    LET newest == Newest(t[1], GetChatWithContact(t[1], d))
    IN /\ at[t] = "idle" /\ d \in DOMAIN page[t]
       /\ IF newest = {} THEN page[t][d] = {} ELSE \E m \in newest : page[t][d] = {m}

(* A contact that was saved once, or that stays in the query queue, is     *)
(* listed with the newest message of its chat again and again, although    *)
(* it is listed with none at first, messages arrive between the steps of   *)
(* a listing, and saving it may fail.                                      *)
PreviewCatchesUp ==
    \A t \in Tab, d \in Client :
        (<>(d \in contacts[t[1]]) \/ <>[](d \in known[t[1]])) => []<>UpToDate(t, d)
=============================================================================
