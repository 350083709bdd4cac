------------------------------ MODULE Registry ------------------------------
(***************************************************************************)
(* What the registry of a client manager promises, as seen from outside: a *)
(* client comes in when it is added or when a restart brings back what was *)
(* saved, and goes when it is removed, when a health check has given it    *)
(* up, or when the process ends.                                           *)
(*                                                                         *)
(* A check gives up no client that is a member and answers.  Between this  *)
(* verdict and the removal the client may have been added again.           *)
(***************************************************************************)
CONSTANT ID

VARIABLES members,    \* the registered clients
          suspects,   \* clients that a check has given up and not yet removed
          running,    \* the process with the registry is running
          saved,      \* what a restart brings back
          answering,  \* clients that answer a health check in time
          adding,     \* clients that a request under way is to add
          removing    \* clients that a request under way is to remove

registry == <<members, suspects, running, saved>>
world == <<answering, adding, removing>>
vars == <<registry, world>>

Init == /\ members = {} /\ suspects = {} /\ saved = {}
        /\ running = TRUE
        /\ answering \in SUBSET ID /\ adding = {} /\ removing = {}

(* The request may come, or may be done, in this step.                     *)
Add(id) == /\ running
           /\ id \in adding \cup adding'
           /\ members' = members \cup {id}
           /\ UNCHANGED <<suspects, running, saved>>

Remove(ids) == /\ running
               /\ ids \subseteq removing \cup removing'
               /\ members' = members \ ids
               /\ UNCHANGED <<suspects, running, saved>>

GiveUp(id) == /\ running
              /\ id \notin members \cap answering'
              /\ suspects' = suspects \cup {id}
              /\ UNCHANGED <<members, running, saved>>

(* Another check of the same client may still be about to remove it.       *)
Expel(id) == /\ id \in suspects
             /\ members' = members \ {id}
             /\ suspects' \in {suspects, suspects \ {id}}
             /\ UNCHANGED <<running, saved>>

Save == /\ running
        /\ saved' = members
        /\ UNCHANGED <<members, suspects, running>>

Exit == /\ running
        /\ running' = FALSE
        /\ members' = {} /\ suspects' = {}
        /\ UNCHANGED saved

Start == /\ ~running
         /\ running' = TRUE
         /\ members' = saved
         /\ UNCHANGED <<suspects, saved>>

(* Clients and requests come and go, in these steps and between them.      *)
Next == /\ answering' \subseteq ID
        /\ \/ \E id \in ID : Add(id) \/ GiveUp(id) \/ Expel(id)
           \/ \E ids \in SUBSET ID : Remove(ids)
           \/ Save \/ Exit \/ Start
           \/ UNCHANGED registry

Spec == Init /\ [][Next]_vars
=============================================================================
