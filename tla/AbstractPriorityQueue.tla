------------------------ MODULE AbstractPriorityQueue ------------------------
(***************************************************************************)
(* What shared/priority_queue.go promises its callers: a map from values   *)
(* to priorities, one entry a value, whose Peek and ExtractMin return an   *)
(* entry that no other entry's priority is below.                          *)
(***************************************************************************)
EXTENDS Maps

CONSTANTS Value,     \* what is queued
          Priority   \* the integers it is queued under

VARIABLES map,   \* the priority of each queued value
          ret    \* what the last operation returned

vars == <<map, ret>>

(* The results: an entry, a priority, a bool, or "not found".              *)
Entry(p, v) == [ok |-> TRUE, priority |-> p, value |-> v]
Answer(b)   == [ok |-> b]

Init == /\ map = [v \in {} |-> 0]
        /\ ret = Answer(FALSE)

Insert(p, v) == /\ map' = With(map, v, p)
                /\ ret' = Answer(v \notin DOMAIN map)

ExtractMin == \E v \in Minima(map) : /\ map' = Without(map, v)
                                     /\ ret' = Entry(map[v], v)

Remove(v) == /\ map' = Without(map, v)
             /\ ret' = Answer(v \in DOMAIN map)

Peek == /\ \E v \in Minima(map) : ret' = Entry(map[v], v)
        /\ UNCHANGED map

(* Peek and ExtractMin of an empty queue.                                  *)
Empty == /\ DOMAIN map = {}
         /\ ret' = Answer(FALSE)
         /\ UNCHANGED map

GetPriority(v) == /\ ret' = IF v \in DOMAIN map THEN Entry(map[v], v)
                                                ELSE Answer(FALSE)
                  /\ UNCHANGED map

Clear == /\ map' = [v \in {} |-> 0]
         /\ UNCHANGED ret

Next == \/ \E v \in Value, p \in Priority : Insert(p, v)
        \/ \E v \in Value : Remove(v) \/ GetPriority(v)
        \/ ExtractMin \/ Peek \/ Empty \/ Clear

Spec == Init /\ [][Next]_vars
=============================================================================
