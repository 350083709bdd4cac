---------------------------- MODULE PriorityQueue ----------------------------
(***************************************************************************)
(* The indexed binary heap of shared/priority_queue.go.                    *)
(*                                                                         *)
(* Every method holds pq.mu for its whole body, so methods do not overlap: *)
(* one starts only when pc = "rest".  What a method does before it calls   *)
(* heapifyUp or heapifyDown is one step, and so is each iteration of those *)
(* two loops; pc names the loop that runs and index is its loop variable.  *)
(***************************************************************************)
EXTENDS Maps

CONSTANTS Value, Priority

ASSUME PriorityAssumption == Priority \subseteq Int

VARIABLES size,         \* len(pq.priorities), which is len(pq.values)
          priorities,   \* the slice pq.priorities
          values,       \* the slice pq.values
          indexMap,     \* pq.indexMap
          pc,           \* "rest", or the loop that runs: "up" or "down"
          index,        \* its variable index
          ret           \* what the last method returned

heap == <<size, priorities, values, indexMap>>
vars == <<heap, pc, index, ret>>

Entry(p, v) == [ok |-> TRUE, priority |-> p, value |-> v]
Answer(b)   == [ok |-> b]

Index == 0 .. size - 1

(* (i - 1) / 2, which the code computes only for i > 0.                    *)
Parent(i) == (i - 1) \div 2

Heapify(dir, i) == pc' = dir /\ index' = i

Rest == pc' = "rest" /\ index' = 0

Init == /\ size = 0
        /\ priorities = [i \in {} |-> 0]
        /\ values = [i \in {} |-> 0]
        /\ indexMap = [v \in {} |-> 0]
        /\ pc = "rest" /\ index = 0
        /\ ret = Answer(FALSE)
-----------------------------------------------------------------------------
(* Insert of a value that is not queued: append and bubble up.             *)
InsertNew(p, v) ==
    /\ pc = "rest"
    /\ v \notin DOMAIN indexMap
    /\ size' = size + 1
    /\ priorities' = With(priorities, size, p)
    /\ values' = With(values, size, v)
    /\ indexMap' = With(indexMap, v, size)
    /\ Heapify("up", size)
    /\ ret' = Answer(TRUE)

(* A wrong InsertUpdate: a priority that grows stays where it is.          *)
InsertUpdateNoSift(p, v) ==
    /\ pc = "rest"
    /\ v \in DOMAIN indexMap
    /\ priorities' = With(priorities, indexMap[v], p)
    /\ UNCHANGED <<size, values, indexMap>>
    /\ Heapify("up", indexMap[v])
    /\ ret' = Answer(FALSE)

(* Insert of a queued value: change its priority in place.                 *)
InsertUpdate(p, v) ==
    /\ pc = "rest"
    /\ v \in DOMAIN indexMap
    /\ LET i == indexMap[v] IN
       /\ priorities' = With(priorities, i, p)
       /\ \/ p < priorities[i] /\ Heapify("up", i)
          \/ p > priorities[i] /\ Heapify("down", i)
          \/ p = priorities[i] /\ Rest
    /\ UNCHANGED <<size, values, indexMap>>
    /\ ret' = Answer(FALSE)

(* A wrong RemoveAt: the entry moved can only sink.                        *)
RemoveAtDownOnly(i) ==
    LET last == size - 1 IN
    /\ size' = last
    /\ priorities' = Without(With(priorities, i, priorities[last]), last)
    /\ values' = Without(With(values, i, values[last]), last)
    /\ indexMap' = Without(With(indexMap, values[last], i), values[i])
    /\ IF i = last THEN Rest ELSE Heapify("down", i)

(* The last entry moves into the hole at i; "up" or "down" as Remove picks *)
(* it (ExtractMin, whose hole is the root, always picks "down").           *)
RemoveAt(i) ==
    LET last == size - 1 IN
    /\ size' = last
    /\ priorities' = Without(With(priorities, i, priorities[last]), last)
    /\ values' = Without(With(values, i, values[last]), last)
    /\ indexMap' = Without(With(indexMap, values[last], i), values[i])
    /\ IF i = last THEN Rest
       ELSE IF i > 0 /\ priorities[last] < priorities[Parent(i)]
       THEN Heapify("up", i)
       ELSE Heapify("down", i)

ExtractMin ==
    /\ pc = "rest"
    /\ size > 0
    /\ RemoveAt(0)
    /\ ret' = Entry(priorities[0], values[0])

Remove(v) ==
    /\ pc = "rest"
    /\ v \in DOMAIN indexMap
    /\ RemoveAt(indexMap[v])
    /\ ret' = Answer(TRUE)

RemoveMissing(v) ==
    /\ pc = "rest"
    /\ v \notin DOMAIN indexMap
    /\ ret' = Answer(FALSE)
    /\ UNCHANGED <<heap, pc, index>>

Peek ==
    /\ pc = "rest"
    /\ size > 0
    /\ ret' = Entry(priorities[0], values[0])
    /\ UNCHANGED <<heap, pc, index>>

(* Peek and ExtractMin when len(pq.priorities) == 0.                       *)
Empty ==
    /\ pc = "rest"
    /\ size = 0
    /\ ret' = Answer(FALSE)
    /\ UNCHANGED <<heap, pc, index>>

GetPriority(v) ==
    /\ pc = "rest"
    /\ ret' = IF v \in DOMAIN indexMap
              THEN Entry(priorities[indexMap[v]], v)
              ELSE Answer(FALSE)
    /\ UNCHANGED <<heap, pc, index>>

Clear ==
    /\ pc = "rest"
    /\ size' = 0
    /\ priorities' = [i \in {} |-> 0]
    /\ values' = [i \in {} |-> 0]
    /\ indexMap' = [v \in {} |-> 0]
    /\ UNCHANGED <<pc, index, ret>>
-----------------------------------------------------------------------------
Swap(i, j) ==
    /\ priorities' = Exchange(priorities, i, j)
    /\ values' = Exchange(values, i, j)
    /\ indexMap' = [indexMap EXCEPT ![values[j]] = i, ![values[i]] = j]
    /\ UNCHANGED size

(* One iteration of heapifyUp.                                             *)
HeapifyUp ==
    /\ pc = "up"
    /\ IF index > 0 /\ priorities[index] < priorities[Parent(index)]
       THEN Swap(index, Parent(index)) /\ Heapify("up", Parent(index))
       ELSE Rest /\ UNCHANGED heap
    /\ UNCHANGED ret

Lower(i, j) == IF j < size /\ priorities[j] < priorities[i] THEN j ELSE i

(* A wrong choice: the right child is never compared.                      *)
SmallestLeftOnly(i) == Lower(i, 2*i + 1)

(* The variable smallest of heapifyDown: the node or one of its children.  *)
Smallest(i) == Lower(Lower(i, 2*i + 1), 2*i + 2)

(* One iteration of heapifyDown.                                           *)
HeapifyDown ==
    /\ pc = "down"
    /\ LET smallest == Smallest(index) IN
       IF smallest # index
       THEN Swap(index, smallest) /\ Heapify("down", smallest)
       ELSE Rest /\ UNCHANGED heap
    /\ UNCHANGED ret

Next ==
    \/ \E v \in Value, p \in Priority : InsertNew(p, v) \/ InsertUpdate(p, v)
    \/ \E v \in Value : Remove(v) \/ RemoveMissing(v) \/ GetPriority(v)
    \/ ExtractMin \/ Peek \/ Empty \/ Clear
    \/ HeapifyUp \/ HeapifyDown

Spec == Init /\ [][Next]_vars
-----------------------------------------------------------------------------
(* The slices have the heap's length, the map's indices are inside them,   *)
(* and a loop's index is that of an entry.                                 *)
TypeOK ==
    /\ size \in Nat
    /\ priorities \in [Index -> Priority]
    /\ values \in [Index -> Value]
    /\ indexMap \in [DOMAIN indexMap -> Index]
    /\ DOMAIN indexMap \subseteq Value
    /\ pc \in {"rest", "up", "down"}
    /\ index \in Nat
    /\ pc # "rest" => index \in Index

(* indexMap leads to each value's index and to nothing else: the third and *)
(* fourth checks of validateUnsafe, here also between two iterations.      *)
IndexMapExact ==
    /\ DOMAIN indexMap = {values[i] : i \in Index}
    /\ \A i \in Index : indexMap[values[i]] = i

Ordered(i) == priorities[Parent(i)] <= priorities[i]

(* A method that has returned leaves a heap: no entry is below its parent, *)
(* the last check of validateUnsafe.                                       *)
ValidAtRest == pc = "rest" => \A i \in Index \ {0} : Ordered(i)

(* What keeps it so while a loop runs: the order fails at most between     *)
(* index and its parent (up) or its children (down), and the children of   *)
(* index are in order with the parent of index.                            *)
HeapOrder ==
    /\ \A i \in Index \ {0} : \/ Ordered(i)
                              \/ pc = "up" /\ i = index
                              \/ pc = "down" /\ Parent(i) = index
    /\ \A i \in Index \ {0} :
          pc # "rest" /\ Parent(i) = index /\ index > 0
              => priorities[Parent(index)] <= priorities[i]

HeapInv == IndexMapExact /\ HeapOrder

(* The callers' view: the priority each queued value has.                  *)
map == [v \in DOMAIN indexMap |-> priorities[indexMap[v]]]

Abstract == INSTANCE AbstractPriorityQueue WITH
                Value <- Value, Priority <- Priority, map <- map, ret <- ret

(* The heap implements the map with a minimum: every method returns what   *)
(* AbstractPriorityQueue allows, ExtractMin and Peek a least entry, and no *)
(* heapify step adds, loses or changes an entry.                           *)
ImplementsMap == Abstract!Spec
=============================================================================
