------------------------- MODULE PriorityQueueProofs -------------------------
(***************************************************************************)
(* The heap of PriorityQueue stays valid, and implements the abstract      *)
(* queue, for every set of values and every set of integer priorities.     *)
(***************************************************************************)
EXTENDS PriorityQueue, WellFoundedInduction, TLAPS

Shape == TypeOK /\ IndexMapExact

(* A value has one index, so equal values are at equal indices.            *)
LEMMA IndexInjective ==
    ASSUME Shape, NEW i \in Index, NEW j \in Index, values[i] = values[j]
    PROVE  i = j
  BY DEF Shape, IndexMapExact

(* The value at the index that indexMap has for v is v.                    *)
LEMMA IndexInverse ==
    ASSUME Shape, NEW v \in DOMAIN indexMap
    PROVE  indexMap[v] \in Index /\ values[indexMap[v]] = v
<1>1. PICK i \in Index : v = values[i]
  BY DEF Shape, IndexMapExact
<1> QED BY <1>1 DEF Shape, IndexMapExact

(* Arithmetic of the tree.                                                 *)
LEMMA ParentFacts ==
    ASSUME NEW i \in Nat, i > 0
    PROVE  /\ Parent(i) \in Nat
           /\ Parent(i) < i
           /\ i = 2 * Parent(i) + 1 \/ i = 2 * Parent(i) + 2
  BY DEF Parent

(* The steps that Remove and ExtractMin share keep the shape.              *)
LEMMA RemoveAtShape ==
    ASSUME Shape, NEW i \in Index, RemoveAt(i)
    PROVE  Shape'
<1> DEFINE last == size - 1
<1>1. last \in Nat /\ last \in Index /\ size' = last
  BY DEF Shape, TypeOK, RemoveAt, Index
<1>2. Index' = Index \ {last}
  BY <1>1 DEF Index, Shape, TypeOK
<1>3. priorities' \in [Index' -> Priority] /\ values' \in [Index' -> Value]
  BY <1>1, <1>2 DEF RemoveAt, With, Without, Shape, TypeOK
<1>4. \A j \in Index' : values'[j] = IF j = i THEN values[last] ELSE values[j]
  BY <1>1, <1>2 DEF RemoveAt, With, Without, Shape, TypeOK
<1>5. DOMAIN indexMap' = DOMAIN indexMap \ {values[i]}
  BY <1>1 DEF RemoveAt, With, Without, Shape, IndexMapExact
<1>6. \A v \in DOMAIN indexMap' :
         indexMap'[v] = IF v = values[last] THEN i ELSE indexMap[v]
  BY <1>1, <1>5 DEF RemoveAt, With, Without, Shape, IndexMapExact
<1>7. \A j \in Index' : values'[j] \in DOMAIN indexMap' /\ indexMap'[values'[j]] = j
  <2> SUFFICES ASSUME NEW j \in Index'
               PROVE  values'[j] \in DOMAIN indexMap' /\ indexMap'[values'[j]] = j
    OBVIOUS
  <2>1. j \in Index /\ j # last
    BY <1>2
  <2>2. CASE j = i
    BY <2>1, <2>2, <1>1, <1>4, <1>5, <1>6, IndexInjective DEF Shape, IndexMapExact
  <2>3. CASE j # i
    BY <2>1, <2>3, <1>1, <1>4, <1>5, <1>6, IndexInjective DEF Shape, IndexMapExact
  <2> QED BY <2>2, <2>3
<1>8. \A v \in DOMAIN indexMap' : \E j \in Index' : v = values'[j]
  <2> SUFFICES ASSUME NEW v \in DOMAIN indexMap'
               PROVE  \E j \in Index' : v = values'[j]
    OBVIOUS
  <2>1. v \in DOMAIN indexMap /\ v # values[i]
    BY <1>5
  <2>2. CASE v = values[last]
    BY <2>1, <2>2, <1>1, <1>2, <1>4
  <2>3. CASE v # values[last]
    BY <2>1, <2>3, <1>1, <1>2, <1>4, IndexInverse
  <2> QED BY <2>2, <2>3
<1>9. DOMAIN indexMap' = {values'[j] : j \in Index'}
  BY <1>7, <1>8
<1>10. indexMap' \in [DOMAIN indexMap' -> Index']
  <2>1. \A v \in DOMAIN indexMap' : indexMap'[v] \in Index'
    BY <1>7, <1>8
  <2>2. indexMap' = [v \in DOMAIN indexMap' |-> indexMap'[v]]
    BY DEF RemoveAt, With, Without
  <2> QED BY <2>1, <2>2
<1>11. pc' \in {"rest", "up", "down"} /\ index' \in Nat /\ (pc' # "rest" => index' \in Index')
  BY <1>1, <1>2 DEF RemoveAt, Rest, Heapify, Index
<1> QED
  BY <1>1, <1>3, <1>5, <1>7, <1>9, <1>10, <1>11 DEF Shape, TypeOK, IndexMapExact

(* So does a swap of two entries.                                          *)
LEMMA SwapShape ==
    ASSUME Shape, NEW i \in Index, NEW j \in Index, i # j, Swap(i, j)
    PROVE  /\ size' = size /\ Index' = Index
           /\ priorities' \in [Index' -> Priority]
           /\ values' \in [Index' -> Value]
           /\ DOMAIN indexMap' = DOMAIN indexMap
           /\ indexMap' \in [DOMAIN indexMap' -> Index']
           /\ IndexMapExact'
<1>1. values[i] # values[j]
  BY IndexInjective
<1>2. size' = size /\ Index' = Index
  BY DEF Swap, Index
<1>3. priorities' \in [Index' -> Priority] /\ values' \in [Index' -> Value]
  BY <1>2 DEF Swap, Exchange, Shape, TypeOK
<1>4. \A k \in Index : values'[k] = IF k = i THEN values[j]
                                    ELSE IF k = j THEN values[i] ELSE values[k]
  BY <1>2 DEF Swap, Exchange, Shape, TypeOK
<1>5. /\ DOMAIN indexMap' = DOMAIN indexMap
      /\ \A v \in DOMAIN indexMap :
            indexMap'[v] = IF v = values[j] THEN i
                           ELSE IF v = values[i] THEN j ELSE indexMap[v]
  BY <1>1 DEF Swap, Shape, TypeOK
<1>6. indexMap' \in [DOMAIN indexMap' -> Index']
  BY <1>2, <1>5 DEF Shape, TypeOK, Swap
<1>7. \A k \in Index : values'[k] \in DOMAIN indexMap' /\ indexMap'[values'[k]] = k
  BY <1>1, <1>4, <1>5, IndexInjective DEF Shape, IndexMapExact
<1>8. \A v \in DOMAIN indexMap : \E k \in Index : v = values'[k]
  <2> SUFFICES ASSUME NEW v \in DOMAIN indexMap PROVE \E k \in Index : v = values'[k]
    OBVIOUS
  <2>1. indexMap[v] \in Index /\ values[indexMap[v]] = v
    BY IndexInverse
  <2> QED BY <2>1, <1>4
<1>9. IndexMapExact'
  BY <1>2, <1>5, <1>7, <1>8 DEF IndexMapExact
<1> QED BY <1>2, <1>3, <1>5, <1>6, <1>9

LEMMA InitShape == Init => Shape
  BY DEF Init, Shape, TypeOK, IndexMapExact, Index

LEMMA InsertNewShape ==
    ASSUME Shape, NEW p \in Priority, NEW v \in Value, InsertNew(p, v)
    PROVE  Shape'
<1>1. size \in Nat /\ size' = size + 1 /\ Index' = Index \cup {size} /\ size \notin Index
  BY DEF InsertNew, Shape, TypeOK, Index
<1>2. priorities' \in [Index' -> Priority] /\ values' \in [Index' -> Value]
  BY <1>1 DEF InsertNew, With, Shape, TypeOK
<1>3. \A i \in Index' : values'[i] = IF i = size THEN v ELSE values[i]
  BY <1>1 DEF InsertNew, With, Shape, TypeOK
<1>4. /\ v \notin DOMAIN indexMap
      /\ DOMAIN indexMap' = DOMAIN indexMap \cup {v}
      /\ \A u \in DOMAIN indexMap' : indexMap'[u] = IF u = v THEN size ELSE indexMap[u]
  BY DEF InsertNew, With
<1>5. indexMap' \in [DOMAIN indexMap' -> Index']
  BY <1>1, <1>4 DEF InsertNew, With, Shape, TypeOK
<1>6. \A i \in Index' : values'[i] \in DOMAIN indexMap' /\ indexMap'[values'[i]] = i
  BY <1>1, <1>3, <1>4 DEF Shape, IndexMapExact
<1>7. \A u \in DOMAIN indexMap' : \E i \in Index' : u = values'[i]
  BY <1>1, <1>3, <1>4, IndexInverse
<1>8. IndexMapExact'
  BY <1>6, <1>7 DEF IndexMapExact
<1>9. pc' = "up" /\ index' = size
  BY DEF InsertNew, Heapify
<1> QED BY <1>1, <1>2, <1>4, <1>5, <1>8, <1>9 DEF Shape, TypeOK

LEMMA InsertUpdateShape ==
    ASSUME Shape, NEW p \in Priority, NEW v \in Value, InsertUpdate(p, v)
    PROVE  Shape'
<1>1. indexMap[v] \in Index
  BY IndexInverse DEF InsertUpdate
<1>2. size' = size /\ values' = values /\ indexMap' = indexMap /\ Index' = Index
  BY DEF InsertUpdate, Index
<1>3. priorities' \in [Index -> Priority]
  BY <1>1 DEF InsertUpdate, With, Shape, TypeOK
<1>4. pc' \in {"rest", "up", "down"} /\ index' \in Index \cup {0}
      /\ (pc' # "rest" => index' \in Index)
  BY <1>1 DEF InsertUpdate, Heapify, Rest
<1> QED BY <1>2, <1>3, <1>4 DEF Shape, TypeOK, IndexMapExact, Index

LEMMA HeapifyUpShape ==
    ASSUME Shape, HeapifyUp
    PROVE  Shape'
<1>1. CASE index > 0 /\ priorities[index] < priorities[Parent(index)]
  <2>1. /\ index \in Index /\ Parent(index) \in Index /\ index # Parent(index)
        /\ Swap(index, Parent(index)) /\ pc' = "up" /\ index' = Parent(index)
    BY <1>1, ParentFacts DEF HeapifyUp, Heapify, Shape, TypeOK, Index
  <2> QED BY <2>1, SwapShape DEF Shape, TypeOK, Index
<1>2. CASE ~(index > 0 /\ priorities[index] < priorities[Parent(index)])
  <2>1. Rest /\ UNCHANGED heap
    BY <1>2 DEF HeapifyUp
  <2> QED BY <2>1 DEF Rest, heap, Shape, TypeOK, IndexMapExact, Index
<1> QED BY <1>1, <1>2

(* What heapifyDown finds: the node, or a child that is below it.          *)
LEMMA SmallestFacts ==
    ASSUME Shape, NEW i \in Index
    PROVE  /\ Smallest(i) \in Index
           /\ \/ Smallest(i) = i
              \/ /\ Smallest(i) \in {2*i + 1, 2*i + 2}
                 /\ priorities[Smallest(i)] < priorities[i]
           /\ \A j \in Index : j \in {2*i + 1, 2*i + 2}
                  => priorities[Smallest(i)] <= priorities[j]
<1>1. \A j \in Index : priorities[j] \in Int
  BY PriorityAssumption DEF Shape, TypeOK
<1>2. i \in Nat /\ size \in Nat
  BY DEF Shape, TypeOK, Index
<1> QED BY <1>1, <1>2 DEF Smallest, Lower, Index

LEMMA HeapifyDownShape ==
    ASSUME Shape, HeapifyDown
    PROVE  Shape'
<1>1. index \in Index
  BY DEF HeapifyDown, Shape, TypeOK
<1>2. CASE Smallest(index) # index
  <2>1. Swap(index, Smallest(index)) /\ pc' = "down" /\ index' = Smallest(index)
    BY <1>2 DEF HeapifyDown, Heapify
  <2> QED BY <1>1, <1>2, <2>1, SwapShape, SmallestFacts DEF Shape, TypeOK, Index
<1>3. CASE Smallest(index) = index
  BY <1>3 DEF HeapifyDown, Rest, heap, Shape, TypeOK, IndexMapExact, Index
<1> QED BY <1>2, <1>3

LEMMA NextShape == Shape /\ [Next]_vars => Shape'
<1> SUFFICES ASSUME Shape, [Next]_vars PROVE Shape'
  OBVIOUS
<1>1. ASSUME NEW p \in Priority, NEW v \in Value, InsertNew(p, v) PROVE Shape'
  BY <1>1, InsertNewShape
<1>2. ASSUME NEW p \in Priority, NEW v \in Value, InsertUpdate(p, v) PROVE Shape'
  BY <1>2, InsertUpdateShape
<1>3. ASSUME NEW v \in Value, Remove(v) PROVE Shape'
  BY <1>3, RemoveAtShape, IndexInverse DEF Remove
<1>4. CASE ExtractMin
  BY <1>4, RemoveAtShape DEF ExtractMin, Shape, TypeOK, Index
<1>5. CASE HeapifyUp
  BY <1>5, HeapifyUpShape
<1>6. CASE HeapifyDown
  BY <1>6, HeapifyDownShape
<1>7. CASE Clear
  BY <1>7 DEF Clear, Shape, TypeOK, IndexMapExact, Index
<1>8. ASSUME UNCHANGED <<heap, pc, index>> PROVE Shape'
  BY <1>8 DEF heap, Shape, TypeOK, IndexMapExact, Index
<1>9. ASSUME NEW v \in Value, RemoveMissing(v) \/ GetPriority(v) PROVE Shape'
  BY <1>8, <1>9 DEF RemoveMissing, GetPriority
<1>10. CASE Peek \/ Empty
  BY <1>8, <1>10 DEF Peek, Empty
<1>11. CASE UNCHANGED vars
  BY <1>8, <1>11 DEF vars
<1> QED
  BY <1>1, <1>2, <1>3, <1>4, <1>5, <1>6, <1>7, <1>9, <1>10, <1>11 DEF Next

(* The slices and the index map always fit together, also inside the       *)
(* heapify loops: no method indexes a slice out of its bounds.             *)
THEOREM ShapeInvariant == Spec => []Shape
<1>1. Shape /\ [Next]_vars => Shape'
  BY NextShape
<1> QED BY InitShape, <1>1, PTL DEF Spec
-----------------------------------------------------------------------------
(* The heap order.  Ordered compares an entry with its parent; for a slot  *)
(* whose own priority and parent's do not change it is kept.               *)
LEMMA PriorityFacts ==
    ASSUME Shape
    PROVE  /\ size \in Nat
           /\ \A i \in Index : i \in Nat /\ i < size /\ priorities[i] \in Int
           /\ \A i \in Index \ {0} : Parent(i) \in Index /\ Parent(i) < i
<1>1. \A i \in Index : priorities[i] \in Int
  BY PriorityAssumption DEF Shape, TypeOK
<1>2. size \in Nat
  BY DEF Shape, TypeOK
<1>3. \A i \in Index \ {0} : Parent(i) \in Index /\ Parent(i) < i
  BY <1>2, ParentFacts DEF Index
<1> QED BY <1>1, <1>2, <1>3 DEF Index

LEMMA InsertNewOrder ==
    ASSUME Shape, HeapOrder, NEW p \in Priority, NEW v \in Value, InsertNew(p, v)
    PROVE  HeapOrder'
<1>1. /\ pc = "rest" /\ pc' = "up" /\ index' = size
      /\ size \in Nat /\ Index' = Index \cup {size}
      /\ \A i \in Index : priorities'[i] = priorities[i]
  BY DEF InsertNew, Heapify, With, Shape, TypeOK, Index
<1>2. \A i \in Index' \ {0} : Parent(i) \in Index /\ Parent(i) # size
  BY <1>1, ParentFacts DEF Index
<1> QED BY <1>1, <1>2 DEF HeapOrder, Ordered, Index

LEMMA InsertUpdateOrder ==
    ASSUME Shape, HeapOrder, NEW p \in Priority, NEW v \in Value, InsertUpdate(p, v)
    PROVE  HeapOrder'
<1> DEFINE i == indexMap[v]
<1>1. i \in Index /\ p \in Int
  BY IndexInverse, PriorityAssumption DEF InsertUpdate
<1>2. Index' = Index
  BY DEF InsertUpdate, Index
<1>3. \A j \in Index : priorities'[j] = IF j = i THEN p ELSE priorities[j]
  BY <1>1 DEF InsertUpdate, With, Shape, TypeOK
<1>4. \A j \in Index \ {0} : Parent(j) \in Index /\ Parent(j) # j
  BY PriorityFacts
<1>5. \A j \in Index : priorities[j] \in Int
  BY PriorityFacts
<1>6. \A j \in Index \ {0} : priorities[Parent(j)] <= priorities[j]
  BY DEF HeapOrder, Ordered, InsertUpdate
<1>7. \A j \in Index : j > 0 <=> j \in Index \ {0}
  BY PriorityFacts
<1>8. CASE p < priorities[i] /\ pc' = "up" /\ index' = i
  BY <1>1, <1>2, <1>3, <1>4, <1>5, <1>6, <1>7, <1>8 DEF HeapOrder, Ordered
<1>9. CASE p > priorities[i] /\ pc' = "down" /\ index' = i
  BY <1>1, <1>2, <1>3, <1>4, <1>5, <1>6, <1>7, <1>9 DEF HeapOrder, Ordered
<1>10. CASE p = priorities[i] /\ pc' = "rest"
  BY <1>1, <1>2, <1>3, <1>4, <1>5, <1>6, <1>7, <1>10 DEF HeapOrder, Ordered
<1> QED BY <1>8, <1>9, <1>10 DEF InsertUpdate, Heapify, Rest

LEMMA RemoveAtOrder ==
    ASSUME Shape, HeapOrder, pc = "rest", NEW i \in Index, RemoveAt(i)
    PROVE  HeapOrder'
<1> DEFINE last == size - 1
           p == priorities[last]
<1>1. last \in Index /\ Index' = Index \ {last} /\ last \in Nat
  BY DEF RemoveAt, Shape, TypeOK, Index
<1>2. \A j \in Index' : priorities'[j] = IF j = i THEN p ELSE priorities[j]
  BY <1>1 DEF RemoveAt, With, Without, Shape, TypeOK
<1>3. \A j \in Index : priorities[j] \in Int
  BY PriorityFacts
<1>4. \A j \in Index' \ {0} : Parent(j) \in Index' /\ Parent(j) # j
  BY <1>1, PriorityFacts DEF Index
<1>5. \A j \in Index \ {0} : priorities[Parent(j)] <= priorities[j]
  BY DEF HeapOrder, Ordered
<1>6. \A j \in Index : j > 0 <=> j \in Index \ {0}
  BY PriorityFacts
<1>10. \A j \in Index' \ {0} :
          /\ j \in Index /\ j \in Index' /\ Parent(j) \in Index
          /\ priorities[Parent(j)] <= priorities[j]
          /\ priorities'[j] = IF j = i THEN p ELSE priorities[j]
          /\ priorities'[Parent(j)] = IF Parent(j) = i THEN p ELSE priorities[Parent(j)]
          /\ Parent(j) # j
          /\ priorities[j] \in Int /\ priorities[Parent(j)] \in Int
  BY <1>1, <1>2, <1>3, <1>4, <1>5
<1>11. p \in Int /\ priorities[i] \in Int
  BY <1>1, <1>3
<1>12. i > 0 => /\ Parent(i) # i /\ priorities[Parent(i)] \in Int
                /\ priorities[Parent(i)] <= priorities[i]
                /\ i # last => priorities'[Parent(i)] = priorities[Parent(i)]
  <2> SUFFICES ASSUME i > 0
               PROVE  /\ Parent(i) # i /\ priorities[Parent(i)] \in Int
                      /\ priorities[Parent(i)] <= priorities[i]
                      /\ i # last => priorities'[Parent(i)] = priorities[Parent(i)]
    OBVIOUS
  <2>1. i \in Index \ {0}
    BY <1>6
  <2>2. Parent(i) \in Index /\ Parent(i) # i /\ priorities[Parent(i)] <= priorities[i]
    BY <1>5, <2>1, PriorityFacts
  <2>3. i # last => i \in Index' \ {0}
    BY <1>1, <2>1
  <2>4. priorities[Parent(i)] \in Int
    BY <1>3, <2>2
  <2> HIDE DEF last, p
  <2> QED BY <1>10, <2>2, <2>3, <2>4
<1>7. CASE i = last
  <2>1. pc' = "rest"
    BY <1>7 DEF RemoveAt, Rest
  <2> QED BY <1>1, <1>2, <1>4, <1>5, <1>7, <2>1 DEF HeapOrder, Ordered
<1>8. CASE i # last /\ i > 0 /\ p < priorities[Parent(i)]
  <2>1. pc' = "up" /\ index' = i
    BY <1>8 DEF RemoveAt, Heapify
  <2> HIDE DEF last, p
  <2>2. \A j \in Index' \ {0} : j # i
                                => priorities'[Parent(j)] <= priorities'[j]
    BY <1>10, <1>11, <1>12, <1>8
  <2>3. \A j \in Index' \ {0} : Parent(j) = i /\ i > 0
                                => priorities'[Parent(i)] <= priorities'[j]
    BY <1>10, <1>11, <1>12, <1>8
  <2> QED BY <2>1, <2>2, <2>3 DEF HeapOrder, Ordered
<1>9. CASE i # last /\ ~(i > 0 /\ p < priorities[Parent(i)])
  <2>1. pc' = "down" /\ index' = i
    BY <1>9 DEF RemoveAt, Heapify
  <2> HIDE DEF last, p
  <2>2. \A j \in Index' \ {0} : Parent(j) # i
                                => priorities'[Parent(j)] <= priorities'[j]
    BY <1>6, <1>10, <1>11, <1>12, <1>9
  <2>3. \A j \in Index' \ {0} : Parent(j) = i /\ i > 0
                                => priorities'[Parent(i)] <= priorities'[j]
    BY <1>10, <1>11, <1>12, <1>9
  <2> QED BY <2>1, <2>2, <2>3 DEF HeapOrder, Ordered
<1> QED BY <1>7, <1>8, <1>9

LEMMA SwapPriorities ==
    ASSUME Shape, NEW i \in Index, NEW j \in Index, Swap(i, j)
    PROVE  /\ Index' = Index
           /\ \A k \in Index : priorities'[k] = IF k = i THEN priorities[j]
                                              ELSE IF k = j THEN priorities[i]
                                              ELSE priorities[k]
  BY DEF Swap, Exchange, Shape, TypeOK, Index

LEMMA HeapifyUpOrder ==
    ASSUME Shape, HeapOrder, HeapifyUp
    PROVE  HeapOrder'
<1> DEFINE q == Parent(index)
<1>1. index \in Index /\ pc = "up"
  BY DEF HeapifyUp, Shape, TypeOK
<1>2. /\ \A j \in Index : priorities[j] \in Int
      /\ \A j \in Index \ {0} : Parent(j) \in Index /\ Parent(j) < j
      /\ \A j \in Index : j \in Nat
  BY PriorityFacts
<1>3. CASE index > 0 /\ priorities[index] < priorities[q]
  <2>1. q \in Index /\ q # index /\ Swap(index, q) /\ pc' = "up" /\ index' = q
    BY <1>1, <1>2, <1>3 DEF HeapifyUp, Heapify
  <2>2. /\ Index' = Index
        /\ \A k \in Index : priorities'[k] = IF k = index THEN priorities[q]
                                           ELSE IF k = q THEN priorities[index]
                                           ELSE priorities[k]
    BY <1>1, <2>1, SwapPriorities
  <2> HIDE DEF q
  <2>3. \A j \in Index \ {0} : j # index => priorities[Parent(j)] <= priorities[j]
    BY <1>1 DEF HeapOrder, Ordered
  <2>4. \A j \in Index \ {0} : Parent(j) = index => priorities[q] <= priorities[j]
    BY <1>1, <1>3 DEF HeapOrder, q
  <2>5. \A j \in Index \ {0} : j # q => priorities'[Parent(j)] <= priorities'[j]
    BY <1>1, <1>2, <1>3, <2>1, <2>2, <2>3, <2>4 DEF q
  <2>6. \A j \in Index \ {0} : Parent(j) = q /\ q > 0
                              => priorities'[Parent(q)] <= priorities'[j]
    BY <1>1, <1>2, <1>3, <2>1, <2>2, <2>3 DEF q
  <2> QED BY <2>1, <2>2, <2>5, <2>6 DEF HeapOrder, Ordered
<1>4. CASE ~(index > 0 /\ priorities[index] < priorities[q])
  <2>1. pc' = "rest" /\ UNCHANGED heap
    BY <1>4 DEF HeapifyUp, Rest
  <2> QED BY <1>1, <1>2, <1>4, <2>1 DEF heap, HeapOrder, Ordered, Index
<1> QED BY <1>3, <1>4

LEMMA HeapifyDownOrder ==
    ASSUME Shape, HeapOrder, HeapifyDown
    PROVE  HeapOrder'
<1> DEFINE s == Smallest(index)
<1>1. index \in Index /\ pc = "down" /\ index \in Nat
  BY DEF HeapifyDown, Shape, TypeOK
<1>2. /\ \A j \in Index : priorities[j] \in Int
      /\ \A j \in Index \ {0} : Parent(j) \in Index /\ Parent(j) < j
      /\ \A j \in Index : j \in Nat
  BY PriorityFacts
<1>3. \A j \in Index \ {0} : Parent(j) = index => j \in {2*index + 1, 2*index + 2}
  BY <1>2, ParentFacts
<1>4. /\ s \in Index
      /\ s = index \/ (s \in {2*index + 1, 2*index + 2} /\ priorities[s] < priorities[index])
      /\ \A j \in Index \ {0} : Parent(j) = index => priorities[s] <= priorities[j]
  BY <1>1, <1>3, SmallestFacts
<1>5. \A j \in Index \ {0} : Parent(j) # index => priorities[Parent(j)] <= priorities[j]
  BY <1>1 DEF HeapOrder, Ordered
<1>6. CASE s # index
  <2>1. Swap(index, s) /\ pc' = "down" /\ index' = s
    BY <1>6 DEF HeapifyDown, Heapify
  <2>2. Parent(s) = index /\ s # 0
    BY <1>1, <1>4, <1>6 DEF Parent
  <2> HIDE DEF s
  <2>3. /\ Index' = Index
        /\ \A k \in Index : priorities'[k] = IF k = index THEN priorities[s]
                                           ELSE IF k = s THEN priorities[index]
                                           ELSE priorities[k]
    BY <1>1, <1>4, <2>1, SwapPriorities
  <2>4. \A j \in Index \ {0} : Parent(j) = index /\ index > 0
                              => priorities[Parent(index)] <= priorities[j]
    BY <1>1 DEF HeapOrder
  <2>5. \A j \in Index \ {0} : Parent(j) # s => priorities'[Parent(j)] <= priorities'[j]
    <3> SUFFICES ASSUME NEW j \in Index \ {0}, Parent(j) # s
                 PROVE  priorities'[Parent(j)] <= priorities'[j]
      OBVIOUS
    <3>1. Parent(j) \in Index /\ Parent(j) # j /\ j \in Index
      BY <1>2
    <3>2. CASE j = s
      BY <1>1, <1>2, <1>4, <1>6, <2>2, <2>3, <3>2
    <3>3. CASE j = index
      <4>1. priorities[Parent(index)] <= priorities[s]
        <5>1. s \in Index \ {0} /\ index > 0
          BY <1>1, <1>4, <2>2, <3>3
        <5> QED BY <2>2, <2>4, <5>1
      <4>2. priorities'[Parent(j)] = priorities[Parent(j)] /\ priorities'[j] = priorities[s]
        BY <2>3, <3>1, <3>3
      <4> QED BY <3>3, <4>1, <4>2
    <3>4. CASE j # s /\ j # index /\ Parent(j) = index
      <4>1. priorities[s] <= priorities[j]
        BY <1>4, <3>4
      <4>2. priorities'[Parent(j)] = priorities[s] /\ priorities'[j] = priorities[j]
        BY <2>3, <3>1, <3>4
      <4> QED BY <4>1, <4>2
    <3>5. CASE j # s /\ j # index /\ Parent(j) # index
      BY <1>5, <2>3, <3>1, <3>5
    <3> QED BY <3>2, <3>3, <3>4, <3>5
  <2>6. \A j \in Index \ {0} : Parent(j) = s => priorities'[Parent(s)] <= priorities'[j]
    BY <1>1, <1>2, <1>4, <1>5, <1>6, <2>2, <2>3
  <2> QED BY <2>1, <2>3, <2>5, <2>6 DEF HeapOrder, Ordered
<1>7. CASE s = index
  <2>1. pc' = "rest" /\ UNCHANGED heap
    BY <1>7 DEF HeapifyDown, Rest
  <2> QED BY <1>1, <1>4, <1>5, <1>7, <2>1 DEF heap, HeapOrder, Ordered, Index
<1> QED BY <1>6, <1>7

LEMMA NextOrder == Shape /\ HeapOrder /\ [Next]_vars => HeapOrder'
<1> SUFFICES ASSUME Shape, HeapOrder, [Next]_vars PROVE HeapOrder'
  OBVIOUS
<1>1. ASSUME NEW p \in Priority, NEW v \in Value, InsertNew(p, v) PROVE HeapOrder'
  BY <1>1, InsertNewOrder
<1>2. ASSUME NEW p \in Priority, NEW v \in Value, InsertUpdate(p, v) PROVE HeapOrder'
  BY <1>2, InsertUpdateOrder
<1>3. ASSUME NEW v \in Value, Remove(v) PROVE HeapOrder'
  BY <1>3, RemoveAtOrder, IndexInverse DEF Remove
<1>4. CASE ExtractMin
  BY <1>4, RemoveAtOrder DEF ExtractMin, Shape, TypeOK, Index
<1>5. CASE HeapifyUp
  BY <1>5, HeapifyUpOrder
<1>6. CASE HeapifyDown
  BY <1>6, HeapifyDownOrder
<1>7. CASE Clear
  BY <1>7 DEF Clear, HeapOrder, Index
<1>8. ASSUME UNCHANGED <<heap, pc, index>> PROVE HeapOrder'
  BY <1>8 DEF heap, HeapOrder, Ordered, Index
<1>9. ASSUME NEW v \in Value, RemoveMissing(v) \/ GetPriority(v) PROVE HeapOrder'
  BY <1>8, <1>9 DEF RemoveMissing, GetPriority
<1>10. CASE Peek \/ Empty
  BY <1>8, <1>10 DEF Peek, Empty
<1>11. CASE UNCHANGED vars
  BY <1>8, <1>11 DEF vars
<1> QED
  BY <1>1, <1>2, <1>3, <1>4, <1>5, <1>6, <1>7, <1>9, <1>10, <1>11 DEF Next

(* The order broken only where a loop still works on it: HeapOrder is the  *)
(* strengthening of ValidAtRest that every loop iteration keeps.           *)
THEOREM HeapInvariant == Spec => [](Shape /\ HeapOrder)
<1>1. Init => HeapOrder
  BY DEF Init, HeapOrder, Index
<1>2. Shape /\ HeapOrder /\ [Next]_vars => (Shape /\ HeapOrder)'
  BY NextShape, NextOrder
<1> QED BY InitShape, <1>1, <1>2, PTL DEF Spec

(* The index map stays exact and the order nearly whole, also between two  *)
(* iterations of a heapify loop.                                           *)
THEOREM HeapCorrect == Spec => []HeapInv
<1>1. Shape /\ HeapOrder => HeapInv
  BY DEF Shape, HeapInv
<1> QED BY HeapInvariant, <1>1, PTL

(* Every method leaves a heap (what Validate() checks of the order).       *)
THEOREM HeapValid == Spec => []ValidAtRest
<1>1. Shape /\ HeapOrder => ValidAtRest
  BY DEF HeapOrder, ValidAtRest
<1> QED BY HeapInvariant, <1>1, PTL

(* Every index and slice access of every method is inside its bounds.      *)
THEOREM TypeCorrect == Spec => []TypeOK
<1>1. Shape => TypeOK
  BY DEF Shape
<1> QED BY ShapeInvariant, <1>1, PTL
-----------------------------------------------------------------------------
(* In a heap no entry is below the root: the least index of an entry that  *)
(* were would have a parent that is below the root too.                    *)
LEMMA RootIsLeast ==
    ASSUME Shape, HeapOrder, pc = "rest", NEW i \in Index
    PROVE  0 \in Index /\ priorities[0] <= priorities[i]
<1> DEFINE T == {j \in Index : ~(priorities[0] <= priorities[j])}
<1>1. 0 \in Index
  BY PriorityFacts DEF Index
<1>2. SUFFICES ASSUME T # {} PROVE FALSE
  BY <1>1
<1>3. T \subseteq Nat
  BY PriorityFacts
<1>4. PICK k \in T : \A j \in T : ~ (<<j, k>> \in OpToRel(<, Nat))
  BY <1>2, <1>3, NatLessThanWellFounded, WFMin
<1>5. k \in Index \ {0} /\ k \in Nat
  BY <1>1, <1>3, PriorityFacts
<1>6. /\ Parent(k) \in Index /\ Parent(k) \in Nat /\ Parent(k) < k
      /\ priorities[Parent(k)] <= priorities[k]
  BY <1>5, PriorityFacts DEF HeapOrder, Ordered
<1>7. Parent(k) \in T
  BY <1>1, <1>5, <1>6, PriorityFacts
<1>8. <<Parent(k), k>> \in OpToRel(<, Nat)
  BY <1>5, <1>6 DEF OpToRel
<1> QED BY <1>4, <1>7, <1>8

-----------------------------------------------------------------------------
(* How each method changes the callers' view of the heap.                  *)
LEMMA InsertNewMap ==
    ASSUME Shape, NEW p \in Priority, NEW v \in Value, InsertNew(p, v)
    PROVE  map' = With(map, v, p)
<1>1. size \notin Index /\ size \in Nat
  BY DEF Shape, TypeOK, Index
<1>2. \A i \in Index : priorities'[i] = priorities[i]
  BY <1>1 DEF InsertNew, With, Shape, TypeOK
<1>3. priorities'[size] = p
  BY DEF InsertNew, With
<1>4. /\ v \notin DOMAIN indexMap
      /\ DOMAIN indexMap' = DOMAIN indexMap \cup {v}
      /\ \A u \in DOMAIN indexMap' : indexMap'[u] = IF u = v THEN size ELSE indexMap[u]
  BY DEF InsertNew, With
<1>5. \A u \in DOMAIN indexMap : priorities'[indexMap[u]] = priorities[indexMap[u]]
  BY <1>2, IndexInverse
<1>6. \A u \in DOMAIN indexMap' :
         priorities'[indexMap'[u]] = IF u = v THEN p ELSE map[u]
  BY <1>3, <1>4, <1>5 DEF map
<1> QED BY <1>4, <1>6 DEF map, With

LEMMA InsertUpdateMap ==
    ASSUME Shape, NEW p \in Priority, NEW v \in Value, InsertUpdate(p, v)
    PROVE  map' = With(map, v, p)
<1>1. indexMap' = indexMap /\ v \in DOMAIN indexMap
  BY DEF InsertUpdate
<1>2. \A i \in Index : priorities'[i] = IF i = indexMap[v] THEN p ELSE priorities[i]
  BY <1>1, IndexInverse DEF InsertUpdate, With, Shape, TypeOK
<1>3. \A u \in DOMAIN indexMap :
         priorities'[indexMap[u]] = IF u = v THEN p ELSE priorities[indexMap[u]]
  BY <1>1, <1>2, IndexInverse
<1> QED BY <1>1, <1>3 DEF map, With

LEMMA RemoveAtMap ==
    ASSUME Shape, NEW i \in Index, RemoveAt(i)
    PROVE  map' = Without(map, values[i])
<1> DEFINE last == size - 1
<1>1. last \in Index /\ last \in Nat /\ Index' = Index \ {last}
  BY DEF RemoveAt, Shape, TypeOK, Index
<1>2. \A j \in Index' : priorities'[j] = IF j = i THEN priorities[last] ELSE priorities[j]
  BY <1>1 DEF RemoveAt, With, Without, Shape, TypeOK
<1>3. DOMAIN indexMap' = DOMAIN indexMap \ {values[i]}
  BY <1>1 DEF RemoveAt, With, Without, Shape, IndexMapExact
<1>4. \A v \in DOMAIN indexMap' :
         indexMap'[v] = IF v = values[last] THEN i ELSE indexMap[v]
  BY <1>1, <1>3 DEF RemoveAt, With, Without, Shape, IndexMapExact
<1>5. ASSUME NEW v \in DOMAIN indexMap' PROVE priorities'[indexMap'[v]] = priorities[indexMap[v]]
  <2>1. v \in DOMAIN indexMap /\ v # values[i]
    BY <1>3
  <2>2. indexMap[v] \in Index /\ values[indexMap[v]] = v
    BY <2>1, IndexInverse
  <2>3. CASE v = values[last]
    <3>1. indexMap[v] = last /\ i # last
      BY <1>1, <2>1, <2>2, <2>3, IndexInjective
    <3> QED BY <1>1, <1>2, <1>4, <2>3, <3>1
  <2>4. CASE v # values[last]
    <3>1. indexMap[v] # last /\ indexMap[v] # i
      BY <2>1, <2>2, <2>4
    <3> QED BY <1>1, <1>2, <1>4, <2>2, <2>4, <3>1
  <2> QED BY <2>3, <2>4
<1> QED BY <1>3, <1>5 DEF map, Without

LEMMA SwapMap ==
    ASSUME Shape, NEW i \in Index, NEW j \in Index, i # j, Swap(i, j)
    PROVE  map' = map
<1>1. values[i] # values[j]
  BY IndexInjective
<1>2. /\ DOMAIN indexMap' = DOMAIN indexMap
      /\ \A v \in DOMAIN indexMap :
            indexMap'[v] = IF v = values[j] THEN i
                           ELSE IF v = values[i] THEN j ELSE indexMap[v]
  BY <1>1 DEF Swap, Shape, TypeOK
<1>3. \A k \in Index : priorities'[k] = IF k = i THEN priorities[j]
                                        ELSE IF k = j THEN priorities[i]
                                        ELSE priorities[k]
  BY SwapPriorities
<1>4. ASSUME NEW v \in DOMAIN indexMap PROVE priorities'[indexMap'[v]] = priorities[indexMap[v]]
  <2>1. indexMap[v] \in Index /\ values[indexMap[v]] = v
    BY IndexInverse
  <2>2. indexMap[values[i]] = i /\ indexMap[values[j]] = j
    BY DEF Shape, IndexMapExact
  <2> QED BY <1>1, <1>2, <1>3, <2>1, <2>2
<1> QED BY <1>2, <1>4 DEF map

(* What Peek and ExtractMin return.                                        *)
LEMMA RootInMinima ==
    ASSUME Shape, HeapOrder, pc = "rest", size > 0
    PROVE  values[0] \in Minima(map) /\ map[values[0]] = priorities[0]
<1>1. 0 \in Index
  BY DEF Shape, TypeOK, Index
<1>2. values[0] \in DOMAIN indexMap /\ indexMap[values[0]] = 0
  BY <1>1 DEF Shape, IndexMapExact
<1>3. map[values[0]] = priorities[0]
  BY <1>2 DEF map
<1>4. \A v \in DOMAIN map : map[values[0]] <= map[v]
  BY <1>3, RootIsLeast, IndexInverse DEF map
<1> QED BY <1>2, <1>3, <1>4 DEF Minima, map

(* The instance reads the operators of Maps as this module does.           *)
LEMMA SameMaps ==
    /\ \A m, k, x : Abstract!With(m, k, x) = With(m, k, x)
    /\ \A m, k : Abstract!Without(m, k) = Without(m, k)
    /\ \A m : Abstract!Minima(m) = Minima(m)
  BY DEF Abstract!With, With, Abstract!Without, Without, Abstract!Minima, Minima

(* The heap is a correct priority queue for every set of values and every  *)
(* set of integer priorities: each method's first step is the operation of *)
(* AbstractPriorityQueue, and each heapify iteration is a stutter.         *)
THEOREM Refinement == Spec => ImplementsMap
<1>1. Init => Abstract!Init
  BY DEF Init, Abstract!Init, map, Answer, Abstract!Answer
<1>2. Shape /\ HeapOrder /\ [Next]_vars => [Abstract!Next]_(Abstract!vars)
  <2> SUFFICES ASSUME Shape, HeapOrder, [Next]_vars
               PROVE  [Abstract!Next]_(Abstract!vars)
    OBVIOUS
  <2> USE DEF Abstract!Answer, Abstract!Entry, Answer, Entry
  <2>0. DOMAIN map = DOMAIN indexMap /\ \A v \in DOMAIN indexMap : map[v] = priorities[indexMap[v]]
    BY DEF map
  <2>1. ASSUME NEW p \in Priority, NEW v \in Value, InsertNew(p, v)
        PROVE  Abstract!Insert(p, v)
    BY <2>0, <2>1, InsertNewMap, SameMaps DEF Abstract!Insert, InsertNew
  <2>2. ASSUME NEW p \in Priority, NEW v \in Value, InsertUpdate(p, v)
        PROVE  Abstract!Insert(p, v)
    BY <2>0, <2>2, InsertUpdateMap, SameMaps DEF Abstract!Insert, InsertUpdate
  <2>3. ASSUME NEW v \in Value, Remove(v)
        PROVE  Abstract!Remove(v)
    <3>1. v \in DOMAIN indexMap /\ indexMap[v] \in Index /\ values[indexMap[v]] = v
      BY <2>3, IndexInverse DEF Remove
    <3> QED BY <2>0, <2>3, <3>1, RemoveAtMap, SameMaps DEF Abstract!Remove, Remove
  <2>4. ASSUME ExtractMin
        PROVE  Abstract!ExtractMin
    <3>1. values[0] \in Minima(map) /\ map[values[0]] = priorities[0] /\ 0 \in Index
      BY <2>4, RootInMinima DEF ExtractMin, Shape, TypeOK, Index
    <3> QED BY <2>4, <3>1, RemoveAtMap, SameMaps DEF Abstract!ExtractMin, ExtractMin
  <2>5. ASSUME Peek
        PROVE  Abstract!Peek
    BY <2>5, RootInMinima, SameMaps DEF Abstract!Peek, Peek, heap, map
  <2>6. ASSUME Empty
        PROVE  Abstract!Empty
    BY <2>0, <2>6 DEF Abstract!Empty, Empty, heap, map, Shape, TypeOK, IndexMapExact, Index
  <2>7. ASSUME NEW v \in Value, RemoveMissing(v)
        PROVE  Abstract!Remove(v)
    <3>1. map' = Without(map, v)
      BY <2>0, <2>7 DEF RemoveMissing, Without, heap, map
    <3>2. (v \in DOMAIN map) = FALSE
      BY <2>0, <2>7 DEF RemoveMissing
    <3> QED BY <2>7, <3>1, <3>2, SameMaps DEF Abstract!Remove, RemoveMissing
  <2>8. ASSUME NEW v \in Value, GetPriority(v)
        PROVE  Abstract!GetPriority(v)
    BY <2>0, <2>8 DEF Abstract!GetPriority, GetPriority, heap, map
  <2>9. ASSUME Clear
        PROVE  Abstract!Clear
    BY <2>9 DEF Abstract!Clear, Clear, map
  <2>10. CASE HeapifyUp
    <3>1. map' = map
      <4>1. CASE index > 0 /\ priorities[index] < priorities[Parent(index)]
        BY <2>10, <4>1, SwapMap, PriorityFacts DEF HeapifyUp, Shape, TypeOK
      <4>2. CASE ~(index > 0 /\ priorities[index] < priorities[Parent(index)])
        BY <2>10, <4>2 DEF HeapifyUp, heap, map
      <4> QED BY <4>1, <4>2
    <3> QED BY <2>10, <3>1 DEF HeapifyUp, Abstract!vars
  <2>11. CASE HeapifyDown
    <3>1. map' = map
      <4>1. index \in Index
        BY <2>11 DEF HeapifyDown, Shape, TypeOK
      <4>2. CASE Smallest(index) # index
        BY <2>11, <4>1, <4>2, SwapMap, SmallestFacts DEF HeapifyDown
      <4>3. CASE Smallest(index) = index
        BY <2>11, <4>3 DEF HeapifyDown, heap, map
      <4> QED BY <4>2, <4>3
    <3> QED BY <2>11, <3>1 DEF HeapifyDown, Abstract!vars
  <2>12. CASE UNCHANGED vars
    BY <2>12 DEF vars, heap, map, Abstract!vars
  <2> QED
    BY <2>1, <2>2, <2>3, <2>4, <2>5, <2>6, <2>7, <2>8, <2>9, <2>10, <2>11, <2>12
       DEF Next, Abstract!Next
<1> QED BY <1>1, <1>2, HeapInvariant, PTL DEF Spec, ImplementsMap, Abstract!Spec
=============================================================================
