---------------------------- MODULE HashMapProofs ----------------------------
(***************************************************************************)
(* The slices of HashMap stay consistent with its index map, and implement *)
(* KeyValueMap, for every set of keys and every set of values.             *)
(***************************************************************************)
EXTENDS HashMap, TLAPS

Exact == TypeOK /\ IndexMapExact

Inv == Exact /\ SnapshotExact

LEMMA IndexInverse ==
    ASSUME Exact, NEW k \in DOMAIN indexMap
    PROVE  indexMap[k] \in Index /\ keys[indexMap[k]] = k
<1>1. PICK i \in Index : k = keys[i]
  BY DEF Exact, IndexMapExact
<1> QED BY <1>1 DEF Exact, IndexMapExact

LEMMA IndexInjective ==
    ASSUME Exact, NEW i \in Index, NEW j \in Index, keys[i] = keys[j]
    PROVE  i = j
  BY DEF Exact, IndexMapExact

LEMMA InitInv == Init => Inv
  BY DEF Init, Empty, Inv, Exact, TypeOK, IndexMapExact, SnapshotExact, Index

LEMMA PutNewExact ==
    ASSUME Exact, NEW k \in Key, NEW x \in Val, PutNew(k, x)
    PROVE  Exact' /\ map' = With(map, k, x)
<1>1. size \in Nat /\ size' = size + 1 /\ Index' = Index \cup {size} /\ size \notin Index
  BY DEF PutNew, Exact, TypeOK, Index
<1>2. keys' \in [Index' -> Key] /\ values' \in [Index' -> Val]
  BY <1>1 DEF PutNew, With, Exact, TypeOK
<1>3. \A i \in Index' : /\ keys'[i] = IF i = size THEN k ELSE keys[i]
                        /\ values'[i] = IF i = size THEN x ELSE values[i]
  BY <1>1 DEF PutNew, With, Exact, TypeOK
<1>4. /\ k \notin DOMAIN indexMap
      /\ DOMAIN indexMap' = DOMAIN indexMap \cup {k}
      /\ \A j \in DOMAIN indexMap' : indexMap'[j] = IF j = k THEN size ELSE indexMap[j]
  BY DEF PutNew, With
<1>5. indexMap' \in [DOMAIN indexMap' -> Index']
  BY <1>1, <1>4 DEF PutNew, With, Exact, TypeOK
<1>6. \A i \in Index' : keys'[i] \in DOMAIN indexMap' /\ indexMap'[keys'[i]] = i
  BY <1>1, <1>3, <1>4 DEF Exact, IndexMapExact
<1>7. \A j \in DOMAIN indexMap' : \E i \in Index' : j = keys'[i]
  BY <1>1, <1>3, <1>4, IndexInverse
<1>8. IndexMapExact'
  BY <1>6, <1>7 DEF IndexMapExact
<1>9. Exact'
  BY <1>1, <1>2, <1>4, <1>5, <1>8 DEF Exact, TypeOK
<1>10. \A j \in DOMAIN indexMap' : values'[indexMap'[j]] = IF j = k THEN x ELSE map[j]
  <2> SUFFICES ASSUME NEW j \in DOMAIN indexMap'
               PROVE  values'[indexMap'[j]] = IF j = k THEN x ELSE map[j]
    OBVIOUS
  <2>1. CASE j = k
    BY <1>1, <1>3, <1>4, <2>1
  <2>2. CASE j # k
    BY <1>1, <1>3, <1>4, <2>2, IndexInverse DEF map
  <2> QED BY <2>1, <2>2
<1> QED BY <1>4, <1>9, <1>10 DEF map, With

LEMMA PutOldExact ==
    ASSUME Exact, NEW k \in Key, NEW x \in Val, PutOld(k, x)
    PROVE  Exact' /\ map' = With(map, k, x)
<1>1. k \in DOMAIN indexMap /\ indexMap[k] \in Index
  BY IndexInverse DEF PutOld
<1>2. size' = size /\ keys' = keys /\ indexMap' = indexMap /\ Index' = Index
  BY DEF PutOld, Index
<1>3. /\ values' \in [Index -> Val]
      /\ \A i \in Index : values'[i] = IF i = indexMap[k] THEN x ELSE values[i]
  BY <1>1 DEF PutOld, With, Exact, TypeOK
<1>4. Exact'
  BY <1>2, <1>3 DEF Exact, TypeOK, IndexMapExact
<1>5. \A j \in DOMAIN indexMap : values'[indexMap[j]] = IF j = k THEN x ELSE values[indexMap[j]]
  BY <1>1, <1>3, IndexInverse
<1> QED BY <1>1, <1>2, <1>4, <1>5 DEF map, With

LEMMA RemoveExact ==
    ASSUME Exact, NEW k \in Key, Remove(k)
    PROVE  Exact' /\ map' = Without(map, k)
<1> DEFINE i == indexMap[k]
           last == size - 1
<1>1. /\ k \in DOMAIN indexMap /\ i \in Index /\ keys[i] = k
      /\ last \in Nat /\ last \in Index /\ size' = last
  BY IndexInverse DEF Remove, Exact, TypeOK, Index
<1>2. Index' = Index \ {last}
  BY <1>1 DEF Index, Exact, TypeOK
<1>3. keys' \in [Index' -> Key] /\ values' \in [Index' -> Val]
  BY <1>1, <1>2 DEF Remove, With, Without, Exact, TypeOK
<1>4. \A j \in Index' : /\ keys'[j] = IF j = i THEN keys[last] ELSE keys[j]
                        /\ values'[j] = IF j = i THEN values[last] ELSE values[j]
  BY <1>1, <1>2 DEF Remove, With, Without, Exact, TypeOK
<1>5. DOMAIN indexMap' = DOMAIN indexMap \ {k}
  BY <1>1 DEF Remove, With, Without, Exact, IndexMapExact
<1>6. \A j \in DOMAIN indexMap' :
         indexMap'[j] = IF j = keys[last] THEN i ELSE indexMap[j]
  BY <1>1, <1>5 DEF Remove, With, Without, Exact, IndexMapExact
<1>7. \A j \in Index' : keys'[j] \in DOMAIN indexMap' /\ indexMap'[keys'[j]] = j
  <2> SUFFICES ASSUME NEW j \in Index'
               PROVE  keys'[j] \in DOMAIN indexMap' /\ indexMap'[keys'[j]] = j
    OBVIOUS
  <2>1. j \in Index /\ j # last
    BY <1>2
  <2>2. CASE j = i
    BY <2>1, <2>2, <1>1, <1>4, <1>5, <1>6, IndexInjective DEF Exact, IndexMapExact
  <2>3. CASE j # i
    BY <2>1, <2>3, <1>1, <1>4, <1>5, <1>6, IndexInjective DEF Exact, IndexMapExact
  <2> QED BY <2>2, <2>3
<1>8. \A j \in DOMAIN indexMap' : \E n \in Index' : j = keys'[n]
  <2> SUFFICES ASSUME NEW j \in DOMAIN indexMap'
               PROVE  \E n \in Index' : j = keys'[n]
    OBVIOUS
  <2>1. j \in DOMAIN indexMap /\ j # keys[i]
    BY <1>1, <1>5
  <2>2. CASE j = keys[last]
    BY <2>1, <2>2, <1>1, <1>2, <1>4
  <2>3. CASE j # keys[last]
    BY <2>1, <2>3, <1>1, <1>2, <1>4, IndexInverse
  <2> QED BY <2>2, <2>3
<1>9. DOMAIN indexMap' = {keys'[j] : j \in Index'}
  BY <1>7, <1>8
<1>10. indexMap' \in [DOMAIN indexMap' -> Index']
  <2>1. \A j \in DOMAIN indexMap' : indexMap'[j] \in Index'
    BY <1>7, <1>8
  <2>2. indexMap' = [j \in DOMAIN indexMap' |-> indexMap'[j]]
    BY DEF Remove, With, Without
  <2> QED BY <2>1, <2>2
<1>11. Exact'
  BY <1>1, <1>3, <1>5, <1>7, <1>9, <1>10 DEF Exact, TypeOK, IndexMapExact
<1>12. ASSUME NEW j \in DOMAIN indexMap' PROVE values'[indexMap'[j]] = values[indexMap[j]]
  <2>1. j \in DOMAIN indexMap /\ j # keys[i]
    BY <1>1, <1>5
  <2>2. indexMap[j] \in Index /\ keys[indexMap[j]] = j
    BY <2>1, IndexInverse
  <2>3. CASE j = keys[last]
    <3>1. indexMap[j] = last /\ i # last
      BY <1>1, <2>1, <2>2, <2>3, IndexInjective
    <3> QED BY <1>1, <1>2, <1>4, <1>6, <2>3, <3>1
  <2>4. CASE j # keys[last]
    <3>1. indexMap[j] # last /\ indexMap[j] # i
      BY <2>1, <2>2, <2>4
    <3> QED BY <1>1, <1>2, <1>4, <1>6, <2>2, <2>4, <3>1
  <2> QED BY <2>3, <2>4
<1>13. map' = Without(map, k)
  BY <1>5, <1>12 DEF map, Without
<1> QED BY <1>11, <1>13
-----------------------------------------------------------------------------
(* In a snapshot the last index of a key is its only one.                  *)
LEMMA LastIndexFacts ==
    ASSUME SnapshotExact, NEW i \in 0 .. snapshot.size - 1
    PROVE  LastIndex(snapshot, snapshot.keys[i]) = i
<1> DEFINE n == snapshot.size - 1
           k == snapshot.keys[i]
           P(j) == snapshot.keys[j] = k /\ \A m \in j + 1 .. n : snapshot.keys[m] # k
<1>1. snapshot.size \in Nat /\ \A j, m \in 0 .. n : snapshot.keys[j] = snapshot.keys[m] => j = m
  BY DEF SnapshotExact
<1>2. P(i)
  BY <1>1
<1>3. \A j \in 0 .. n : P(j) => j = i
  BY <1>1
<1>4. LastIndex(snapshot, k) = CHOOSE j \in 0 .. n : P(j)
  BY DEF LastIndex
<1> QED BY <1>2, <1>3, <1>4

LEMMA LoadExact ==
    ASSUME Inv, LoadFromDisk
    PROVE  Exact' /\ map' = saved
<1> DEFINE S == 0 .. snapshot.size - 1
<1>1. /\ snapshot.size \in Nat /\ snapshot.keys \in [S -> Key] /\ snapshot.values \in [S -> Val]
      /\ size' = snapshot.size /\ keys' = snapshot.keys /\ values' = snapshot.values
      /\ Index' = S
  BY DEF Inv, SnapshotExact, LoadFromDisk, Index
<1>2. /\ DOMAIN indexMap' = {snapshot.keys[i] : i \in S}
      /\ \A k \in DOMAIN indexMap' : indexMap'[k] = LastIndex(snapshot, k)
  BY DEF LoadFromDisk
<1>3. \A i \in S : indexMap'[snapshot.keys[i]] = i
  BY <1>2, LastIndexFacts DEF Inv
<1>4. IndexMapExact'
  BY <1>1, <1>2, <1>3 DEF IndexMapExact
<1>5. indexMap' \in [DOMAIN indexMap' -> S]
  <2>1. \A k \in DOMAIN indexMap' : indexMap'[k] \in S
    BY <1>2, <1>3
  <2> QED BY <1>2, <2>1 DEF LoadFromDisk
<1>6. DOMAIN indexMap' \subseteq Key
  BY <1>1, <1>2
<1>7. Exact'
  BY <1>1, <1>4, <1>5, <1>6 DEF Exact, TypeOK
<1>8. map' = saved
  BY <1>1, <1>2 DEF map, saved
<1> QED BY <1>7, <1>8

LEMMA SnapshotTaken ==
    ASSUME Inv, CreateSnapshot
    PROVE  SnapshotExact' /\ saved' = map
<1>1. snapshot' = [size |-> size, keys |-> keys, values |-> values]
  BY DEF CreateSnapshot
<1>2. SnapshotExact'
  BY <1>1, IndexInjective DEF Inv, Exact, TypeOK, SnapshotExact, Index
<1>3. \A i \in Index : LastIndex(snapshot', keys[i]) = i
  <2>1. ASSUME NEW i \in 0 .. snapshot'.size - 1
        PROVE  LastIndex(snapshot', snapshot'.keys[i]) = i
    <3> DEFINE P(j) == /\ keys[j] = keys[i]
                       /\ \A m \in j + 1 .. size - 1 : keys[m] # keys[i]
    <3>1. i \in Index /\ size \in Nat
      BY <1>1, <2>1 DEF Index, Inv, Exact, TypeOK
    <3>2. P(i)
      BY <3>1, IndexInjective DEF Index, Inv
    <3>3. \A j \in Index : P(j) => j = i
      BY <3>1, IndexInjective DEF Inv
    <3>4. LastIndex(snapshot', keys[i]) = CHOOSE j \in Index : P(j)
      BY <1>1 DEF LastIndex, Index
    <3> QED BY <1>1, <3>1, <3>2, <3>3, <3>4
  <2> QED BY <1>1, <2>1 DEF Index
<1>4. saved' = [k \in {keys[i] : i \in Index} |-> values[LastIndex(snapshot', k)]]
  BY <1>1 DEF saved, Index
<1>5. \A k \in DOMAIN indexMap : values[LastIndex(snapshot', k)] = values[indexMap[k]]
  BY <1>3, IndexInverse DEF Inv
<1> QED BY <1>2, <1>4, <1>5 DEF map, Inv, Exact, IndexMapExact
-----------------------------------------------------------------------------
LEMMA SlicesUnchanged ==
    ASSUME Exact, UNCHANGED slices
    PROVE  Exact' /\ map' = map
<1>1. size' = size /\ keys' = keys /\ values' = values /\ indexMap' = indexMap
  BY DEF slices
<1>2. Index' = Index
  BY <1>1 DEF Index
<1>3. Exact'
  BY <1>1, <1>2 DEF Exact, TypeOK, IndexMapExact
<1> QED BY <1>1, <1>3 DEF map

LEMMA SnapshotUnchanged ==
    ASSUME SnapshotExact, UNCHANGED snapshot
    PROVE  SnapshotExact' /\ saved' = saved
  BY DEF SnapshotExact, saved

LEMMA ClearExact ==
    ASSUME Clear
    PROVE  Exact' /\ map' = [k \in {} |-> 0]
<1>1. size' = 0 /\ keys' = Empty /\ values' = Empty /\ indexMap' = Empty /\ Index' = {}
  BY DEF Clear, Index
<1>2. Exact'
  BY <1>1 DEF Exact, TypeOK, IndexMapExact, Empty
<1>3. map' = [k \in {} |-> 0]
  BY <1>1 DEF map, Empty
<1> QED BY <1>2, <1>3

LEMMA NextInv == Inv /\ [Next]_vars => Inv'
<1> SUFFICES ASSUME Inv, [Next]_vars PROVE Inv'
  OBVIOUS
<1>0. Exact /\ SnapshotExact
  BY DEF Inv
<1>1. ASSUME NEW k \in Key, NEW x \in Val, PutNew(k, x) PROVE Inv'
  BY <1>0, <1>1, PutNewExact, SnapshotUnchanged DEF Inv, PutNew
<1>2. ASSUME NEW k \in Key, NEW x \in Val, PutOld(k, x) PROVE Inv'
  BY <1>0, <1>2, PutOldExact, SnapshotUnchanged DEF Inv, PutOld
<1>3. ASSUME NEW k \in Key, Remove(k) PROVE Inv'
  BY <1>0, <1>3, RemoveExact, SnapshotUnchanged DEF Inv, Remove
<1>4. CASE UNCHANGED <<slices, snapshot>>
  BY <1>0, <1>4, SlicesUnchanged, SnapshotUnchanged DEF Inv
<1>5. CASE Clear
  BY <1>0, <1>5, ClearExact, SnapshotUnchanged DEF Inv, Clear
<1>6. CASE CreateSnapshot
  BY <1>0, <1>6, SlicesUnchanged, SnapshotTaken DEF Inv, CreateSnapshot
<1>7. CASE LoadFromDisk
  BY <1>0, <1>7, LoadExact, SnapshotUnchanged DEF Inv, LoadFromDisk
<1> QED BY <1>1, <1>2, <1>3, <1>4, <1>5, <1>6, <1>7
           DEF Next, RemoveMissing, Get, RandomEntry, vars

THEOREM InvInvariant == Spec => []Inv
  BY InitInv, NextInv, PTL DEF Spec

(* The slices and the index map always agree, and so do the entries of     *)
(* every snapshot: Remove's swap with the last entry and LoadFromDisk's    *)
(* loop keep each key at one index, the one indexMap has.                  *)
THEOREM SlicesCorrect == Spec => []SlicesExact
<1>1. Inv => SlicesExact
  BY DEF Inv, Exact, SlicesExact
<1> QED BY InvInvariant, <1>1, PTL

(* Every slice access of every method is inside its bounds.                *)
THEOREM TypeCorrect == Spec => []TypeOK
<1>1. Inv => TypeOK
  BY DEF Inv, Exact
<1> QED BY InvInvariant, <1>1, PTL
-----------------------------------------------------------------------------
(* The instance reads the operators of Maps as this module does.           *)
LEMMA SameMaps ==
    /\ \A m, k, x : Abstract!With(m, k, x) = With(m, k, x)
    /\ \A m, k : Abstract!Without(m, k) = Without(m, k)
  BY DEF Abstract!With, With, Abstract!Without, Without

LEMMA SameLookup ==
    ASSUME NEW k
    PROVE  Abstract!Lookup(k) = Lookup(k)
  BY DEF Abstract!Lookup, Lookup, map, Abstract!Found, Found, Abstract!Missing, Missing

(* The hash map behaves as a map for every set of keys and of values: each *)
(* method is the operation of KeyValueMap with the same answer, and a load *)
(* brings back exactly the map the snapshot was taken of.                  *)
THEOREM Refinement == Spec => ImplementsMap
<1>1. Init => Abstract!Init
  <2>1. Init => map = [k \in {} |-> 0]
    BY DEF Init, map, Empty
  <2>2. Init => saved = [k \in {} |-> 0]
    BY DEF Init, saved, Empty
  <2> QED BY <2>1, <2>2 DEF Init, Abstract!Init, Missing, Abstract!Missing
<1>2. Inv /\ [Next]_vars => [Abstract!Next]_(Abstract!vars)
  <2> SUFFICES ASSUME Inv, [Next]_vars PROVE [Abstract!Next]_(Abstract!vars)
    OBVIOUS
  <2>0. Exact /\ SnapshotExact /\ DOMAIN map = DOMAIN indexMap
    BY DEF Inv, map
  <2>1. ASSUME NEW k \in Key, NEW x \in Val, PutNew(k, x)
        PROVE  Abstract!Put(k, x)
    <3>1. Lookup(k) = Missing
      BY <2>1 DEF PutNew, Lookup
    <3> QED BY <2>0, <2>1, <3>1, PutNewExact, SnapshotUnchanged, SameMaps, SameLookup
            DEF PutNew, Abstract!Put
  <2>2. ASSUME NEW k \in Key, NEW x \in Val, PutOld(k, x)
        PROVE  Abstract!Put(k, x)
    BY <2>0, <2>2, PutOldExact, SnapshotUnchanged, SameMaps, SameLookup DEF PutOld, Abstract!Put
  <2>3. ASSUME NEW k \in Key, Remove(k)
        PROVE  Abstract!Remove(k)
    BY <2>0, <2>3, RemoveExact, SnapshotUnchanged, SameMaps, SameLookup DEF Remove, Abstract!Remove
  <2>4. ASSUME NEW k \in Key, RemoveMissing(k)
        PROVE  Abstract!Remove(k)
    <3>1. Lookup(k) = Missing
      BY <2>4 DEF RemoveMissing, Lookup
    <3>2. map' = map /\ saved' = saved
      BY <2>0, <2>4, SlicesUnchanged, SnapshotUnchanged DEF RemoveMissing
    <3>3. Without(map, k) = map
      BY <2>0, <2>4 DEF RemoveMissing, Without, map
    <3> QED BY <2>4, <3>1, <3>2, <3>3, SameMaps, SameLookup DEF RemoveMissing, Abstract!Remove
  <2>5. ASSUME NEW k \in Key, Get(k)
        PROVE  Abstract!Get(k)
    BY <2>0, <2>5, SlicesUnchanged, SnapshotUnchanged, SameLookup DEF Get, Abstract!Get
  <2>6. ASSUME RandomEntry
        PROVE  Abstract!RandomEntry
    <3>1. map' = map /\ saved' = saved
      BY <2>0, <2>6, SlicesUnchanged, SnapshotUnchanged DEF RandomEntry
    <3>2. ASSUME NEW i \in Index
          PROVE  keys[i] \in DOMAIN map /\ map[keys[i]] = values[i]
      BY <2>0, <3>2 DEF Exact, IndexMapExact, map
    <3>3. size = 0 => DOMAIN map = {}
      BY <2>0 DEF Exact, IndexMapExact, Index
    <3> QED BY <2>6, <3>1, <3>2, <3>3
            DEF RandomEntry, Abstract!RandomEntry, Found, Abstract!Found, Missing, Abstract!Missing
  <2>7. ASSUME Clear
        PROVE  Abstract!Clear
    BY <2>0, <2>7, ClearExact, SnapshotUnchanged DEF Clear, Abstract!Clear
  <2>8. ASSUME CreateSnapshot
        PROVE  Abstract!CreateSnapshot
    BY <2>0, <2>8, SlicesUnchanged, SnapshotTaken DEF CreateSnapshot, Abstract!CreateSnapshot
  <2>9. ASSUME LoadFromDisk
        PROVE  Abstract!LoadFromDisk
    BY <2>0, <2>9, LoadExact, SnapshotUnchanged DEF LoadFromDisk, Abstract!LoadFromDisk
  <2>10. CASE UNCHANGED vars
    BY <2>0, <2>10, SlicesUnchanged, SnapshotUnchanged DEF vars, Abstract!vars
  <2> QED BY <2>1, <2>2, <2>3, <2>4, <2>5, <2>6, <2>7, <2>8, <2>9, <2>10
          DEF Next, Abstract!Next
<1> QED BY <1>1, <1>2, InvInvariant, PTL DEF Spec, ImplementsMap, Abstract!Spec
=============================================================================
