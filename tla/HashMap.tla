------------------------------- MODULE HashMap -------------------------------
(***************************************************************************)
(* The map of shared/hashset.go: keys and values in two slices, so that a  *)
(* random entry is found at once, and a Go map from keys to their indices. *)
(* Every method holds h.mu for its whole body and is one step.             *)
(***************************************************************************)
EXTENDS Maps

CONSTANTS Key, Val

VARIABLES size,      \* len(h.keys), which is len(h.values)
          keys,      \* the slice h.keys
          values,    \* the slice h.values
          indexMap,  \* h.indexMap
          snapshot,  \* the entries of the last snapshot, slices as well
          ret        \* what the last method returned

slices == <<size, keys, values, indexMap>>
vars == <<slices, snapshot, ret>>

Found(k, x) == [ok |-> TRUE, key |-> k, value |-> x]
Missing     == [ok |-> FALSE]

Index == 0 .. size - 1

Empty == [i \in {} |-> 0]

Init == /\ size = 0 /\ keys = Empty /\ values = Empty /\ indexMap = Empty
        /\ snapshot = [size |-> 0, keys |-> Empty, values |-> Empty]
        /\ ret = Missing

Lookup(k) == IF k \in DOMAIN indexMap THEN Found(k, values[indexMap[k]]) ELSE Missing
-----------------------------------------------------------------------------
PutNew(k, x) ==
    /\ k \notin DOMAIN indexMap
    /\ size' = size + 1
    /\ keys' = With(keys, size, k)
    /\ values' = With(values, size, x)
    /\ indexMap' = With(indexMap, k, size)
    /\ ret' = Missing
    /\ UNCHANGED snapshot

PutOld(k, x) ==
    /\ k \in DOMAIN indexMap
    /\ values' = With(values, indexMap[k], x)
    /\ ret' = Lookup(k)
    /\ UNCHANGED <<size, keys, indexMap, snapshot>>

(* A wrong Remove: the entry moved keeps its old index in indexMap.        *)
RemoveKeepsIndex(k) ==
    /\ k \in DOMAIN indexMap
    /\ LET i == indexMap[k]
           last == size - 1
       IN /\ size' = last
          /\ keys' = Without(With(keys, i, keys[last]), last)
          /\ values' = Without(With(values, i, values[last]), last)
          /\ indexMap' = Without(indexMap, k)
    /\ ret' = Lookup(k)
    /\ UNCHANGED snapshot

(* The last entry moves to the index of the one removed.  Should they be   *)
(* the same, the two changes of indexMap come to deleting the key.         *)
Remove(k) ==
    /\ k \in DOMAIN indexMap
    /\ LET i == indexMap[k]
           last == size - 1
       IN /\ size' = last
          /\ keys' = Without(With(keys, i, keys[last]), last)
          /\ values' = Without(With(values, i, values[last]), last)
          /\ indexMap' = Without(With(indexMap, keys[last], i), k)
    /\ ret' = Lookup(k)
    /\ UNCHANGED snapshot

RemoveMissing(k) ==
    /\ k \notin DOMAIN indexMap
    /\ ret' = Missing
    /\ UNCHANGED <<slices, snapshot>>

(* Get; ContainsKey is its ok.                                             *)
Get(k) == ret' = Lookup(k) /\ UNCHANGED <<slices, snapshot>>

RandomEntry ==
    /\ \/ \E i \in Index : ret' = Found(keys[i], values[i])
       \/ size = 0 /\ ret' = Missing
    /\ UNCHANGED <<slices, snapshot>>

Clear ==
    /\ size' = 0 /\ keys' = Empty /\ values' = Empty /\ indexMap' = Empty
    /\ UNCHANGED <<snapshot, ret>>

CreateSnapshot ==
    /\ snapshot' = [size |-> size, keys |-> keys, values |-> values]
    /\ UNCHANGED <<slices, ret>>

LastIndex(s, k) == CHOOSE i \in 0 .. s.size - 1 :
                      s.keys[i] = k /\ \A j \in i + 1 .. s.size - 1 : s.keys[j] # k

(* A wrong LoadFromDisk: the loop stops one entry early.                   *)
LoadFromDiskDropsLast ==
    LET n == IF snapshot.size = 0 THEN 0 ELSE snapshot.size - 1 IN
    /\ size' = n
    /\ keys' = [i \in 0 .. n - 1 |-> snapshot.keys[i]]
    /\ values' = [i \in 0 .. n - 1 |-> snapshot.values[i]]
    /\ indexMap' = [k \in {snapshot.keys[i] : i \in 0 .. n - 1} |-> LastIndex(snapshot, k)]
    /\ UNCHANGED <<snapshot, ret>>

(* The loop over the entries leaves each key its last index.               *)
LoadFromDisk ==
    /\ size' = snapshot.size
    /\ keys' = snapshot.keys
    /\ values' = snapshot.values
    /\ indexMap' = [k \in {snapshot.keys[i] : i \in 0 .. snapshot.size - 1} |->
                       LastIndex(snapshot, k)]
    /\ UNCHANGED <<snapshot, ret>>

Next ==
    \/ \E k \in Key, x \in Val : PutNew(k, x) \/ PutOld(k, x)
    \/ \E k \in Key : Remove(k) \/ RemoveMissing(k) \/ Get(k)
    \/ RandomEntry \/ Clear \/ CreateSnapshot \/ LoadFromDisk

Spec == Init /\ [][Next]_vars
-----------------------------------------------------------------------------
TypeOK ==
    /\ size \in Nat
    /\ keys \in [Index -> Key]
    /\ values \in [Index -> Val]
    /\ DOMAIN indexMap \subseteq Key
    /\ indexMap \in [DOMAIN indexMap -> Index]

(* indexMap leads to each key's index and to nothing else.  No step of the *)
(* code checks it, and Remove, RandomEntry and the snapshots rely on it.   *)
IndexMapExact ==
    /\ DOMAIN indexMap = {keys[i] : i \in Index}
    /\ \A i \in Index : indexMap[keys[i]] = i

(* The same of the snapshot: no key has two entries.                       *)
SnapshotExact ==
    /\ snapshot.size \in Nat
    /\ snapshot.keys \in [0 .. snapshot.size - 1 -> Key]
    /\ snapshot.values \in [0 .. snapshot.size - 1 -> Val]
    /\ \A i, j \in 0 .. snapshot.size - 1 : snapshot.keys[i] = snapshot.keys[j] => i = j

SlicesExact == IndexMapExact /\ SnapshotExact

map == [k \in DOMAIN indexMap |-> values[indexMap[k]]]

saved == [k \in {snapshot.keys[i] : i \in 0 .. snapshot.size - 1} |->
             snapshot.values[LastIndex(snapshot, k)]]

Abstract == INSTANCE KeyValueMap WITH
                Key <- Key, Val <- Val, map <- map, saved <- saved, ret <- ret

(* The slices implement the map: every method returns what KeyValueMap     *)
(* allows, and LoadFromDisk brings back the map of the snapshot.           *)
ImplementsMap == Abstract!Spec
=============================================================================
