---------------------------- MODULE RandomSubset ----------------------------
(***************************************************************************)
(* ClientManager.GetRandomSubset: how the bootstrap server and the clients *)
(* choose the peers they name.  priorityQueue.GetRandomSubset samples the  *)
(* queue's values under its lock; then each sampled ID is looked up in the *)
(* registry, which other goroutines change all the while.                  *)
(*                                                                         *)
(* The queue is any arrangement of distinct IDs (PriorityQueue's           *)
(* IndexMapExact), fixed while the lock is held and not read after.        *)
(***************************************************************************)
EXTENDS Maps, Identities

CONSTANT MaxN   \* bound: the largest subset asked for

ASSUME SubsetAssumption == MaxN \in Nat

VARIABLES registered,   \* the IDs in cm.hashMap
          size,         \* len(pq.values)
          values,       \* the slice pq.values
          n,            \* the size asked for
          pc,           \* idle, or the loop that runs: reject, reservoir, resolve
          i,            \* its loop variable
          result,       \* the slice of sampled IDs
          answer,       \* the set of IDs that will be returned
          length,       \* len(identities), the number of IDs returned
          seen,         \* IDs registered at some moment of the lookups (history)
          always        \* IDs registered at every moment of the call (history)

sampled == <<size, values>>
subsetVars == <<registered, sampled, n, pc, i, result, answer, length, seen, always>>

Slices(s) == {f \in [0 .. s - 1 -> ID] : \A j, k \in 0 .. s - 1 : f[j] = f[k] => j = k}

Empty == [j \in {} |-> 0]

SubsetInit ==
    /\ registered \in SUBSET ID
    /\ size = 0 /\ values = Empty
    /\ n = 0 /\ pc = "idle" /\ i = 0
    /\ result = Empty /\ answer = {} /\ length = 0
    /\ seen = {} /\ always = {}

(* AddClient, RemoveClient and the checks, at any moment.                  *)
RegistryChanges(id) ==
    /\ registered' = IF id \in registered THEN registered \ {id} ELSE registered \cup {id}
    /\ IF pc = "idle" THEN UNCHANGED <<seen, always>>
       ELSE seen' = seen \cup registered' /\ always' = always \cap registered'
    /\ UNCHANGED <<sampled, n, pc, i, result, answer, length>>
-----------------------------------------------------------------------------
Sampling(label, first, slice) == pc' = label /\ i' = first /\ result' = slice

(* The edge cases, and which of the two loops runs.                        *)
GetRandomSubset(s, f, m) ==
    /\ pc = "idle"
    /\ size' = s /\ values' = f /\ n' = m
    /\ \/ m <= 0 /\ Sampling("resolve", 0, Empty)
       \/ m > 0 /\ m >= s /\ Sampling("resolve", 0, f)
       \/ m > 0 /\ m < s /\ m <= s \div 2 /\ Sampling("reject", 0, Empty)
       \/ m > 0 /\ m < s /\ m > s \div 2
            /\ Sampling("reservoir", m, [j \in 0 .. m - 1 |-> f[j]])
    /\ answer' = {} /\ length' = 0
    /\ seen' = registered /\ always' = registered
    /\ UNCHANGED registered

Picked == {result[j] : j \in 0 .. i - 1}

(* A wrong rejection loop: a value may be picked twice.                    *)
DrawAny(r) ==
    /\ pc = "reject" /\ i < n
    /\ result' = With(result, i, values[r])
    /\ i' = i + 1
    /\ UNCHANGED <<registered, sampled, n, pc, answer, length, seen, always>>

(* Rejection sampling.  A draw of a value picked before changes nothing.   *)
Draw(r) ==
    /\ pc = "reject" /\ i < n
    /\ values[r] \notin Picked
    /\ result' = With(result, i, values[r])
    /\ i' = i + 1
    /\ UNCHANGED <<registered, sampled, n, pc, answer, length, seen, always>>

(* A wrong bound: the slice grows by one.                                  *)
ReplaceOneMore(j) ==
    /\ pc = "reservoir" /\ i < size
    /\ j \in 0 .. i
    /\ result' = IF j <= n THEN With(result, j, values[i]) ELSE result
    /\ i' = i + 1
    /\ UNCHANGED <<registered, sampled, n, pc, answer, length, seen, always>>

(* Reservoir sampling: the value at i replaces a random one, or none.      *)
Replace(j) ==
    /\ pc = "reservoir" /\ i < size
    /\ j \in 0 .. i
    /\ result' = IF j < n THEN With(result, j, values[i]) ELSE result
    /\ i' = i + 1
    /\ UNCHANGED <<registered, sampled, n, pc, answer, length, seen, always>>

SampleDone ==
    /\ \/ pc = "reject" /\ i = n
       \/ pc = "reservoir" /\ i = size
    /\ pc' = "resolve" /\ i' = 0
    /\ seen' = registered
    /\ UNCHANGED <<registered, sampled, n, result, answer, length, always>>
-----------------------------------------------------------------------------
Count == IF n < size THEN n ELSE size

(* A wrong lookup: an ID that is not registered is returned as well.       *)
ResolveUnchecked ==
    /\ pc = "resolve" /\ i < Count
    /\ answer' = answer \cup {result[i]} /\ length' = length + 1
    /\ i' = i + 1
    /\ UNCHANGED <<registered, sampled, n, pc, result, seen, always>>

(* One hashMap.Get: an ID that is not registered any more is left out.     *)
Resolve ==
    /\ pc = "resolve" /\ i < Count
    /\ IF result[i] \in registered
       THEN answer' = answer \cup {result[i]} /\ length' = length + 1
       ELSE UNCHANGED <<answer, length>>
    /\ i' = i + 1
    /\ UNCHANGED <<registered, sampled, n, pc, result, seen, always>>

Return ==
    /\ pc = "resolve" /\ i = Count
    /\ size' = 0 /\ values' = Empty /\ result' = Empty
    /\ pc' = "idle" /\ n' = 0 /\ i' = 0
    /\ answer' = {} /\ length' = 0 /\ seen' = {} /\ always' = {}
    /\ UNCHANGED registered

SubsetNext ==
    \/ \E id \in ID : RegistryChanges(id)
    \/ \E s \in 0 .. Cardinality(ID) : \E f \in Slices(s) :
          \E m \in 0 .. MaxN : GetRandomSubset(s, f, m)
    \/ \E r \in 0 .. size - 1 : Draw(r)
    \/ \E j \in 0 .. size - 1 : Replace(j)
    \/ SampleDone \/ Resolve \/ Return

SubsetSpec == SubsetInit /\ [][SubsetNext]_subsetVars
-----------------------------------------------------------------------------
SubsetTypeOK ==
    /\ registered \subseteq ID
    /\ size \in 0 .. Cardinality(ID) /\ values \in Slices(size)
    /\ n \in 0 .. MaxN
    /\ pc \in {"idle", "reject", "reservoir", "resolve"}
    /\ i \in 0 .. size
    /\ result \in CASE pc = "idle" -> {Empty}
                    [] pc = "reject" -> [0 .. i - 1 -> ID]
                    [] pc = "reservoir" -> [0 .. n - 1 -> ID]
                    [] pc = "resolve" -> [0 .. Count - 1 -> ID]
    /\ answer \subseteq ID /\ length \in 0 .. size
    /\ always \subseteq seen /\ seen \subseteq ID

(* The sample has min(n, size) IDs of the queue, none of them twice, and   *)
(* rejection sampling, which has no other end, always has one left to pick.*)
SampleRight ==
    /\ pc = "resolve" =>
          /\ \A j, k \in 0 .. Count - 1 : result[j] = result[k] => j = k
          /\ \A j \in 0 .. Count - 1 : \E k \in 0 .. size - 1 : result[j] = values[k]
    /\ pc = "reject" /\ i < n => \E r \in 0 .. size - 1 : values[r] \notin Picked

(* The answer names no client twice; none that was not registered at some  *)
(* moment of the lookups, so none that was removed while the queue was     *)
(* sampled, or before; and it leaves out no sampled one that was           *)
(* registered from the call's first moment on.                             *)
AnswerRight ==
    pc = "resolve" =>
        /\ Cardinality(answer) = length
        /\ answer \subseteq seen
        /\ i = Count => {result[j] : j \in 0 .. Count - 1} \cap always \subseteq answer
=============================================================================
