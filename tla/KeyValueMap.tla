----------------------------- MODULE KeyValueMap -----------------------------
(***************************************************************************)
(* What shared/hashset.go promises its callers: a map, one value a key,    *)
(* that can be copied whole into a snapshot and restored from it.          *)
(***************************************************************************)
EXTENDS Maps

CONSTANTS Key, Val

VARIABLES map,     \* the value of each key
          saved,   \* the map as the last snapshot has it
          ret      \* what the last operation returned

vars == <<map, saved, ret>>

Found(k, x) == [ok |-> TRUE, key |-> k, value |-> x]
Missing     == [ok |-> FALSE]

Init == /\ map = [k \in {} |-> 0]
        /\ saved = map
        /\ ret = Missing

Lookup(k) == IF k \in DOMAIN map THEN Found(k, map[k]) ELSE Missing

(* Put and Remove return what was there before.                            *)
Put(k, x) == map' = With(map, k, x) /\ ret' = Lookup(k) /\ UNCHANGED saved

Remove(k) == map' = Without(map, k) /\ ret' = Lookup(k) /\ UNCHANGED saved

Get(k) == ret' = Lookup(k) /\ UNCHANGED <<map, saved>>

RandomEntry ==
    /\ \/ \E k \in DOMAIN map : ret' = Found(k, map[k])
       \/ DOMAIN map = {} /\ ret' = Missing
    /\ UNCHANGED <<map, saved>>

Clear == map' = [k \in {} |-> 0] /\ UNCHANGED <<saved, ret>>

CreateSnapshot == saved' = map /\ UNCHANGED <<map, ret>>

LoadFromDisk == map' = saved /\ UNCHANGED <<saved, ret>>

Next == \/ \E k \in Key, x \in Val : Put(k, x)
        \/ \E k \in Key : Remove(k) \/ Get(k)
        \/ RandomEntry \/ Clear \/ CreateSnapshot \/ LoadFromDisk

Spec == Init /\ [][Next]_vars
=============================================================================
