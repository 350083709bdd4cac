-------------------------------- MODULE Maps --------------------------------
(***************************************************************************)
(* Partial maps as functions, shared by the data structures.               *)
(*                                                                         *)
(* A Go map is a function over its keys.  A Go slice of length n is a      *)
(* function over 0 .. n-1, so append(s, x) is With(s, n, x) and the        *)
(* truncation s[:n-1] is Without(s, n-1).                                  *)
(***************************************************************************)
EXTENDS Integers

(* m[k] = x, adding k when it is not a key yet.                            *)
With(m, k, x) == [j \in DOMAIN m \cup {k} |-> IF j = k THEN x ELSE m[j]]

(* delete(m, k), which does nothing when k is no key.                      *)
Without(m, k) == [j \in DOMAIN m \ {k} |-> m[j]]

(* m[i], m[j] = m[j], m[i].                                                *)
Exchange(m, i, j) == [m EXCEPT ![i] = m[j], ![j] = m[i]]

(* The keys that no other key's number is below.                           *)
Minima(m) == {k \in DOMAIN m : \A j \in DOMAIN m : m[k] <= m[j]}

(* The maps from some of the keys K to X.                                  *)
PartialMaps(K, X) == UNION {[D -> X] : D \in SUBSET K}
=============================================================================
