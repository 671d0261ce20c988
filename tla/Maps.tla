-------------------------------- MODULE Maps --------------------------------
(***************************************************************************)
(* A Map of JavaScript: it goes over its keys in the order they were       *)
(* inserted.  Here it is a function on the keys it has; `older' of an      *)
(* entry holds the keys still there that were inserted before it.          *)
(***************************************************************************)
EXTENDS Integers, FiniteSets

EmptyMap == [k \in {} |-> [value |-> 0, older |-> {}]]

(* Map.set: a key that is there keeps its place.                           *)
MapSet(m, key, v) ==
  [k \in DOMAIN m \cup {key} |->
     IF k # key THEN m[k]
     ELSE [value |-> v, older |-> IF key \in DOMAIN m THEN m[key].older ELSE DOMAIN m]]

(* Map.delete, of every key of a set.                                      *)
MapDelete(m, keys) ==
  [k \in DOMAIN m \ keys |-> [value |-> m[k].value, older |-> m[k].older \ keys]]

MapSize(m) == Cardinality(DOMAIN m)

(* The first n keys of the iteration.                                      *)
MapFirst(m, n) == {k \in DOMAIN m : Cardinality(m[k].older) < n}

(* Every function like this is a Map: `older' orders its keys.             *)
IsMap(m) ==
  /\ IsFiniteSet(DOMAIN m)
  /\ m = [k \in DOMAIN m |-> [value |-> m[k].value, older |-> m[k].older]]
  /\ \A k \in DOMAIN m : k \notin m[k].older /\ m[k].older \subseteq DOMAIN m
  /\ \A j, k \in DOMAIN m : j = k \/ j \in m[k].older \/ k \in m[j].older
  /\ \A j, k \in DOMAIN m : j \in m[k].older => m[j].older \subseteq m[k].older
=============================================================================
