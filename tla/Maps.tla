-------------------------------- MODULE Maps --------------------------------
(***************************************************************************)
(* The stable B-tree maps of src/indexer/src/index.rs and the hash maps of *)
(* the updaters, as functions on the keys they have.                       *)
(***************************************************************************)
EXTENDS Integers

EmptyMap == [k \in {} |-> 0]

(* A count that starts at 0.                                               *)
At(m, k) == IF k \in DOMAIN m THEN m[k] ELSE 0

Plus(m, k, n) == [j \in DOMAIN m \cup {k} |-> IF j = k THEN At(m, k) + n ELSE m[j]]

Put(m, k, v) == [j \in DOMAIN m \cup {k} |-> IF j = k THEN v ELSE m[j]]

(* entry(k).or_insert(v): the first write wins.                            *)
PutNew(m, k, v) == IF k \in DOMAIN m THEN m ELSE Put(m, k, v)

Except(m, ks) == [k \in DOMAIN m \ ks |-> m[k]]

(* All of n is inserted into m.                                            *)
Override(m, n) == [k \in DOMAIN m \cup DOMAIN n |-> IF k \in DOMAIN n THEN n[k] ELSE m[k]]
=============================================================================
