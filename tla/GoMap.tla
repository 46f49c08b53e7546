------------------------------- MODULE GoMap -------------------------------
(***************************************************************************)
(* Go maps, and the keyspaces of Redis, as functions whose domain is the   *)
(* set of keys present.                                                    *)
(***************************************************************************)

\* make(map[K]V)
EmptyMap == [k \in {} |-> {}]

\* m[k] = v: overwrite an entry or add a new one.
Put(m, k, v) == [x \in (DOMAIN m) \cup {k} |-> IF x = k THEN v ELSE m[x]]

\* delete(m, k): no effect when the key is absent.
Delete(m, k) == [x \in (DOMAIN m) \ {k} |-> m[x]]

\* m is a map from some of the keys in K to values in V.
IsMap(m, K, V) == /\ DOMAIN m \subseteq K
                  /\ m \in [DOMAIN m -> V]
=============================================================================
