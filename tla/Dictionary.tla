----------------------------- MODULE Dictionary -----------------------------
(* What a map of a script promises: a function from keys to values, where a  *)
(* key may be taken for another one.                                        *)

CONSTANTS
    Keys, Values,
    Takes   \* the pairs <<x, k>> of keys such that x is taken for k

VARIABLE dict

(* Under k: the value of a key that is taken for k, or a new key's.          *)
Put(k, v) ==
    \/ \E x \in DOMAIN dict : <<x, k>> \in Takes /\ dict' = [dict EXCEPT ![x] = v]
    \/ /\ <<k, k>> \in Takes
       /\ \A x \in DOMAIN dict : <<x, k>> \notin Takes
       /\ dict' = [x \in DOMAIN dict \union {k} |-> IF x = k THEN v ELSE dict[x]]

Drop(k) == dict' = [x \in DOMAIN dict \ {k} |-> dict[x]]

Clear == dict' = << >>

Init == dict = << >>

Next ==
    \/ \E k \in Keys, v \in Values : Put(k, v)
    \/ \E k \in DOMAIN dict : Drop(k)
    \/ Clear

Spec == Init /\ [][Next]_dict
=============================================================================
