-------------------------------- MODULE Maps --------------------------------
(***************************************************************************)
(* The operations of maps (core/types/map.cpp): keys and values in two      *)
(* vectors that are kept in step, and the counter items.  A key is looked   *)
(* for from the first one on, by the ob_cmp of the keys that are there.     *)
(***************************************************************************)
EXTENDS Vectors

MapOf(ks, vs, n) == [t |-> "Map", keys |-> ks, values |-> vs, items |-> n]
Map(ks, vs) == MapOf(ks, vs, Len(ks))

(* The position of a key, -1 when there is none.                            *)
map_find(m, key) ==
    LET At == {i \in 1..m.items : Same(m.keys[i], key)} IN
    IF At = {} THEN -1 ELSE Min(At) - 1

Mapped(m, key) == map_find(m, key) # -1

map_has(m, key) == IF Stops(m.keys, key) THEN Error ELSE Truth(Mapped(m, key))
map_keys(m) == Vector(m.keys)
map_values(m) == Vector(m.values)

(* The children: the keys, then the values.                                 *)
map_traverse(m, i) ==
    IF i < m.items THEN Item(m.keys[i + 1])
    ELSE IF i - m.items < m.items THEN Item(m.values[i - m.items + 1])
    ELSE Nothing

map_free(m) == MapOf(<< >>, << >>, 0)
map_assign(m, op) == Outcome(map_free(m), op)

(* By size, then pair by pair in the order of insertion.                    *)
Pairs(m) ==
    [i \in 1..(2 * Len(m.keys)) |-> IF i % 2 = 1 THEN m.keys[(i + 1) \div 2] ELSE m.values[i \div 2]]

map_cmp(m, cmp) ==
    IF cmp.t # "Map" THEN 1
    ELSE IF Len(m.keys) # Len(cmp.keys) THEN (IF Len(m.keys) > Len(cmp.keys) THEN 1 ELSE -1)
    ELSE list_cmp(Pairs(m), Pairs(cmp))

(* The test for an empty map never holds, since the index is unsigned.      *)
map_cl_pop(m) ==
    IF m.items = 0 THEN Outcome(m, Crash)
    ELSE Outcome(MapOf(Front(m.keys), Front(m.values), m.items - 1),
                 Item(m.values[m.items]))

\* Mutant of map_cl_remove: the value of another key goes.
map_cl_removeFirstValue(m, key) ==
    LET i == map_find(m, key) + 1 IN
    IF Stops(m.keys, key) THEN Outcome(m, Error)
    ELSE IF ~Mapped(m, key) THEN Outcome(m, m)
    ELSE Outcome(MapOf(RemoveAt(m.keys, i), Tail(m.values), m.items - 1), Item(m.values[i]))

(* The map itself is the answer when the key is not there.                  *)
map_cl_remove(m, key) ==
    LET i == map_find(m, key) + 1 IN
    IF Stops(m.keys, key) THEN Outcome(m, Error)
    ELSE IF ~Mapped(m, key) THEN Outcome(m, m)
    ELSE Outcome(MapOf(RemoveAt(m.keys, i), RemoveAt(m.values, i), m.items - 1),
                 Item(m.values[i]))

map_cl_at(m, key) ==
    IF Stops(m.keys, key) THEN Error
    ELSE IF Mapped(m, key) THEN Item(m.values[map_find(m, key) + 1])
    ELSE Exception

(* The key that is there stays, whatever the other one is.                  *)
map_cl_set(m, key, v) ==
    IF Stops(m.keys, key) THEN Outcome(m, Error)
    ELSE IF Mapped(m, key)
    THEN Outcome(MapOf(m.keys, [m.values EXCEPT ![map_find(m, key) + 1] = v], m.items), Nothing)
    ELSE Outcome(MapOf(Append(m.keys, key), Append(m.values, v), m.items + 1), Nothing)
=============================================================================
