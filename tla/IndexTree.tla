------------------------------ MODULE IndexTree ------------------------------
(***************************************************************************)
(* The lookup table below every segment of the machine (itree.h): an array *)
(* of pairs in the order of their insertion and a tree of bytes            *)
(* (asciitree.cpp) that leads from a label to a pair.                      *)
(*                                                                         *)
(* A label is a sequence; its elements stand for its bytes.  The tree is a *)
(* function from the chains it has to their markers.  A marker is the      *)
(* address of a pair, here its position in the array, or NULL.             *)
(***************************************************************************)
EXTENDS Integers, Sequences, SequencesExt

NULL == 0

EmptyTree == [chain \in {<<>>} |-> NULL]

(* Links are added for the bytes the tree does not know; the marker of the *)
(* last one is set, whatever it was.                                       *)
at_insert(tree, label, pair) ==
  [chain \in DOMAIN tree \union Prefixes(label) |->
     IF chain = label THEN pair
     ELSE IF chain \in DOMAIN tree THEN tree[chain] ELSE NULL]

(* The loop reads a byte before it tests the length: nothing is ever found *)
(* under the label without bytes.                                          *)
at_find(tree, label) ==
  IF label # <<>> /\ label \in DOMAIN tree THEN tree[label] ELSE NULL

(* The links stay. *)
at_remove(tree, label) ==
  IF at_find(tree, label) = NULL THEN tree ELSE [tree EXCEPT ![label] = NULL]

EmptyTable == [map |-> <<>>, tree |-> EmptyTree]

(* A pair is always added; the one the label had stays in the array. *)
insert(table, label, value) ==
  [map  |-> Append(table.map, [label |-> label, value |-> value]),
   tree |-> at_insert(table.tree, label, Len(table.map) + 1)]

find(table, label) ==
  LET pair == at_find(table.tree, label)
  IN IF pair = NULL THEN NULL ELSE table.map[pair].value

(* The pair the tree gives is deleted and the pairs after it move up. *)
Erased(tree, pair) ==
  [chain \in DOMAIN tree |-> IF tree[chain] > pair THEN tree[chain] - 1 ELSE tree[chain]]

remove(table, label) ==
  LET pair == at_find(table.tree, label)
  IN IF pair = NULL THEN table
     ELSE [map  |-> RemoveAt(table.map, pair),
           tree |-> Erased(at_remove(table.tree, label), pair)]

replace(table, label, value) ==
  LET pair == at_find(table.tree, label)
  IN IF pair = NULL THEN table ELSE [table EXCEPT !.map[pair].value = value]

(* Every label but those of shadowed pairs leads to its own pair. *)
Shadowed(table) ==
  {pair \in DOMAIN table.map : at_find(table.tree, table.map[pair].label) # pair}
=============================================================================
