--------------------------- MODULE MCCollections ---------------------------
(* The collections with a few elements and characters.  The texts are, in   *)
(* their order, "-1", "-1.500000", "2", "<struct>" and "nan", from 1 on;     *)
(* the element of type String is the first of them.                         *)
EXTENDS Collections

MCKinds == {"String", "Vector", "Binary", "Map"}
MCQuantities == (-3..3) \union {NaN}
MCElements ==
    {Integer(-1), Integer(2), [t |-> "Float", v |-> -3], [t |-> "Float", v |-> NaN],
     [t |-> "String", v |-> 1], [t |-> "Structure", v |-> 2]}
MCKeys == MCElements \ {Integer(2)}
MCValues == {Integer(-1), [t |-> "Float", v |-> NaN]}
MCCharacters == {Nul, Char(2), Newline}

MCPrinted(e) ==
    CASE e.t = "Structure" -> 4
      [] e.t = "Float" -> IF e.v = NaN THEN 5 ELSE 2
      [] OTHER -> CASE e.v = -1 -> 1 [] e.v = 2 -> 3 [] OTHER -> 0
MCAtol(text) == CASE text \in {1, 2} -> -1 [] text = 3 -> 2 [] OTHER -> 0
MCAtof(text) ==
    CASE text = 1 -> -2 [] text = 2 -> -3 [] text = 3 -> 4 [] text = 5 -> NaN [] OTHER -> 0
=============================================================================
