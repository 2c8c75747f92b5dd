--------------------------- MODULE MCExpressions ---------------------------
(* The expressions with the constants of a small script.                    *)
EXTENDS Expressions

MCLiterals ==
    {Value("Integer", 0), Value("Integer", 3), Value("Integer", Least(LongBits)),
     Value("Float", 3), Value("Float", NaN), Value("Char", -1), Value("Boolean", 1),
     Value("Handle", 0), Value("Handle", 2), Value("Map", 1),
     Text(<<<<"%s", 1>>>>)}
=============================================================================
