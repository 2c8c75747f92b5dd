SPECIFICATION Spec
CONSTANTS
    LongBits = 4
    IntBits = 3
    CharBits = 2
    Infinity = 18
    Names = {1, 2}
    Literals <- MCLiterals
INVARIANTS CompoundAgrees OrderAgrees RemainderRight ReferenceTransparent
CHECK_DEADLOCK FALSE
