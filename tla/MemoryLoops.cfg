SPECIFICATION Spec
CONSTANTS
    x = x
    y = y
    p = p
    Variables <- MCVariables
    Parameter = p
    Fixed <- MCLiteral
    Forms <- MCLoops
    Habits <- MCNone
    MaxNumber = 1
    MaxItems = 2
    MaxObjects = 7
    MaxFrames = 1
    MaxLoops = 2
INVARIANTS TableAgrees TempsReleased
SYMMETRY Symmetry
CHECK_DEADLOCK FALSE
