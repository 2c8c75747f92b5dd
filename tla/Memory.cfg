SPECIFICATION Spec
CONSTANTS
    x = x
    y = y
    p = p
    Variables <- MCVariables
    Parameter = p
    Fixed <- MCLiteral
    Forms <- MCCalls
    Habits <- MCNone
    MaxNumber = 1
    MaxItems = 1
    MaxObjects = 7
    MaxFrames = 2
    MaxLoops = 0
INVARIANTS HoldersBounded AssignmentCopies
SYMMETRY Symmetry
CHECK_DEADLOCK FALSE
