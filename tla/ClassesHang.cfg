SPECIFICATION Spec
CONSTANTS
    x = x
    y = y
    Variables <- MCVariables
    Names <- MCNames
    Bodies <- MCBodies
    Expire = "assigns"
    Habits <- MCNone
    MaxBases = 1
    MaxArguments = 2
    MaxNumber = 1
INVARIANTS AssignmentEnds
SYMMETRY Symmetry
CHECK_DEADLOCK FALSE
