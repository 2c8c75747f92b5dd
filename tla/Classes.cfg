SPECIFICATION Spec
CONSTANTS
    x = x
    y = y
    Variables <- MCVariables
    Names <- MCNames
    Bodies <- MCBodies
    Expire = "counts"
    Habits <- MCNone
    MaxBases = 1
    MaxArguments = 2
    MaxNumber = 1
INVARIANTS TypeOK DispatchRight AttributesShared ExpiredOnce VoidKept
SYMMETRY Symmetry
CHECK_DEADLOCK FALSE
