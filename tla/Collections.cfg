SPECIFICATION Spec
CONSTANTS
    NaN = 17
    ByteBits = 2
    SizeBits = 4
    Kinds <- MCKinds
    Quantities <- MCQuantities
    Printed <- MCPrinted
    Atol <- MCAtol
    Atof <- MCAtof
    Elements <- MCElements
    Keys <- MCKeys
    Values <- MCValues
    Characters <- MCCharacters
    MaxItems = 3
    KeptItems = 2
INVARIANTS TypeOK ItemsExact AccessExact MethodsExact CmpOrders RoundTrip
PROPERTY ImplementsDictionary
CHECK_DEADLOCK FALSE
