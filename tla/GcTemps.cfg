CONSTANTS
  o1 = o1  o2 = o2
  Obj = {o1, o2}
  Refs = {}
  Const = {}
  Statics = {}
  Dtors = {}
  main = main  t1 = t1
  Threads = {main}
  Main = main
  None = None
  MaxFrames = 2
  MaxArgs = 1
  MaxTemps = 1
  MaxCollections = 2
  GcThreshold = 2
  MmThreshold = 3
  KeepTemps = TRUE
SPECIFICATION Spec
INVARIANT TempsKept
CHECK_DEADLOCK FALSE
SYMMETRY PlainSymmetry
