CONSTANTS
  o1 = o1  o2 = o2
  Obj = {o1, o2}
  Refs = {}
  Const = {}
  Statics = {}
  Dtors = {}
  main = main  t1 = t1
  Threads = {main, t1}
  Main = main
  None = None
  MaxFrames = 2
  MaxArgs = 1
  MaxTemps = 1
  MaxCollections = 2
  GcThreshold = 1
  MmThreshold = 3
  KeepTemps = FALSE
SPECIFICATION Spec
INVARIANT NoDangling
CHECK_DEADLOCK FALSE
SYMMETRY PlainSymmetry
