CONSTANTS
  o1 = o1  o2 = o2  k1 = k1
  Obj = {o1, o2, k1}
  Refs = {}
  Const = {k1}
  Statics = {}
  Dtors = {}
  main = main
  Threads = {main}
  Main = main
  None = None
  MaxFrames = 2
  MaxArgs = 1
  MaxTemps = 1
  MaxCollections = 2
  GcThreshold = 2
  MmThreshold = 3
  KeepTemps = FALSE
SPECIFICATION Spec
INVARIANTS TypeOK Accounting NoDangling MarksReset
PROPERTY KeepsPromise
