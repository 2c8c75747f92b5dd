CONSTANTS
  s1 = s1
  Obj = {s1}
  Refs = {}
  Const = {}
  Statics = {s1}
  Dtors = {}
  main = main  t1 = t1
  Threads = {main}
  Main = main
  None = None
  MaxFrames = 2
  MaxArgs = 1
  MaxTemps = 1
  MaxCollections = 2
  GcThreshold = 1
  MmThreshold = 3
  KeepTemps = FALSE
SPECIFICATION Spec
INVARIANT StaticsKept
CHECK_DEADLOCK FALSE
