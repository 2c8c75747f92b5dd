CONSTANTS
  r1 = r1  s1 = s1  d1 = d1
  Obj = {r1, s1, d1}
  Refs = {r1}
  Const = {}
  Statics = {s1}
  Dtors = {d1}
  main = main
  Threads = {main}
  Main = main
  None = None
  MaxFrames = 1
  MaxArgs = 1
  MaxTemps = 2
  MaxCollections = 2
  GcThreshold = 2
  MmThreshold = 3
  KeepTemps = FALSE
SPECIFICATION Spec
INVARIANTS HeapExact CountBounded
CHECK_DEADLOCK FALSE
