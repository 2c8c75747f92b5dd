CONSTANTS
  d1 = d1
  Obj = {d1}
  Refs = {}
  Const = {}
  Statics = {}
  Dtors = {d1}
  main = main  t1 = t1
  Threads = {main}
  Main = main
  None = None
  MaxFrames = 2
  MaxArgs = 1
  MaxTemps = 1
  MaxCollections = 2
  GcThreshold = 1
  MmThreshold = 3
  KeepTemps = FALSE
SPECIFICATION FairSpec
PROPERTY CollectionTerminates
CHECK_DEADLOCK FALSE
