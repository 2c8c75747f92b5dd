CONSTANTS
  o1 = o1  
  Obj = {o1}
  Refs = {}
  Const = {}
  Statics = {}
  Dtors = {}
  main = main  t1 = t1
  Threads = {main, t1}
  Main = main
  None = None
  MaxFrames = 2
  MaxArgs = 1
  MaxTemps = 1
  MaxCollections = 2
  GcThreshold = 1
  MmThreshold = 2
  KeepTemps = FALSE
SPECIFICATION FairSpec
INVARIANT OneCollector
PROPERTIES FramesStable CollectionTerminates
CHECK_DEADLOCK FALSE
