CONSTANTS
  main = main  t1 = t1  t2 = t2
  Threads = {main, t1, t2}
  Main = main
  None = None
  MaxFrames = 3
  MaxCreates = 2
  OutOfMemory = TRUE
  TornLookups = TRUE
SPECIFICATION Spec
INVARIANTS TypeOK NoStaleScope
PROPERTIES ImplementsStacks
CHECK_DEADLOCK FALSE
