CONSTANTS
  main = main  t1 = t1
  Threads = {main, t1}
  Main = main
  None = None
  MaxFrames = 3
  MaxCreates = 2
  OutOfMemory = TRUE
  TornLookups = FALSE
SPECIFICATION FairSpec
PROPERTY FatalEnds
CHECK_DEADLOCK FALSE
