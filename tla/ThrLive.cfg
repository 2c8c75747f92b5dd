CONSTANTS
  main = main  t1 = t1  t2 = t2
  Threads = {main, t1, t2}
  Main = main
  None = None
  MaxFrames = 3
  MaxCreates = 2
  OutOfMemory = FALSE
  TornLookups = FALSE
SPECIFICATION FairSpec
INVARIANTS ScopeFound
PROPERTIES StartsEventually FatalEnds
