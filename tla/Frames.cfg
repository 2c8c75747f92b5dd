CONSTANTS
  MaxNest = 6
  MaxFrames = 4
  Habits = {}
SPECIFICATION Spec
INVARIANTS ExceptionHeld SuspendedClean LoopFlags
PROPERTIES ImplementsControl
