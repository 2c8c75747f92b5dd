CONSTANTS
  MaxNest = 4
  MaxFrames = 2
  Habits = {"nativeFails"}
SPECIFICATION Spec
INVARIANT ExceptionHeld
