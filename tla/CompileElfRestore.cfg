CONSTANTS
  NLines = 2
  MaxClock = 9
SPECIFICATION Spec
INVARIANT SourceIsRestored
