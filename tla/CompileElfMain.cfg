CONSTANTS
  NLines = 2
  MaxClock = 7
SPECIFICATION Spec
INVARIANTS CompileTypeOK ElfRunsItsTest OneTestIsRestored
PROPERTY HandMakesBuildTheSource
