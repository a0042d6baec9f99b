CONSTANTS
  Harts <- AllHarts
  Scripts <- AllScripts
  NoTest = NoTest
SPECIFICATION Spec
INVARIANTS
  TypeOK
  WfiTestsPass
  OnlyOwnInterrupts
  ExternalTestsFail
  ComesAgainOnlyHeld
  LevelLostInSwitchOnly
PROPERTY WfiEnds
CHECK_DEADLOCK FALSE
