CONSTANTS
  Scripts <- AllTests
  NoTest = NoTest
  MaxTests = 1
SPECIFICATION Spec
PROPERTY AllRegistersComeBack
CHECK_DEADLOCK FALSE
