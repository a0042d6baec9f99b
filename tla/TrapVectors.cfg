CONSTANTS
  Scripts <- AllTests
  NoTest = NoTest
  MaxTests = 3
SPECIFICATION Spec
INVARIANTS TypeOK KnowsItsLevel
PROPERTIES ContextComesBack TestsComeBack
CHECK_DEADLOCK FALSE
