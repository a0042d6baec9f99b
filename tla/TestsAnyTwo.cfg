CONSTANTS
  NEntries = 16
  Top = 152
  NoTest = NoTest
  MaxTests = 2
  Scripts <- RegisteredTests
SPECIFICATION Spec
INVARIANTS CleanTestPasses LossExplained
