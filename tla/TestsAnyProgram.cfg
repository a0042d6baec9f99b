CONSTANTS
  NEntries = 3
  Top = 152
  NoTest = NoTest
  MaxTests = 2
  Scripts <- AnyScripts
SPECIFICATION Spec
INVARIANTS TestTypeOK ResetOpensMemory
