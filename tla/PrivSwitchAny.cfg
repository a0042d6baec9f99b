SPECIFICATION Spec
CONSTANTS
  Switches <- AllSwitches
  Delegs <- AllDelegs
  Faults = {"ILI", "DATA", "INST"}
  Irqs = {"MEI", "SSI"}
  IrqPoints = {"test", "goto", "handler"}
  SetupAcrossGoto = TRUE
  BareEcalls = {0, 1, 2, 3, 4}
  A0Lost = TRUE
  MaxDepth = 9
INVARIANTS
  TypeOK LowerErrorsUnreachable EcallsAskForPrivilege


