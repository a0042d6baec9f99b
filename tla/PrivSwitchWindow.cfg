SPECIFICATION Spec
CONSTANTS
  Switches <- HostSwitches
  Delegs <- SafeDelegs
  Faults = {"DATA"}
  Irqs = {"MEI"}
  IrqPoints = {"goto"}
  SetupAcrossGoto = TRUE
  BareEcalls = {}
  A0Lost = FALSE
  MaxDepth = 8
INVARIANTS
  TestRunsWhereItThinks


