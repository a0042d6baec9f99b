SPECIFICATION FairSpec
CONSTANTS
  Switches <- SafeSwitches
  Delegs <- SafeDelegs
  Faults = {"ILI", "DATA", "INST"}
  Irqs = {}
  IrqPoints = {}
  SetupAcrossGoto = FALSE
  BareEcalls = {4}
  A0Lost = FALSE
  MaxDepth = 6
INVARIANTS
  RealIsMode NeverStops
PROPERTIES
  SwitchArrives ResetArrives
