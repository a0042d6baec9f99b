SPECIFICATION HSpec
CONSTANTS
  Switches <- SafeSwitches
  Delegs <- SafeDelegs
  Faults = {"ILI", "DATA", "INST"}
  Irqs = {"MEI", "SSI"}
  IrqPoints = {"test"}
  SetupAcrossGoto = TRUE
  BareEcalls = {4}
  A0Lost = FALSE
  MaxDepth = 6
INVARIANTS
  CallsInv TestRunsWhereItThinks OnlyUntestedStops
PROPERTIES
  OnlySwitchesSwitch ImplementsService
