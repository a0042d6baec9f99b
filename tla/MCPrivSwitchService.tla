------------------------- MODULE MCPrivSwitchService -------------------------
(* Values of PrivSwitchService's constants for the model checker. *)
EXTENDS PrivSwitchService

SafeSwitches == (Priv \X Priv) \ Unsupported
SafeDelegs   == {{"ECU"}, {"ECU", "ILI", "DATA", "INST"}, {"ECU", "SSI"}}
==============================================================================
