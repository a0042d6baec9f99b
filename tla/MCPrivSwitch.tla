---------------------------- MODULE MCPrivSwitch ----------------------------
(* Values of PrivSwitch's constants for the model checker. *)
EXTENDS PrivSwitchInv

AllSwitches  == Priv \X Priv
SafeSwitches == AllSwitches \ Unsupported
\* priv_change_7: HU, HS and M in any order
HostSwitches == {HU, HS, M} \X {HU, HS, M}

SafeDelegs == {{"ECU"}, {"ECU", "ILI", "DATA", "INST"}}
AllDelegs  == SafeDelegs \union {{}, {"ILI"}, {"ECU", "ECS", "ILI", "DATA", "INST", "SSI"}}
==============================================================================
