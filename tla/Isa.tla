---------------------------------- MODULE Isa ----------------------------------
(***************************************************************************)
(* What the tests tell apart of the instruction set: the levels, the kinds *)
(* of access and of instruction, the exceptions, and the enabling bits.    *)
(***************************************************************************)
Levels == {"HU", "HS", "M"}
Blocks == {"zero", "manage", "inval"}
Kinds  == {"load", "lr", "store", "sc", "amo", "exec", "call"} \union Blocks
PageFaults == {"LPF", "SPF", "IPF"}
Causes == {"LAF", "SAF", "IAF", "LAM", "SAM", "ILL", "BKP"} \union PageFaults

\* What the code delegates, or takes from the S-mode handler, one by one or all at
\* once: every cause, and the ecalls of HU and of HS
Delegable == Causes \union {"ECU", "ECS"}

(***************************************************************************)
(* The bits that let a lower level do what M mode does: read a counter,    *)
(* stimecmp, a custom or a state-enabled CSR, use a cache block            *)
(* instruction.                                                            *)
(***************************************************************************)
Counters == {"CY", "TM", "IR", "HPM3", "HPM10"}
States   == {"C", "ENVCFG", "SE0"}
Enables  ==
  ({"mcounteren", "scounteren"} \X Counters) \union ({"mstateen0"} \X States)
    \union ({"menvcfg", "senvcfg"} \X (Blocks \union {"STCE"}))

\* An instruction, by what decides whether it is legal.  A counter and a state
\* stand for an access to the CSR.
Insns ==
  Counters \union States
    \union {"invalid", "machine", "supervisor", "satp", "sinval", "wfi", "sret", "stimecmp", "ebreak", "ecall"}
================================================================================
