------------------------------- MODULE Printing -------------------------------
(***************************************************************************)
(* What the consoles of all platforms have in common: the program prints a *)
(* text, and then calls exit.                                              *)
(***************************************************************************)
EXTENDS Sequences, Integers, FiniteSetsExt, SequencesExt

CONSTANTS
  PLATs,              \* the platforms the program is built for
  Texts,              \* what it may print
  ExitCodes           \* what it may call exit with

\* A plain character, a newline, and a byte with bit 7 as in UTF-8 texts
Kinds == {"c", "n", "h"}

ASSUME PrintingAssumption ==
  /\ PLATs \subseteq {"spike", "nemu", "xiangshan", "qemu", "rocket_fpga"}
  /\ Texts \subseteq Seq(Kinds) /\ ExitCodes \subseteq Int

VARIABLES
  PLAT, text, code,   \* the platform, text and exit code of this run
  printed,            \* history: the characters in the order they were to be sent
  shown               \* what arrived at the terminal
pvars == <<PLAT, text, code, printed, shown>>

PrintingInit ==
  /\ PLAT \in PLATs /\ text \in Texts /\ code \in ExitCodes
  /\ printed = <<>> /\ shown = <<>>
===============================================================================
