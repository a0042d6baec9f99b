------------------------------- MODULE MCTests -------------------------------
(***************************************************************************)
(* The tests of access_fault.c and page_fault.c run as test programs, and  *)
(* every short program.                                                    *)
(***************************************************************************)
EXTENDS TestProgram, TLC

AF == INSTANCE AccessFault
PF == INSTANCE PageFault
CT == INSTANCE CsrTests
ET == INSTANCE ExceptionTests
TT == INSTANCE TranslationTests

RegisteredTests == AF!Tests @@ PF!Tests @@ CT!Tests @@ ET!Tests @@ TT!Tests

\* Every program of at most Longest steps out of a few that open, close and lock
\* memory, move between the levels and use memory
Longest == 3

Bricks ==
  {[op |-> "goto", to |-> "HU"], [op |-> "goto", to |-> "M"],
   [op |-> "cfg", unit |-> "pmp", entry |-> 0, perm |-> {"X"}, tor |-> TRUE],
   [op |-> "cfg", unit |-> "pmp", entry |-> 1, perm |-> {"R"}, tor |-> TRUE],
   [op |-> "lock", unit |-> "pmp", entry |-> 0], [op |-> "lock", unit |-> "pmp", entry |-> 1],
   [op |-> "addr", unit |-> "pmp", entry |-> 0, at |-> Hspt(0)],
   [op |-> "addr", unit |-> "pmp", entry |-> 1, at |-> Top],
   [op |-> "mprv", on |-> TRUE], [op |-> "setup"], [op |-> "hspt_init"],
   [op |-> "access", kind |-> "load", at |-> A80]}

Programs == UNION {[1..n -> Bricks] : n \in 0..Longest}

AnyScripts == [p \in Programs |-> p]
==============================================================================
