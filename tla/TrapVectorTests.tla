--------------------------- MODULE TrapVectorTests ---------------------------
(***************************************************************************)
(* The tests of xtvec_test.c, as the steps of TrapVectors.                 *)
(***************************************************************************)
EXTENDS Sequences, Integers

Goto(l)      == <<[op |-> "goto", to |-> l], [op |-> "arrive", to |-> l]>>
Status(b)    == <<[op |-> "mstatus", bits |-> b]>>
Enable(i)    == <<[op |-> "enable", int |-> i]>>
Pend(i)      == <<[op |-> "pend", int |-> i]>>
PendS(i)     == <<[op |-> "spend", int |-> i]>>
Deleg(i)     == <<[op |-> "deleg", int |-> i]>>
NoDeleg      == <<[op |-> "nodeleg", bits |-> {"SSI"}]>>
HCsr         == <<[op |-> "hcsr"]>>
DelegIll     == <<[op |-> "medeleg"]>>
Announce     == <<[op |-> "announce"]>>
Arm(t)       == <<[op |-> "arm", trap |-> t, double |-> FALSE]>>
ArmDouble(t) == <<[op |-> "arm", trap |-> t, double |-> TRUE]>>
Ill          == <<[op |-> "illegal"]>>
Check(of)    == <<[op |-> "assert", of |-> of]>>

\* The function returns behind its assertion, without a TEST_END: the next
\* reset_state of main finds the level it is in.
Back == <<[op |-> "reset"]>>
End  == Check("triggered") \o Back

MtvecIs(v)    == <<[op |-> "mtvec", vectored |-> v]>>
StvecIs(v)    == <<[op |-> "stvec", vectored |-> v]>>
MVectored     == StvecIs(FALSE) \o MtvecIs(TRUE)
MDirect       == StvecIs(FALSE) \o MtvecIs(FALSE)
SVectored     == MtvecIs(FALSE) \o StvecIs(TRUE)
Machine       == Goto("M") \o Status({"MIE"}) \o Status({"SIE"})
OpenSsi       == Machine \o Enable("SSI")

(***************************************************************************)
(* xtvec, mnret and smrnmi                                                 *)
(***************************************************************************)
mtvec_test_1 == OpenSsi \o MVectored \o Announce \o Pend("SSI") \o End
mtvec_test_2 == Goto("M") \o MVectored \o Announce \o Ill \o End
mtvec_test_3 == Goto("M") \o MVectored \o Announce \o Goto("HS") \o Ill \o End
mtvec_test_4 == Goto("M") \o MVectored \o Goto("HU") \o Announce \o Ill \o End
mtvec_test_5 == Machine \o Deleg("SSI") \o Announce \o Enable("SSI") \o MVectored
                  \o Announce \o Goto("HS") \o PendS("SSI") \o End
mtvec_test_6 == OpenSsi \o MDirect \o Announce \o Arm(9) \o Pend("SSI") \o End
mtvec_test_7 == OpenSsi \o MDirect \o Announce \o Pend("SSI") \o Ill \o End
stvec_test_1 == Machine \o Deleg("SSI") \o Enable("SSI") \o SVectored
                  \o Announce \o Goto("HS") \o PendS("SSI") \o End
stvec_test_3 == Goto("M") \o DelegIll \o SVectored \o Goto("HU") \o Announce \o Ill \o End

mnret_test_1  == OpenSsi \o MVectored \o Announce \o Pend("SSI") \o End
mnret_test_2  == Goto("M") \o Enable("SSI") \o MVectored \o Status({"MDT"}) \o Announce \o Ill \o End
smrnmi_test_1 == mnret_test_1
smrnmi_test_2 == mnret_test_2
rnnmi_handler == Goto("M") \o Status({"MDT"}) \o MDirect \o Announce \o Ill \o Back

(***************************************************************************)
(* smdbltrp.  NMIE cannot be cleared: the CSRC of 15 and 16 does nothing.  *)
(***************************************************************************)
m_double_trap_10 == Goto("M") \o Status({"MIE"}) \o Enable("SEI") \o MVectored
                      \o Announce \o ArmDouble(1) \o Pend("SEI") \o End

\* An illegal instruction in level l whose M handler raises by t
TrapIn(l, t) == Goto("M") \o MVectored \o Announce \o ArmDouble(t) \o Goto(l) \o Ill \o End

m_double_trap_11  == TrapIn("M", 1)
m_double_trap_12  == TrapIn("M", 2)
m_double_trap_13  == Goto("M") \o MVectored \o Status({"MDT"}) \o Announce \o Ill \o End
m_double_trap_14  == Goto("M") \o MVectored \o Status({"MIE"}) \o Status({"SIE"}) \o Status({"MDT"})
                       \o Enable("SSI") \o Announce \o Pend("SSI") \o Goto("HS") \o End
m_double_trap_15  == Goto("M") \o MVectored \o Status({"MIE"}) \o Status({"SIE"}) \o Enable("SSI")
                       \o Announce \o Pend("SSI") \o Goto("HS") \o End
m_double_trap_16  == mtvec_test_2
m_double_trap_17  == m_double_trap_13
m_double_trap_122 == Machine \o NoDeleg \o Enable("SSI") \o MVectored \o Announce \o Goto("HS")
                       \o ArmDouble(2) \o PendS("SSI") \o End

(***************************************************************************)
(* ssdbltrp                                                                *)
(***************************************************************************)
s_double_trap_1 == Goto("M") \o Status({"SIE"}) \o Status({"SDT"}) \o Check("SIE clear") \o Back
s_double_trap_2 == Goto("M") \o Status({"SIE"}) \o Check("SIE is 1") \o Back
s_double_trap_3 == Goto("M") \o MVectored \o Announce \o Arm(5) \o Ill \o Back
s_double_trap_4 == Goto("M") \o MVectored \o Announce \o Arm(4) \o Goto("HS") \o Ill
                     \o Check("armed") \o Arm(0) \o Back

\* An S interrupt that nobody delegates, pended from HS
ByInterrupt(t)  == OpenSsi \o MVectored \o Announce \o ArmDouble(t) \o Goto("HS") \o PendS("SSI") \o End
s_double_trap_5 == ByInterrupt(2)
s_double_trap_6 == OpenSsi \o MVectored \o Announce \o Arm(2) \o Pend("SSI") \o End
s_double_trap_7 == ByInterrupt(1)

s_double_trap_8  == TrapIn("HS", 1)
s_double_trap_9  == TrapIn("HU", 1)
s_double_trap_10 == TrapIn("HS", 2)
s_double_trap_11 == TrapIn("HU", 2)
s_double_trap_12 == Machine \o Deleg("SSI") \o HCsr \o Enable("SSI") \o MVectored
                      \o Announce \o ArmDouble(2) \o Goto("HS") \o PendS("SSI") \o End

\* A delegated illegal instruction in level l whose HS handler raises by t
DelegatedIn(l, t) == Machine \o DelegIll \o HCsr \o Enable("SSI") \o MVectored \o ArmDouble(t)
                       \o Goto(l) \o Announce \o Ill \o End

s_double_trap_13 == DelegatedIn("HS", 1)
s_double_trap_14 == DelegatedIn("HU", 1)
s_double_trap_16 == DelegatedIn("HU", 2)

Tests ==
  [mtvec_test_1 |-> mtvec_test_1, mtvec_test_2 |-> mtvec_test_2, mtvec_test_3 |-> mtvec_test_3,
   mtvec_test_4 |-> mtvec_test_4, mtvec_test_5 |-> mtvec_test_5, mtvec_test_6 |-> mtvec_test_6,
   mtvec_test_7 |-> mtvec_test_7, stvec_test_1 |-> stvec_test_1, stvec_test_3 |-> stvec_test_3,
   mnret_test_1 |-> mnret_test_1, mnret_test_2 |-> mnret_test_2, smrnmi_test_1 |-> smrnmi_test_1,
   smrnmi_test_2 |-> smrnmi_test_2, rnnmi_handler |-> rnnmi_handler,
   m_double_trap_10 |-> m_double_trap_10, m_double_trap_11 |-> m_double_trap_11,
   m_double_trap_12 |-> m_double_trap_12, m_double_trap_13 |-> m_double_trap_13,
   m_double_trap_14 |-> m_double_trap_14, m_double_trap_15 |-> m_double_trap_15,
   m_double_trap_16 |-> m_double_trap_16, m_double_trap_17 |-> m_double_trap_17,
   m_double_trap_122 |-> m_double_trap_122, s_double_trap_1 |-> s_double_trap_1,
   s_double_trap_2 |-> s_double_trap_2, s_double_trap_3 |-> s_double_trap_3,
   s_double_trap_4 |-> s_double_trap_4, s_double_trap_5 |-> s_double_trap_5,
   s_double_trap_6 |-> s_double_trap_6, s_double_trap_7 |-> s_double_trap_7,
   s_double_trap_8 |-> s_double_trap_8, s_double_trap_9 |-> s_double_trap_9,
   s_double_trap_10 |-> s_double_trap_10, s_double_trap_11 |-> s_double_trap_11,
   s_double_trap_12 |-> s_double_trap_12, s_double_trap_13 |-> s_double_trap_13,
   s_double_trap_14 |-> s_double_trap_14, s_double_trap_16 |-> s_double_trap_16]
==============================================================================
