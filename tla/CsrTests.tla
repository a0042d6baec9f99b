------------------------------- MODULE CsrTests -------------------------------
(***************************************************************************)
(* The tests of Zicntr_test.c and stateen_test.c, and those of csr_tests.c *)
(* about what M mode lets the lower levels do, as the steps of             *)
(* TestProgram.                                                            *)
(***************************************************************************)
EXTENDS TestSteps

Legal(i)   == Setup \o Insn(i) \o Check("none")
Illegal(i) == Setup \o Insn(i) \o Check("ILL")

\* A read, and a write that changes nothing
Twice(check) == check \o check

At(l, checks) == Goto(l) \o checks

(***************************************************************************)
(* The tests there are for every counter.                                  *)
(***************************************************************************)
ClosedByM(b, in_hu, in_hs) == Goto("M") \o Disable("mcounteren", b) \o At("HU", in_hu) \o At("HS", in_hs)

OpenToHS(b, ok) == Goto("M") \o Enable("mcounteren", b) \o ok \o At("HS", ok) \o End

ClosedByS(b, ill) ==
  Goto("M") \o Disable("scounteren", b) \o Enable("mcounteren", b) \o At("HU", ill) \o End

OpenToAll(b, ok) ==
  Goto("M") \o Enable("scounteren", b) \o Enable("mcounteren", b)
    \o ok \o At("HU", ok) \o At("HS", ok) \o End

ClosedBySAgain(b, ill) ==
  Goto("M") \o Enable("mcounteren", b) \o Disable("scounteren", b) \o At("HU", ill) \o End

OpenToM(b, ok) == Goto("M") \o Disable("mcounteren", b) \o Disable("scounteren", b) \o ok

TimeTests ==
  LET ok == Legal("TM")
      ill == Illegal("TM")
  IN  [time_test_1 |-> ClosedByM("TM", ill, ill),
       time_test_2 |-> OpenToHS("TM", ok),
       time_test_3 |-> ClosedByS("TM", ill),
       time_test_4 |-> OpenToAll("TM", ok),
       time_test_5 |-> ClosedBySAgain("TM", ill),
       time_test_6 |-> OpenToM("TM", ok)]

CycleClosed == ClosedByM("CY", Twice(Illegal("CY")), Twice(Illegal("CY")))

CycleTests ==
  LET ok == Twice(Legal("CY"))
      ill == Twice(Illegal("CY"))
  IN  [cycle_test_1 |-> CycleClosed,
       cycle_test_2 |-> OpenToHS("CY", ok),
       cycle_test_3 |-> ClosedByS("CY", ill),
       cycle_test_4 |-> OpenToAll("CY", ok),
       cycle_test_5 |-> ClosedBySAgain("CY", ill),
       cycle_test_6 |-> OpenToM("CY", ok)]

InstretClosed == ClosedByM("IR", Illegal("IR"), Illegal("IR"))

InstretTests ==
  LET ok == Twice(Legal("IR"))
      ill == Twice(Illegal("IR"))
  IN  [instret_test_1 |-> InstretClosed,
       instret_test_2 |-> OpenToHS("IR", ok),
       instret_test_3 |-> ClosedByS("IR", ill),
       instret_test_4 |-> OpenToAll("IR", ok),
       instret_test_5 |-> ClosedBySAgain("IR", ill),
       instret_test_6 |-> OpenToM("IR", ok)]

HpmClosed == ClosedByM("HPM3", Twice(Illegal("HPM3")), Twice(Illegal("HPM3")))

HpmTests ==
  LET ok == Twice(Legal("HPM3"))
      ill == Twice(Illegal("HPM3"))
  IN  [HPM_test_1 |-> HpmClosed,
       HPM_test_2 |-> OpenToHS("HPM3", ok),
       HPM_test_3 |-> ClosedByS("HPM3", ill),
       HPM_test_4 |-> OpenToAll("HPM3", ok),
       HPM_test_5 |-> ClosedBySAgain("HPM3", ill),
       HPM_test_6 |-> OpenToM("HPM3", ok)]

(***************************************************************************)
(* stateen_test.c.  No custom CSR of U mode is implemented, so reading one *)
(* is illegal whatever the bits; the test that expects it to succeed is    *)
(* left out.                                                               *)
(***************************************************************************)
\* A write of sstateen0
Sstateen0 == Insn("SE0")

CustomTests ==
  LET open == Goto("M") \o Enable("mstateen0", "C") \o Sstateen0
      closed == Goto("M") \o Disable("mstateen0", "C")
  IN  [stateen_C_test_1 |-> closed \o At("HU", Illegal("invalid")) \o At("HS", Illegal("C")) \o End,
       stateen_C_test_2 |-> open \o At("HU", Illegal("invalid")),
       stateen_C_test_3 |-> closed \o At("M", Legal("C")) \o End,
       stateen_C_test_4 |-> open \o At("HU", Illegal("invalid")),
       stateen_C_test_6 |-> open \o At("HS", Legal("C"))]

StateOpen(b) ==
  LET open == Goto("M") \o Enable("mstateen0", b)
  IN  open \o At("HS", Legal(b)) \o open \o At("M", Legal(b)) \o open \o At("HU", Illegal(b)) \o End

StateClosed(b) == Goto("M") \o Disable("mstateen0", b)

EnvcfgTests ==
  LET ill == Illegal("ENVCFG")
  IN  [stateen_ENVCFG_test_1 |-> StateClosed("ENVCFG") \o At("HU", ill) \o At("HS", ill),
       stateen_ENVCFG_test_2 |-> StateClosed("ENVCFG") \o At("M", Legal("ENVCFG")) \o End,
       stateen_ENVCFG_test_3 |-> StateOpen("ENVCFG")]

Se0Tests ==
  LET ill == Illegal("SE0")
  IN  [stateen_SE0_test_1 |-> StateClosed("SE0") \o At("HS", ill) \o At("HU", ill) \o End,
       stateen_SE0_test_2 |-> StateClosed("SE0") \o At("M", Legal("SE0")) \o End,
       stateen_SE0_test_3 |-> StateOpen("SE0"),
       stateen_SE0_test_4 |->
         Goto("M") \o Enable("mstateen0", "SE0") \o Sstateen0 \o At("M", Legal("SE0")) \o End]

\* It writes the register bit by bit, then all of it, and prints what it holds.
WriteMstateen0 ==
  [stateen_test_1 |->
     Goto("M") \o Enable("mstateen0", "C") \o EnableAll({"mstateen0"} \X States) \o End]

(***************************************************************************)
(* csr_tests.c: stimecmp, the cache block instructions on the first line   *)
(* of memory, and single tests of the PMP and of mstatus.                  *)
(***************************************************************************)
Stce(b) == IF b THEN Enable("menvcfg", "STCE") ELSE Disable("menvcfg", "STCE")
Tm(b)   == IF b THEN Enable("mcounteren", "TM") ELSE Disable("mcounteren", "TM")

TimecmpTests ==
  LET ok == Twice(Legal("stimecmp"))
      ill == Twice(Illegal("stimecmp"))
  IN  [timecmp_test_1 |-> Stce(FALSE) \o Tm(FALSE) \o At("HS", ill) \o At("HU", ill),
       timecmp_test_2 |-> Stce(TRUE) \o Tm(FALSE) \o At("HU", ill) \o At("HS", ill),
       timecmp_test_3 |-> Stce(TRUE) \o Tm(TRUE) \o At("HU", ill),
       timecmp_test_4 |-> Stce(TRUE) \o Tm(TRUE) \o ok \o At("HS", ok)]

TimecmpTestsOff ==
  LET ok == Twice(Legal("stimecmp"))
      ill == Twice(Illegal("stimecmp"))
  IN  [timecmp_test_5 |-> Stce(FALSE) \o Tm(TRUE) \o At("HS", ill) \o At("HU", ill),
       timecmp_test_6 |->
         Stce(FALSE) \o Tm(FALSE) \o At("M", ok) \o Stce(FALSE) \o Tm(TRUE) \o At("M", ok)
           \o Stce(TRUE) \o Tm(FALSE) \o At("M", ok)]

\* The block instructions that a bit of menvcfg and senvcfg governs
\* clean is tried together with flush.
Lines(block, c) ==
  LET line == Expect(block, RamBase, c)
  IN  IF block = "manage" THEN Twice(line) ELSE line

EnvClosed(block) ==
  Goto("M") \o Disable("menvcfg", block) \o Lines(block, "none")
    \o At("HS", Lines(block, "ILL")) \o At("HU", Lines(block, "ILL")) \o End

EnvClosedToHU(block) ==
  Goto("M") \o Enable("menvcfg", block) \o Disable("senvcfg", block) \o Lines(block, "none")
    \o At("HS", Lines(block, "none")) \o At("HU", Lines(block, "ILL"))

EnvOpen(block) ==
  Goto("M") \o Enable("menvcfg", block) \o Enable("senvcfg", block) \o Setup \o Goto("HU")

ZeroTests ==
  [menvcfg_cbze_tests_1 |-> EnvClosed("zero"),
   menvcfg_cbze_tests_2 |-> EnvClosedToHU("zero") \o End,
   senvcfg_cbze_tests_3 |-> EnvOpen("zero") \o Lines("zero", "none") \o End]

ManageTests ==
  [menvcfg_cbzfe_tests_1 |-> EnvClosed("manage"),
   menvcfg_cbzfe_tests_2 |-> EnvClosedToHU("manage") \o End,
   senvcfg_cbzfe_tests_3 |-> EnvOpen("manage") \o Lines("manage", "none") \o End]

\* The fields have two bits; either value enables.
InvalTests ==
  LET open == EnvOpen("inval") \o Lines("inval", "none")
  IN  [menvcfg_cbie_tests_1 |-> EnvClosed("inval"),
       menvcfg_cbie_tests_2 |-> EnvClosedToHU("inval") \o EnvClosedToHU("inval") \o End,
       senvcfg_cbie_tests_3 |-> open \o open \o open \o open \o End]

\* The region an entry with W and no R is meant to close to stores
ReservedPerm ==
  [pmp_test_1 |->
     Goto("M") \o Addr(0, Afff) \o CfgReg(0, Perms) \o CfgReg(8, {}) \o Cfg(12, Perms) \o Cfg(13, Perms)
       \o Cfg(15, Perms) \o Addr(12, RamBase) \o Addr(13, A120) \o Addr(14, Ac00) \o Addr(15, A1000)
       \o CfgReg(0, {}) \o Addr(0, A800) \o Addr(1, A810) \o Cfg(1, {"W", "X"})
       \o At("HS", Expect("store", A803, "SAF")) \o End]

UserPageFromS ==
  [mstatus_csr_tests_1 |->
     Setup \o Goto("HS") \o HsptInit \o Goto("M") \o Sum(FALSE) \o Setup \o Goto("HS")
       \o Access("load", hs_page_base("VSURWX_GURWX")) \o Check("LPF") \o End]

Tests ==
  TimeTests @@ CycleTests @@ InstretTests @@ HpmTests @@ CustomTests @@ EnvcfgTests @@ Se0Tests
    @@ WriteMstateen0 @@ TimecmpTests @@ TimecmpTestsOff @@ ZeroTests @@ ManageTests @@ InvalTests
    @@ ReservedPerm @@ UserPageFromS
===============================================================================
