---------------------------- MODULE ExceptionTests ----------------------------
(***************************************************************************)
(* The tests of illegal_except.c, ebreak_tests.c, addr_unaligned.c,        *)
(* priv_change.c and mix_instruction.c, as the steps of TestProgram.       *)
(***************************************************************************)
EXTENDS TestSteps

Illegal(i) == Setup \o Insn(i) \o Check("ILL")
Legal(i)   == Setup \o Insn(i) \o Check("none")

At(l, checks) == Goto(l) \o checks

(***************************************************************************)
(* illegal_except.c.  Left out are its tests 2, 8 and 16, which need a     *)
(* choice of the hart's designers or an instruction it need not have.      *)
(***************************************************************************)
\* Instructions and CSRs that do not exist, or are read-only, and those of a higher
\* level
NotThere ==
  [illegal_except_1 |->
     Setup \o Goto("M") \o Illegal("invalid") \o Illegal("invalid")
       \o Setup \o Goto("M") \o Insn("invalid") \o Check("ILL") \o At("HS", Illegal("machine")) \o End]

HigherLevel ==
  [illegal_except_3 |->
     Goto("M") \o Setup \o Insn("machine") \o Insn("supervisor") \o Check("none") \o Reset
       \o At("HS", Illegal("machine")) \o At("HU", Illegal("machine")) \o End]

\* What TVM takes from HS
FenceCheck(c) == Setup \o Fence \o Check(c)
Fences(l, c) == At(l, FenceCheck(c)) \o At(l, Setup \o Insn("sinval") \o Check(c))

TvmTests ==
  [illegal_except_4 |-> Goto("M") \o Satp0 \o Tvm(TRUE) \o At("HS", Illegal("satp")) \o End,
   illegal_except_5 |->
     Goto("M") \o Tvm(TRUE) \o Fences("HS", "ILL") \o Goto("M") \o Tvm(FALSE) \o Fences("HS", "none") \o End,
   illegal_except_6 |-> Goto("M") \o Reset \o Tvm(TRUE) \o At("HS", Illegal("sinval")) \o End,
   illegal_except_7 |-> Setup \o Goto("M") \o Reset \o At("HU", Illegal("sinval")) \o End]

Returns ==
  [illegal_except_9 |->
     Setup \o Goto("M") \o Tsr(TRUE) \o Goto("HS") \o Insn("sret") \o Check("ILL") \o End,
   illegal_except_10 |->
     Goto("M") \o Tsr(FALSE) \o Goto("HU") \o Goto("HS") \o Setup \o Goto("HU") \o Check("none") \o End]

DebugReturn ==
  LET dret(l) == Goto("M") \o Tsr(FALSE) \o At(l, Illegal("invalid"))
  IN  [illegal_except_11 |-> dret("M") \o dret("HU") \o dret("HS")]

\* Of four reads the last one is asserted.
CountersClosed ==
  LET reads == Setup \o Insn("CY") \o Setup \o Insn("TM") \o Setup \o Insn("IR") \o Illegal("HPM10")
  IN  [illegal_except_12 |->
         Goto("M") \o DisableAll({"mcounteren"} \X Counters) \o At("HU", reads) \o At("HS", reads) \o End]

TvmAnyway ==
  LET in(l, c) == Goto("M") \o Tvm(FALSE) \o Fences(l, c) \o Goto("M") \o Tvm(TRUE) \o Fences(l, c) \o End
  IN  [illegal_except_13 |-> in("HU", "ILL"), illegal_except_14 |-> in("M", "none")]

DebugCsrs ==
  [illegal_except_15 |->
     At("M", Illegal("invalid")) \o At("HS", Illegal("invalid")) \o At("HU", Illegal("invalid")) \o End]

UnitCsrs ==
  LET four == Illegal("machine") \o Illegal("machine") \o Illegal("machine") \o Illegal("machine")
  IN  [illegal_except_17 |-> At("HS", four) \o At("HU", four)]

(***************************************************************************)
(* ebreak_tests.c, and addr_unaligned.c, once with all exceptions          *)
(* delegated each.                                                         *)
(***************************************************************************)
DelegateAll == DelegateOnly(Delegable)

Breaks(l, privs) == At(l, Setup \o Insn("ebreak") \o CheckIn("BKP", privs))

EbreakTests ==
  [ebreak_tests_1 |-> Breaks("M", Levels) \o Breaks("HS", Levels) \o Breaks("HU", Levels) \o End,
   ebreak_tests_2 |-> Goto("M") \o DelegateAll \o Breaks("M", {"M"}) \o Breaks("HS", {"HS"}) \o Breaks("HU", {"HS"})]

Page == hs_page_base("VSRWX_GURWX")

\* A misaligned access, in so many sizes
Skewed(k, c, privs) == Setup \o Misaligned(k, Page) \o CheckIn(c, privs)

Accesses(first, privs) ==
  LET lam == Skewed("load", "LAM", privs)
      sam == Skewed("store", "SAM", privs)
      sc  == Skewed("sc", "SAF", privs)
      lr  == Skewed("lr", "LAF", privs)
  IN  Expect("load", first, "none") \o Setup \o Misaligned("load", first) \o CheckIn("LAM", privs)
        \o lam \o lam \o Expect("store", Page, "none") \o sam \o sam \o sam
        \o Skewed("amo", "SAF", privs) \o sc \o sc \o lr \o lr

UnalignedPaged ==
  [addr_unaligned_1 |-> Setup \o Goto("HS") \o HsptInit \o Accesses(Page, Levels) \o End]

UnalignedPagedDelegated ==
  [addr_unaligned_2 |-> Setup \o DelegateAll \o HsptInit \o Goto("HS") \o Accesses(Page, {"HS"})]

UnalignedMachine ==
  [addr_unaligned_3 |-> Setup \o Goto("M") \o Accesses(RamBase, Levels) \o End]

UnalignedMachineDelegated ==
  [addr_unaligned_4 |-> Setup \o DelegateAll \o Goto("M") \o Accesses(Page, {"M"})]

(***************************************************************************)
(* priv_change.c: which handler an exception reaches.  Its test 7 wanders  *)
(* at random.                                                              *)
(***************************************************************************)
Reaches(h, what) == Setup \o what \o CheckIn("any", {h})

NoAccess == Access("load", hs_page_base("VSI_GI"))

PageFaultsToM ==
  [priv_change_1 |->
     Goto("HS") \o HsptInit \o Setup \o Goto("M") \o DelegateOnly({}) \o At("HS", Reaches("M", NoAccess)) \o End,
   priv_change_2 |->
     Goto("HS") \o HsptInit \o Goto("M") \o Undelegate("LPF") \o Goto("HS")
       \o Setup \o NoAccess \o CheckIn("LPF", {"M"}) \o End]

OthersToM ==
  [priv_change_3 |-> Goto("M") \o Reset \o DelegateOnly({}) \o Reaches("M", Insn("ecall")) \o End,
   priv_change_4 |-> Goto("M") \o Undelegate("ILL") \o At("HU", Reaches("M", Insn("machine"))) \o End,
   priv_change_8 |-> Goto("M") \o DelegateAll \o Reaches("M", Insn("invalid")) \o End]

IllegalsToHS ==
  [priv_change_5 |->
     Goto("M") \o Reset \o DelegateOnly({"ILL"}) \o Delegate("ECU") \o At("HU", Reaches("HS", Insn("machine"))),
   priv_change_6 |-> Goto("M") \o DelegateOnly({"ILL"}) \o At("HS", Reaches("HS", Insn("machine")))]

(***************************************************************************)
(* mix_instruction.c, up to the wfi.  The announcement is made in HS,      *)
(* before the switch to M whose ecall takes it: neither test goes on       *)
(* behind the wfi.                                                         *)
(***************************************************************************)
UpToWfi ==
  Goto("M") \o Disable("mcounteren", "TM") \o At("HS", Illegal("TM"))
    \o Setup \o Goto("M") \o Tw(TRUE) \o Goto("HU") \o Insn("wfi")

MixTests == [mix_instruction_1 |-> UpToWfi, mix_instruction_2 |-> UpToWfi]

Tests ==
  NotThere @@ HigherLevel @@ TvmTests @@ Returns @@ DebugReturn @@ CountersClosed @@ TvmAnyway
    @@ DebugCsrs @@ UnitCsrs @@ EbreakTests @@ UnalignedPaged @@ UnalignedPagedDelegated
    @@ UnalignedMachine @@ UnalignedMachineDelegated @@ PageFaultsToM @@ OthersToM @@ IllegalsToHS @@ MixTests
===============================================================================
