---------------------------- MODULE InterruptTests ----------------------------
(***************************************************************************)
(* The tests of wfi_tests.c and external_interrupt.c, as the steps of      *)
(* Interrupts.  Bit 2 of mie and mip is VSSI.                              *)
(***************************************************************************)
EXTENDS Sequences, Integers, TLC

Goto(l)       == <<[op |-> "goto", to |-> l]>>
Csr(c, h, b)  == <<[op |-> "csr", csr |-> c, how |-> h, bits |-> b]>>
Set(c, b)     == Csr(c, "set", b)
Clear(c, b)   == Csr(c, "clear", b)
CsrWrite(c, b) == Csr(c, "write", b)
Setup         == <<[op |-> "setup"]>>
Wfi           == <<[op |-> "wfi"]>>
End           == Goto("M") \o <<[op |-> "end"]>>

AnyLevel == {"HU", "VS", "HS", "M"}
Check(t, c, l) == <<[op |-> "assert", triggered |-> t, causes |-> c, privs |-> l]>>
Quiet          == Check(FALSE, {"any"}, AnyLevel)
CheckIll       == Check(TRUE, {"ILI"}, AnyLevel)
CheckPriv(l)   == Check(TRUE, {"any"}, {l})
CheckCause(c, l) == Check(TRUE, {c}, l)

AllInts == {"SSI", "SEI", "MEI", "VSSI"}

(***************************************************************************)
(* wfi_tests.c                                                             *)
(***************************************************************************)
TwOff  == Clear("mstatus", {"TW"})
\* Seeded bugs: TW is not set, nothing is pended.
BadTwOn == Set("mstatus", {})
BadPend == Set("mip", {})
TwOn   == Set("mstatus", {"TW"})
Pend   == Set("mip", {"VSSI"})
NoDelegation == CsrWrite("medeleg", {}) \o CsrWrite("mideleg", {})

\* Into level l, and wfi there
WfiIn(l)      == Goto(l) \o Setup \o Wfi
Wakes         == WfiIn("M") \o Quiet \o End
WakesThenHS   == WfiIn("M") \o Goto("HS") \o Quiet \o End
StaysIn(l)    == WfiIn(l) \o Quiet \o End
IllegalIn(l)  == WfiIn(l) \o CheckIll \o End
EnableAndPend == Set("mie", {"VSSI"}) \o Pend

wfi_exception_tests_1  == Goto("M") \o TwOff \o IllegalIn("HU")
wfi_exception_tests_2  == Setup \o Goto("M") \o TwOff \o NoDelegation \o Clear("mie", {"VSSI"}) \o Pend \o Wakes
wfi_exception_tests_3  == Setup \o TwOff \o CsrWrite("medeleg", {}) \o StaysIn("HS")
wfi_exception_tests_4  == Setup \o Goto("M") \o TwOff \o NoDelegation \o EnableAndPend \o Set("mideleg", {"VSSI"}) \o Wakes
wfi_exception_tests_5  == Goto("M") \o TwOff \o Set("sie", {}) \o Set("mideleg", {}) \o StaysIn("HS")
wfi_exception_tests_6  == Goto("M") \o TwOff \o Set("mie", {}) \o Set("mideleg", {}) \o StaysIn("M")
wfi_exception_tests_7  == Goto("M") \o TwOff \o CsrWrite("sie", {}) \o CsrWrite("mideleg", AllInts) \o StaysIn("HS")
wfi_exception_tests_8  == Goto("M") \o TwOff \o CsrWrite("mie", {}) \o CsrWrite("mideleg", AllInts) \o StaysIn("M")
wfi_exception_tests_9  == Goto("M") \o TwOn \o IllegalIn("HS")
wfi_exception_tests_10 == Goto("M") \o TwOn \o IllegalIn("HU")
wfi_exception_tests_11 == Goto("M") \o TwOff \o Setup \o Set("mideleg", {"VSSI"}) \o IllegalIn("HU")
wfi_exception_tests_12 == Setup \o Goto("M") \o TwOff \o Set("mideleg", {"VSSI"}) \o StaysIn("HS")
wfi_exception_tests_13 == Setup \o Goto("M") \o TwOff \o CsrWrite("mideleg", {"VSSI"}) \o EnableAndPend \o Set("mideleg", {"VSSI"}) \o WakesThenHS
wfi_exception_tests_14 == Setup \o Goto("M") \o TwOff \o CsrWrite("mideleg", {"VSSI"}) \o Clear("mie", {"VSSI"}) \o Pend \o Wakes
wfi_exception_tests_15 == Setup \o Goto("M") \o TwOn \o CsrWrite("mideleg", {"VSSI"}) \o EnableAndPend \o Wakes
wfi_exception_tests_16 == Setup \o Goto("M") \o TwOn \o CsrWrite("mideleg", {"VSSI"}) \o EnableAndPend \o Set("mideleg", {"VSSI"}) \o WakesThenHS

(***************************************************************************)
(* external_interrupt.c                                                    *)
(***************************************************************************)
\* A part of a test: announce, write the CSRs in M, and look from level l
Part(writes, l, check) == Setup \o Goto("M") \o writes \o Goto(l) \o check

Mie(on) == IF on THEN Set("mstatus", {"MIE"}) ELSE Clear("mstatus", {"MIE"})
Bit(c, i, on) == IF on THEN Set(c, {i}) ELSE Clear(c, {i})
Mei(status, enabled, pending) == Mie(status) \o Bit("mie", "MEI", enabled) \o Bit("mip", "MEI", pending)
Hideleg(b) == CsrWrite("hideleg", b)
NoDelegs   == Clear("mideleg", AllInts) \o Clear("medeleg", {"ECU"})

MeiInM ==
  Part(CsrWrite("mideleg", {}) \o Mei(TRUE, TRUE, TRUE), "M", CheckCause("MEI", AnyLevel))
    \o Part(Mei(TRUE, FALSE, TRUE), "M", Quiet)
    \o Part(Mei(TRUE, TRUE, FALSE), "M", CheckCause("MEI", AnyLevel))
    \o Part(Mei(FALSE, TRUE, TRUE), "M", Quiet)
    \o Part(Mei(FALSE, TRUE, FALSE), "M", Quiet)
    \o Part(Mei(FALSE, FALSE, FALSE), "M", Quiet)

\* The same five parts in HS and in VS
MeiBelow(l) ==
  Part(Mei(TRUE, TRUE, TRUE), l, CheckPriv("M"))
    \o Part(Mie(TRUE) \o Bit("mie", "MEI", TRUE) \o Hideleg(AllInts) \o Bit("mip", "MEI", TRUE), l, CheckPriv(l))
    \o Part(Mie(TRUE) \o Bit("mie", "MEI", FALSE) \o CsrWrite("mideleg", {}) \o Hideleg({})
              \o Bit("mip", "MEI", TRUE), l, Quiet)
    \o Part(Mei(TRUE, TRUE, FALSE), l, CheckCause("MEI", {l}))
    \o Part(Mie(FALSE) \o Bit("mie", "MEI", TRUE) \o NoDelegs \o Bit("mip", "MEI", FALSE), l, Quiet)

external_interrupt_MEI == MeiInM \o MeiBelow("HS") \o MeiBelow("VS") \o End

Sei(status, enabled, pending) ==
  Bit("sstatus", "SIE", status) \o Bit("sie", "SEI", enabled) \o Bit("sip", "SEI", pending)
CheckSei == CheckCause("SEI", {"M"})

SeiInHS ==
  Setup \o Goto("HS") \o Sei(TRUE, TRUE, TRUE) \o Goto("HS") \o CheckSei
    \o Setup \o Goto("HS") \o Sei(TRUE, FALSE, TRUE) \o Goto("HS") \o Quiet
    \o Part(CsrWrite("mideleg", {}) \o Sei(TRUE, TRUE, FALSE), "HS", CheckSei)
    \o Part(Sei(TRUE, FALSE, FALSE), "HS", Quiet)
    \o Part(Sei(FALSE, FALSE, FALSE), "HS", Quiet)

SeiInVS ==
  Part(Sei(TRUE, TRUE, TRUE), "VS", CheckSei)
    \o Part(Sei(TRUE, FALSE, TRUE), "VS", CheckSei)
    \o Part(Sei(TRUE, TRUE, FALSE), "VS", CheckSei)
    \o Part(Sei(TRUE, FALSE, FALSE), "VS", Quiet)
    \o Part(Sei(FALSE, FALSE, FALSE), "VS", Quiet)

external_interrupt_SEI == SeiInHS \o SeiInVS \o End

\* The same part eight times, with other delegations.  VSEIP is read-only in hip.
Vsei(enabled, before, pending, behind, check) ==
  Part(Bit("hie", "VSEI", enabled) \o before \o Bit("hip", "VSEI", pending) \o behind, "VS", check)

CheckVsei(triggered, l) == Check(triggered, {"VSEI"}, {l})
ToHS   == Set("mideleg", AllInts)
ToVS   == ToHS \o Set("hideleg", AllInts)
Undelegated == Clear("mideleg", AllInts) \o Clear("hideleg", AllInts)
OnlyHS == CsrWrite("mideleg", AllInts)

external_interrupt_VSEI ==
  Vsei(TRUE, <<>>, TRUE, <<>>, CheckVsei(TRUE, "M"))
    \o Vsei(TRUE, ToHS, TRUE, <<>>, CheckVsei(TRUE, "HS"))
    \o Vsei(TRUE, ToVS, TRUE, <<>>, CheckVsei(TRUE, "VS"))
    \o Vsei(FALSE, Undelegated, TRUE, <<>>, Quiet)
    \o Vsei(TRUE, <<>>, FALSE, <<>>, CheckVsei(FALSE, "M"))
    \o Vsei(TRUE, <<>>, FALSE, OnlyHS, CheckVsei(FALSE, "HS"))
    \o Vsei(TRUE, <<>>, FALSE, OnlyHS \o Hideleg(AllInts), CheckVsei(FALSE, "VS"))
    \o Vsei(FALSE, <<>>, FALSE, <<>>, Quiet)
    \o End

WfiTests ==
  [wfi_1 |-> wfi_exception_tests_1, wfi_2 |-> wfi_exception_tests_2, wfi_3 |-> wfi_exception_tests_3,
   wfi_4 |-> wfi_exception_tests_4, wfi_5 |-> wfi_exception_tests_5, wfi_6 |-> wfi_exception_tests_6,
   wfi_7 |-> wfi_exception_tests_7, wfi_8 |-> wfi_exception_tests_8, wfi_9 |-> wfi_exception_tests_9,
   wfi_10 |-> wfi_exception_tests_10, wfi_11 |-> wfi_exception_tests_11,
   wfi_12 |-> wfi_exception_tests_12, wfi_13 |-> wfi_exception_tests_13,
   wfi_14 |-> wfi_exception_tests_14, wfi_15 |-> wfi_exception_tests_15,
   wfi_16 |-> wfi_exception_tests_16]

ExternalTests ==
  [MEI |-> external_interrupt_MEI, SEI |-> external_interrupt_SEI, VSEI |-> external_interrupt_VSEI]
===============================================================================
