------------------------------- MODULE PageFault -------------------------------
(***************************************************************************)
(* The tests of page_fault.c in its Sv48 build, as the steps of            *)
(* TestProgram.  Most come in a version for every kind of access.          *)
(***************************************************************************)
EXTENDS TestSteps

Cacheable == Perms \union {"cached"}

Page(p) == hs_page_base(p)

\* A ret instruction into the page the test will call
StoreRet(p) == Access("store", phys_page_base(p))

Load(p, c)  == Expect("load", Page(p), c)
Store(p, c) == Expect("store", Page(p), c)
Amo(p, c)   == Expect("amo", Page(p), c)

Calls(a)  == Expect("call", a, "none")
NoExec(a) == Expect("exec", a, "IPF")

Paged    == Goto("HS") \o HsptInit
Enter(l) == Fence \o Goto(l)

\* The whole of memory through the first two entries of the PMA
LowRegion(p) ==
  PmaEnvironment \o PmaAddr(0, 0) \o PmaAddr(1, EndOfMemory) \o PmaCfg(1, p)

(***************************************************************************)
(* The tests that exist for several kinds of access.                       *)
(***************************************************************************)
NotCanonical(k, c) == Paged \o Expect(k, Beyond, c) \o End

NotCanonicalInUser(k, c) == Paged \o Goto("M") \o InUser(Expect(k, Beyond, c))

UserPage(k, sum, c) ==
  Paged \o Goto("M") \o Sum(sum) \o Enter("HS") \o Expect(k, Page("VSURWX_GURWX"), c) \o End

GlobalPages(k, p, c) ==
  Paged \o Goto("M") \o Add("G") \o Enter("HS") \o Expect(k, Page(p), c)
    \o Goto("M") \o Add("G") \o InUser(Expect(k, Page(p), c))

DelegatedTo(k, p, c) ==
  Goto("M") \o Delegate(c) \o Paged \o Setup \o Access(k, Page(p)) \o CheckIn(c, {"HS"})

InUserMode(k, p) == Paged \o Goto("M") \o InUser(Expect(k, Page(p), "none"))

\* Data accesses of M as those of S
FromMachine(k, p) == Paged \o Goto("M") \o AsSupervisor \o Fence \o Expect(k, Page(p), "none")

Redirected(k, a, c) == Setup \o Access(k, a) \o Mprv(FALSE) \o Check(c)

FlagRemoved(k, p, f, c) ==
  Paged \o Goto("M") \o AsSupervisor \o Fence \o Redirected(k, Page(p), "none")
    \o Goto("M") \o Del(f) \o AsSupervisor \o Fence \o Redirected(k, Page(p), c)

\* A flag removed shows behind a fence only, and then to HU too.
FlagCached(k, p, q, f, c) ==
  Expect(k, Page(p), "none") \o Goto("M") \o Del(f) \o Goto("HS") \o Expect(k, Page(p), "none")
    \o Fence \o Expect(k, Page(p), c)
    \o Goto("M") \o Del(f) \o InUser(Expect(k, Page(q), c))

\* A superpage is mapped, its PPN misaligned, and set right again.
Remap(s, aligned) == Goto("M") \o Super(s, aligned) \o Enter("HS")

Realigned(s, ok, bad) == ok \o Remap(s, FALSE) \o bad \o Remap(s, TRUE) \o ok

\* A test of fetches through entries the hart may still hold
Fetches(p, before, change, after) ==
  StoreRet(p) \o Paged \o before \o Goto("M") \o change \o Goto("HS") \o after

Global == Add("G") \o Fence

\* A pointer of the walk marked at every level, by tables built anew each time.  The
\* root goes last: with it the code of the test itself has no translation.
BrokenAt(k, mark) ==
  Goto("M") \o HsptInit \o Pointer(k, mark) \o Enter("HS") \o Setup \o Access("exec", Page("VSRWX_GRWX"))

BrokenWalk(mark) ==
  BrokenAt(2, mark) \o Check("IPF") \o BrokenAt(1, mark) \o Check("IPF")
    \o BrokenAt(0, mark) \o Satp0 \o Check("IPF")

\* Loads of M as those of MPP, with mstatus.SUM or MXR as given
MachineLoad(mpp, sum, p, c) ==
  Mprv(TRUE) \o MppBit(mpp) \o Sum(sum) \o Fence \o Expect("load", Page(p), c)

BriefLoad(mpp, sum, p, c) ==
  Mprv(TRUE) \o MppBit(mpp) \o Sum(sum) \o Fence \o Setup \o Access("load", Page(p))
    \o Mprv(FALSE) \o MppBit(FALSE) \o Check(c)

WithMxr(mxr) == Paged \o Goto("M") \o MppBit(TRUE) \o Mprv(TRUE) \o Mxr(mxr) \o Fence

MxrLoad(mxr, p) == WithMxr(mxr) \o Expect("load", Page(p), "none")

NoMxrLoad(mxr, p) ==
  WithMxr(mxr) \o Setup \o Access("load", Page(p)) \o MppBit(FALSE) \o Mprv(FALSE) \o Check("LPF")

\* sc and lr
Pair(c, d, a) == Both("sc", c, "lr", d, a)

(***************************************************************************)
(* The scripts, one group of neighbouring tests per definition.            *)
(***************************************************************************)
ExecPages ==
  [instruction_page_fault_1 |->
     Paged \o Goto("HS") \o Access("store", Page("VSRWX_GRWX")) \o Fence \o Calls(Page("VSRWX_GRWX"))
       \o Goto("M") \o Add("reserved") \o Enter("HS") \o NoExec(Page("VSRWX_GRWX"))
       \o Goto("M") \o HsptInit \o Enter("HS") \o NoExec(Page("VSI_GI"))
       \o Goto("M") \o Enter("HS") \o NoExec(Page("VSRW_GRW"))
       \o Goto("M") \o StoreRet("VSRWX_GRWX") \o AsSupervisor \o Fence \o Setup \o Goto("HS")
       \o Access("call", Page("VSRWX_GRWX")) \o Check("none") \o End]

ExecInUser ==
  [instruction_page_fault_2_1 |->
     Paged \o Goto("HS") \o Access("store", Page("VSRWX_GRWX")) \o Goto("M")
       \o InUser(Calls(Page("VSRWX_GRWX"))),
   instruction_page_fault_2_2 |->
     Paged \o Goto("HS") \o Access("store", Page("VSRWX_GRWX")) \o Goto("M")
       \o InUser(NoExec(Page("VSI_GI"))),
   instruction_page_fault_2_3 |->
     Paged \o Goto("HS") \o Access("store", Page("VSRWX_GRWX")) \o Goto("M")
       \o InUser(NoExec(Page("VSRW_GRW")))]

ExecAccessed ==
  [instruction_page_fault_3 |->
     Paged \o Goto("M") \o StoreRet("VSRWX_GRWX") \o StoreRet("VSURWX_GRWX") \o Enter("HS") \o Calls(Page("VSRWX_GRWX"))
       \o Goto("M") \o Del("A") \o Goto("HS") \o Calls(Page("VSRWX_GRWX")) \o Fence \o NoExec(Page("VSRWX_GRWX")),
   instruction_page_fault_4 |->
     Paged \o Goto("M") \o StoreRet("VSURWX_GRWX") \o InUser(Calls(Page("VSURWX_GRWX"))),
   instruction_page_fault_5 |->
     Paged \o Goto("M") \o StoreRet("VSURWX_GRWX") \o UAllow \o Goto("M") \o Del("A")
       \o InUser(NoExec(Page("VSURWX_GRWX")))]

ExecAddress ==
  [instruction_page_fault_6 |-> NotCanonical("exec", "IPF"),
   instruction_page_fault_7 |-> NotCanonicalInUser("exec", "IPF"),
   instruction_page_fault_8 |->
     Paged \o NoExec(Page("VSURWX_GURWX")) \o Goto("M") \o UAllow \o StoreRet("VSURWX_GURWX")
       \o Enter("HU") \o Calls(Page("VSURWX_GURWX"))]

ExecOnly ==
  [instruction_page_fault_9 |->
     StoreRet("VSX_GX") \o Fence \o Paged \o Calls(Page("VSX_GX"))
       \o Goto("M") \o StoreRet("VSUX_GX") \o InUser(Calls(Page("VSUX_GX"))),
   instruction_page_fault_10 |->
     Paged \o Goto("M") \o Add("G") \o StoreRet("VSRWX_GURWX") \o Enter("HS") \o Calls(Page("VSRWX_GURWX"))
       \o Goto("M") \o Add("G") \o UAllow \o StoreRet("VSRWX_GURWX") \o Enter("HU") \o Calls(Page("VSRWX_GURWX")),
   instruction_page_fault_11 |-> GlobalPages("exec", "VSRW_GURWX", "IPF"),
   instruction_page_fault_12 |-> DelegatedTo("exec", "VSRW_GURWX", "IPF")]

ExecMega ==
  [instruction_page_fault_13 |->
     Goto("M") \o Paged \o Goto("M") \o Access("store", Mega0) \o Enter("HS") \o Calls(Mega0)
       \o Remap("2M", FALSE) \o NoExec(Mega0)
       \o Goto("M") \o Super("2M", TRUE) \o Access("store", Mega0) \o Enter("HS") \o Expect("load", Mega0, "none"),
   instruction_page_fault_14 |->
     Goto("M") \o LowRegion(Cacheable) \o Paged \o Goto("M") \o Access("store", Giga3) \o Enter("HS") \o Calls(Giga3)
       \o Remap("1G", FALSE) \o NoExec(Giga3)
       \o Goto("M") \o Super("1G", TRUE) \o Access("store", Giga3) \o Enter("HS") \o Calls(Giga3) \o End]

ExecTera ==
  [instruction_page_fault_15 |->
     Goto("M") \o LowRegion(Cacheable) \o Paged \o Goto("M") \o Super("512G", TRUE) \o Access("store", Tera1)
       \o Enter("HS") \o Calls(Tera1) \o Remap("512G", FALSE) \o NoExec(Tera1)
       \o Goto("M") \o Super("512G", TRUE) \o Access("store", Tera1) \o Enter("HS") \o Calls(Tera1) \o End]

ExecWalk ==
  [instruction_page_fault_16 |-> BrokenWalk("invalid"),
   instruction_page_fault_17 |-> BrokenWalk("reserved")]

ExecFence ==
  [instruction_page_fault_18 |->
     Fetches("VSRWX_GRWX", Calls(Page("VSRWX_GRWX")), Del("X"),
       Calls(Page("VSRWX_GRWX")) \o FenceRs("VSRWX_GRWX", "0") \o NoExec(Page("VSRWX_GRWX"))),
   instruction_page_fault_19 |->
     Fetches("VSRWX_GRWX", Global \o Calls(Page("VSRWX_GRWX")), Del("X"),
       Calls(Page("VSRWX_GRWX")) \o FenceRs("VSRWX_GRWX", "other") \o Calls(Page("VSRWX_GRWX"))),
   instruction_page_fault_20 |->
     Fetches("VSRW_GRW", NoExec(Page("VSRW_GRW")), Add("X"),
       NoExec(Page("VSRW_GRW")) \o FenceRs("VSRW_GRW", "0") \o Calls(Page("VSRW_GRW")))]

ExecFenceGlobal ==
  [instruction_page_fault_21 |->
     Fetches("VSRW_GRW", Global \o NoExec(Page("VSRW_GRW")), Add("X"),
       NoExec(Page("VSRW_GRW")) \o FenceRs("VSRW_GRW", "other") \o NoExec(Page("VSRW_GRW"))),
   instruction_page_fault_22 |->
     Fetches("VSRWX_GRWX", Calls(Page("VSRWX_GRWX")), NewAsid \o Del("X"),
       NoExec(Page("VSRWX_GRWX")) \o FenceRs("none", "other") \o NoExec(Page("VSRWX_GRWX"))),
   instruction_page_fault_23 |->
     Fetches("VSRWX_GRWX", Global \o Calls(Page("VSRWX_GRWX")), NewAsid \o Del("X"),
       Calls(Page("VSRWX_GRWX")) \o FenceRs("VSRWX_GRWX", "all") \o NoExec(Page("VSRWX_GRWX")))]

ExecAsid ==
  [instruction_page_fault_24 |->
     Fetches("VSRW_GRW", NoExec(Page("VSRW_GRW")), NewAsid \o Add("X"),
       Calls(Page("VSRW_GRW")) \o FenceRs("VSRW_GRW", "0") \o Calls(Page("VSRW_GRW"))),
   instruction_page_fault_25 |->
     Fetches("VSRW_GRW", Global \o NoExec(Page("VSRW_GRW")), NewAsid \o Add("X"),
       NoExec(Page("VSRW_GRW")) \o FenceRs("VSRW_GRW", "0x1234") \o NoExec(Page("VSRW_GRW")))]

LoadPages ==
  [load_page_fault_1 |->
     Paged \o Goto("HS") \o Fence \o Both("load", "LPF", "lr", "LPF", Page("VSI_GI"))
       \o Both("load", "LPF", "lr", "LPF", Page("VSW_GI"))
       \o Goto("M") \o Add("reserved") \o Enter("HS") \o Both("load", "LPF", "lr", "LPF", Page("VSR_GRWX"))
       \o HsptInit \o Mxr(FALSE) \o Fence \o Load("VSX_GRWX", "LPF") \o Mxr(FALSE) \o Fence \o Load("VSV_GV", "LPF")
       \o Mxr(FALSE) \o Fence \o Load("VSR_GURWX", "none") \o Mxr(FALSE) \o Fence \o Load("VSRWX_GURWX", "none")
       \o Goto("HS") \o Fence \o Setup \o Mxr(TRUE) \o Access("load", Page("VSV_GV")) \o Check("LPF")
       \o Fence \o Load("VSR_GUR", "none") \o Fence \o Load("VSX_GUX", "none")
       \o Fence \o Load("VSRWX_GUX", "none") \o Mxr(FALSE) \o End]

LoadUser ==
  [load_page_fault_2 |-> UserPage("load", FALSE, "LPF")]

LoadSum ==
  [load_page_fault_3 |->
     Paged \o Goto("M") \o Sum(TRUE) \o Enter("HS") \o Load("VSURWX_GURWX", "none") \o Goto("M")
       \o MachineLoad(TRUE, TRUE, "VSRWX_GRWX", "none") \o MachineLoad(TRUE, TRUE, "VSURWX_GRWX", "none")
       \o BriefLoad(TRUE, FALSE, "VSRWX_GRWX", "none") \o BriefLoad(TRUE, FALSE, "VSURWX_GRWX", "LPF")
       \o Goto("M") \o UAllowNoLeaf \o BriefLoad(FALSE, TRUE, "VSRWX_GRWX", "LPF")
       \o MachineLoad(FALSE, TRUE, "VSURWX_GRWX", "none") \o BriefLoad(FALSE, FALSE, "VSRWX_GRWX", "LPF")
       \o BriefLoad(FALSE, FALSE, "VSURWX_GRWX", "none") \o End]

LoadAddress ==
  [load_page_fault_4 |-> NotCanonical("load", "LPF"),
   load_page_fault_5 |-> NotCanonicalInUser("load", "LPF")]

LoadAccessed ==
  [load_page_fault_6 |-> Paged \o FlagCached("load", "VSR_GR", "VSUR_GR", "A", "LPF"),
   load_page_fault_7 |->
     Paged \o Goto("M") \o InUser(Both("load", "none", "lr", "none", Page("VSUR_GR")))]

LoadMxr ==
  [load_page_fault_8 |->
     FromMachine("load", "VSR_GR") \o MppBit(FALSE) \o Mprv(FALSE)
       \o MxrLoad(TRUE, "VSX_GX") \o MxrLoad(TRUE, "VSX_GX") \o MxrLoad(TRUE, "VSX_GX") \o NoMxrLoad(TRUE, "VSV_GV")
       \o MxrLoad(FALSE, "VSR_GX") \o MxrLoad(FALSE, "VSRX_GX")
       \o NoMxrLoad(FALSE, "VSX_GX") \o NoMxrLoad(FALSE, "VSV_GV")]

LoadGlobal ==
  [load_page_fault_9 |-> FlagRemoved("load", "VSR_GR", "A", "LPF"),
   load_page_fault_10 |-> GlobalPages("load", "VSR_GURWX", "none"),
   load_page_fault_11 |-> GlobalPages("load", "VSX_GURWX", "LPF"),
   load_page_fault_12 |-> DelegatedTo("load", "VSX_GURWX", "LPF")]

LoadMega ==
  [load_page_fault_13 |->
     Goto("M") \o Paged \o Realigned("2M", Expect("load", Mega0, "none"), Expect("load", Mega0, "LPF")),
   load_page_fault_14 |-> Goto("M") \o LowRegion(Cacheable) \o Paged \o Expect("load", Giga3, "none")]

LoadTera ==
  [load_page_fault_15 |->
     Goto("M") \o LowRegion(Cacheable) \o Paged \o Remap("512G", TRUE)
       \o Realigned("512G", Expect("load", Tera1, "none"), Expect("load", Tera1, "LPF")) \o End]

StorePages ==
  [store_page_fault_1 |->
     Paged \o Goto("HS") \o Fence \o Store("VSI_GI", "SPF") \o Both("store", "SPF", "sc", "SPF", Page("VSW_GI"))
       \o Goto("M") \o Add("reserved") \o Enter("HS") \o Store("VSRW_GRWX", "SPF")
       \o HsptInit \o Fence \o Store("VSRX_GRWX", "SPF") \o Fence \o Store("VSRW_GURW", "none") \o End,
   store_page_fault_2 |-> UserPage("store", FALSE, "SPF"),
   store_page_fault_3 |-> UserPage("store", TRUE, "none")]

StoreAddress ==
  [store_page_fault_4 |-> NotCanonical("store", "SPF"),
   store_page_fault_5 |-> NotCanonicalInUser("store", "SPF")]

StoreAccessed ==
  [store_page_fault_6 |->
     Paged \o Access("store", Page("VSRW_GR")) \o Check("none")
       \o Goto("M") \o Del("A") \o Goto("HS") \o Store("VSRW_GR", "none") \o Fence \o Store("VSRW_GR", "SPF")
       \o Goto("M") \o Del("A") \o InUser(Store("VSURW_GR", "SPF")),
   store_page_fault_7 |-> InUserMode("store", "VSURW_GR"),
   store_page_fault_8 |-> FromMachine("store", "VSRW_GR")]

StoreRemoved ==
  [store_page_fault_9 |->
     Paged \o Goto("M") \o AsSupervisor \o Fence \o Redirected("store", Page("VSRW_GR"), "none")
       \o Goto("M") \o Del("A") \o Fence \o AsSupervisor \o Redirected("store", Page("VSRW_GR"), "SPF"),
   store_page_fault_10 |->
     Paged \o FlagCached("store", "VSRW_GR", "VSURW_GR", "D", "SPF")
       \o Goto("M") \o UAllowNoLeaf \o HsptInit \o Goto("HU") \o Store("VSRWX_GR", "SPF")]

StoreDirty ==
  [store_page_fault_11 |-> InUserMode("store", "VSURW_GR"),
   store_page_fault_12 |-> FromMachine("store", "VSRW_GR"),
   store_page_fault_13 |-> FlagRemoved("store", "VSRW_GR", "D", "SPF")]

StoreGlobal ==
  [store_page_fault_14 |-> GlobalPages("store", "VSRW_GURWX", "none"),
   store_page_fault_15 |-> GlobalPages("store", "VSR_GURWX", "SPF"),
   store_page_fault_16 |-> DelegatedTo("store", "VSX_GURWX", "SPF"),
   store_page_fault_17 |->
     Goto("M") \o Paged \o Realigned("2M", Expect("store", Mega0, "none"), Expect("store", Mega0, "SPF"))]

StoreGiga ==
  [store_page_fault_18 |->
     Goto("M") \o LowRegion(Cacheable) \o Paged
       \o Realigned("1G", Expect("store", Giga3, "none"), Expect("store", Giga3, "SPF")) \o End,
   store_page_fault_19 |->
     Goto("M") \o LowRegion(Cacheable) \o Paged \o Remap("512G", TRUE)
       \o Realigned("512G", Expect("store", Tera1, "none"), Expect("store", Tera1, "SPF")) \o End]

AmoPages ==
  [amo_page_fault_1 |->
     Paged \o Goto("HS") \o Fence \o Amo("VSI_GI", "SPF") \o Fence \o Amo("VSRX_GRWX", "SPF")
       \o Fence \o Amo("VSRWX_GURWX", "none") \o End,
   amo_page_fault_2 |-> UserPage("amo", FALSE, "SPF"),
   amo_page_fault_3 |-> UserPage("amo", TRUE, "none")]

AmoAddress ==
  [amo_page_fault_4 |-> NotCanonical("amo", "SPF"),
   amo_page_fault_5 |-> NotCanonicalInUser("amo", "SPF")]

AmoAccessed ==
  [amo_page_fault_6 |->
     Paged \o Goto("M") \o Del("A") \o Enter("HS") \o Amo("VSRW_GR", "SPF")
       \o Goto("M") \o Del("A") \o InUser(Amo("VSURW_GR", "SPF")),
   amo_page_fault_7 |-> InUserMode("amo", "VSURW_GR"),
   amo_page_fault_8 |-> FromMachine("amo", "VSRW_GR"),
   amo_page_fault_9 |-> FlagRemoved("amo", "VSRW_GR", "A", "SPF")]

AmoDirty ==
  [amo_page_fault_10 |->
     Paged \o Amo("VSRW_GR", "none") \o Goto("M") \o Del("D") \o Goto("HS") \o Amo("VSRW_GR", "none")
       \o Enter("HS") \o Amo("VSRW_GR", "SPF") \o Goto("M") \o Del("D") \o InUser(Amo("VSURW_GR", "SPF")),
   amo_page_fault_11 |-> InUserMode("amo", "VSURW_GR"),
   amo_page_fault_12 |-> FromMachine("amo", "VSRW_GR"),
   amo_page_fault_13 |-> FlagRemoved("amo", "VSRW_GR", "D", "SPF")]

AmoGlobal ==
  [amo_page_fault_14 |-> GlobalPages("amo", "VSRW_GURWX", "none"),
   amo_page_fault_15 |-> GlobalPages("amo", "VSR_GURWX", "SPF"),
   amo_page_fault_16 |-> DelegatedTo("amo", "VSX_GURWX", "SPF")]

AmoMega ==
  [amo_page_fault_17 |->
     Goto("M") \o Paged \o Pair("none", "none", Mega0) \o Remap("2M", FALSE) \o Pair("SPF", "LPF", Mega0)
       \o Remap("2M", TRUE) \o Expect("sc", Mega0, "none") \o Goto("HS") \o Expect("lr", Mega0, "none")]

AmoGiga ==
  [amo_page_fault_18 |->
     Goto("M") \o LowRegion(Attributes) \o Paged
       \o Realigned("1G", Pair("none", "none", Giga3), Pair("SPF", "LPF", Giga3)) \o End]

AmoTera ==
  [amo_page_fault_19 |->
     Goto("M") \o LowRegion(Cacheable) \o Paged \o Remap("512G", TRUE)
       \o Realigned("512G", Pair("none", "none", Tera1), Pair("SPF", "LPF", Tera1)) \o End]

\* All but the one that expects lr and sc to succeed on memory without the atomic
\* attribute, which the tests of access_fault.c expect to fault.
Tests ==
  ExecPages @@ ExecInUser @@ ExecAccessed @@ ExecAddress @@ ExecOnly @@ ExecMega
  @@ ExecTera @@ ExecWalk @@ ExecFence @@ ExecFenceGlobal @@ ExecAsid @@ LoadPages
  @@ LoadUser @@ LoadSum @@ LoadAddress @@ LoadAccessed @@ LoadMxr @@ LoadGlobal
  @@ LoadMega @@ LoadTera @@ StorePages @@ StoreAddress @@ StoreAccessed @@
  StoreRemoved @@ StoreDirty @@ StoreGlobal @@ StoreGiga @@ AmoPages @@ AmoAddress
  @@ AmoAccessed @@ AmoDirty @@ AmoGlobal @@ AmoMega @@ AmoGiga

Registered == Tests @@ AmoTera
===============================================================================
