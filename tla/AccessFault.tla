----------------------------- MODULE AccessFault -----------------------------
(***************************************************************************)
(* The tests of access_fault.c, as the steps of TestProgram.               *)
(***************************************************************************)
EXTENDS TestSteps

Page     == hs_page_base("VSRWX_GRWX")
UserPage == hs_page_base("VSURWX_GRWX")

\* A ret instruction into the page the test will call
StoreRet == Access("store", phys_page_base("VSRWX_GRWX"))

Three(k, kc, c, a) == Expect(k, a, kc) \o Both("sc", c, "amo", c, a)

NoLoad  == {"W", "X"}
NoStore == {"R", "X"}
NoExec  == {"R", "W"}

LockBoth == Lock(0) \o Lock(1)

\* The page or table at a
Bounds(a) == Addr(0, a) \o Addr(1, a + 1)

OneRegion(p, lo, hi)  == CfgReg(0, {}) \o Cfg(1, p) \o Addr(0, lo) \o Addr(1, hi)
TwoRegions(p, lo, hi) == CfgReg(0, {}) \o Cfg(0, Perms) \o Cfg(1, p) \o Addr(0, lo) \o Addr(1, hi)

\* The PMA environment, set up in the PMP's registers
Environment ==
  Addr(0, Afff) \o CfgReg(0, Perms) \o Cfg(12, Perms) \o Cfg(13, Perms) \o Cfg(15, Perms)
    \o Addr(12, RamBase) \o Addr(13, A120) \o Addr(14, Ac00) \o Addr(15, A1000) \o CfgReg(0, {})

PmpTest(setting, l, checks) == Goto("M") \o setting \o Goto(l) \o checks \o End

\* The page of a leaf translation denied by the PMP, from HS and from HU
LeafFromHS(p, page, locks, checks) ==
  Goto("M") \o TwoRegions(p, phys_page_base(page), phys_page_base(page) + 1) \o locks \o Fence
    \o Goto("HS") \o HsptInit \o checks

LeafFromHU(p, page, checks) ==
  Goto("M") \o TwoRegions(p, phys_page_base(page), phys_page_base(page) + 1)
    \o Goto("HS") \o HsptInit \o Goto("M") \o UAllow \o Fence \o Goto("HU") \o checks

\* A table of the walk denied by the PMP, or holding a PPN too large
TableDenied(rest) ==
  CfgReg(0, {}) \o Cfg(0, Perms) \o Cfg(1, NoLoad) \o Cfg(2, Perms)
    \o Goto("HS") \o HsptInit \o Goto("M")
    \o Bounds(Hspt(2)) \o Addr(2, EndOfMemory) \o rest

Overflow(rest) == Goto("HS") \o HsptInit \o Goto("M") \o rest

OverflowTwice(check) ==
  Overflow(PtwOverflow \o Fence \o Goto("HS") \o check)
    \o Overflow(LlptwOverflow \o Fence \o Goto("HS") \o check) \o End

Cacheable == Perms \union {"cached"}

PmaTurnOff(i, p) == <<[op |-> "cfg", unit |-> "pma", entry |-> i, perm |-> p, tor |-> FALSE]>>

SecondEntry(p) == PmaAddr(2, Hspt(2)) \o PmaAddr(3, Hspt(2) + 1) \o PmaCfg(3, p)

\* A table of the walk that the PMA stops providing: the hart notices behind a fence.
PmaStale(setting, change, first, ok, bad) ==
  Goto("M") \o PmaEnvironment \o PmaAddr(0, Hspt(2)) \o PmaAddr(1, Hspt(2) + 1) \o setting
    \o Goto("HS") \o HsptInit \o first \o ok
    \o Goto("M") \o change \o Goto("HS") \o ok \o Fence \o bad

PmaRegion(p, lo, hi) == PmaCfg(1, p) \o PmaAddr(0, lo) \o PmaAddr(1, hi) \o PmaLock(1)

PmaRegions(q, p, lo, hi) ==
  PmaCfg(0, q) \o PmaCfg(1, p) \o PmaAddr(0, lo) \o PmaAddr(1, hi) \o PmaLock(0) \o PmaLock(1)

(***************************************************************************)
(* The scripts, one group of neighbouring tests per definition.            *)
(***************************************************************************)
LoadLocked ==
  [load_access_fault_1 |->
     Goto("M") \o OneRegion(NoLoad, A80, A81) \o Lock(1)
       \o Setup \o Access("load", A80in) \o Addr(0, A82) \o Addr(1, A83) \o Check("LAF")
       \o Setup \o Access("lr", A80in) \o Addr(0, A82) \o Addr(1, A83) \o Check("LAF") \o End,
   load_access_fault_2 |->
     PmpTest(TwoRegions(NoLoad, A88, A89) \o LockBoth, "HS",
       Both("load", "LAF", "lr", "LAF", A88in)),
   load_access_fault_3 |->
     PmpTest(TwoRegions(NoLoad, A80, A81) \o LockBoth, "HU",
       Both("load", "LAF", "lr", "LAF", A80in))]

LoadUnlocked ==
  [load_access_fault_4 |->
     PmpTest(OneRegion(NoLoad, A80, A81) \o Mprv(FALSE), "M", Expect("load", A80in, "none")),
   load_access_fault_5 |->
     PmpTest(TwoRegions(NoLoad, A80, A81) \o Lock(0), "HS", Expect("load", A80in, "LAF")),
   load_access_fault_6 |->
     PmpTest(TwoRegions(NoLoad, A80, A81) \o Lock(0), "HU", Expect("load", A80in, "LAF"))]

LoadOutside ==
  [load_access_fault_7 |->
     PmpTest(CfgReg(0, {}) \o Cfg(0, Perms) \o Addr(0, A80) \o Lock(0), "HS", Expect("load", A8f, "LAF")),
   load_access_fault_8 |->
     PmpTest(TwoRegions(NoLoad, A80, A81) \o Lock(0), "HS",
       Both("load", "LAF", "lr", "LAF", A1ff)),
   load_access_fault_9 |->
     LeafFromHS(NoLoad, "VSR_GRWX", LockBoth, Expect("load", hs_page_base("VSR_GRWX"), "LAF")) \o End]

LoadTranslated ==
  [load_access_fault_10 |->
     LeafFromHU(NoLoad, "VSURWX_GURWX", Expect("load", hs_page_base("VSURWX_GURWX"), "LAF")),
   load_access_fault_11 |->
     Goto("M") \o Environment \o Bounds(phys_page_base("VSR_GRWX"))
       \o Cfg(1, NoLoad) \o Lock(1) \o Goto("HS") \o HsptInit \o Goto("M") \o Mpp("M") \o Mprv(TRUE)
       \o Setup \o Access("load", phys_page_base("VSR_GRWX")) \o Satp0 \o Check("LAF")
       \o Mprv(FALSE) \o HsptInit \o UAllow \o Fence \o Mpp("U") \o Mprv(TRUE)
       \o Setup \o Access("load", hs_page_base("VSR_GRWX")) \o Satp0 \o Check("LAF")
       \o HsptInit \o Fence \o Mpp("U") \o AsSupervisor
       \o Setup \o Access("load", hs_page_base("VSR_GRWX")) \o Satp0 \o Check("LAF") \o End]

LoadBeyond ==
  [load_access_fault_12 |->
     Cfg(0, Perms) \o Addr(0, EndOfMemory) \o Goto("HS") \o Expect("load", Beyond, "LAF")
       \o Goto("M") \o Expect("load", Beyond, "LAF") \o Goto("HU") \o Expect("load", Beyond, "LAF") \o End,
   load_access_fault_13 |->
     TableDenied(Fence \o Goto("HS") \o Expect("load", Page, "LAF")) \o End]

LoadWalk ==
  [load_access_fault_14 |->
     TableDenied(InUser(Expect("load", Page, "LAF"))),
   load_access_fault_15 |->
     TableDenied(Fence \o AsSupervisor \o Setup \o Access("load", Page) \o Satp0 \o Check("LAF"))]

LoadOverflow ==
  [load_access_fault_16 |->
     OverflowTwice(Expect("load", Page, "LAF")),
   load_access_fault_17 |->
     Overflow(UAllow \o PtwOverflow \o Fence \o Goto("HU") \o Expect("load", UserPage, "LAF")),
   load_access_fault_18 |->
     Overflow(UAllow \o LlptwOverflow \o Fence \o Goto("HU") \o Expect("load", UserPage, "LAF")),
   load_access_fault_19 |->
     Overflow(PtwOverflow \o Fence \o AsSupervisor
       \o Setup \o Access("load", Page) \o Satp0 \o Check("LAF"))]

LoadOverflowM ==
  [load_access_fault_20 |->
     Overflow(LlptwOverflow \o Fence \o AsSupervisor
       \o Setup \o Access("load", Page) \o Satp0 \o Check("LAF"))]

LoadPmaTable ==
  [load_access_fault_21 |->
     PmaStale(PmaCfg(1, Cacheable),
       PmaCfg(1, Cacheable \ {"R"}), Access("store", Page),
       Expect("load", Page, "none"), Expect("load", Page, "LAF")),
   load_access_fault_22 |->
     PmaStale(PmaCfg(1, Cacheable) \o SecondEntry({"X", "cached"}),
       PmaTurnOff(1, Cacheable), Access("store", Page),
       Expect("load", Page, "none"), Expect("load", Page, "LAF"))]

LoadPmaUncached ==
  [load_access_fault_23 |->
     PmaStale(PmaCfg(1, Cacheable),
       PmaCfg(1, Perms), Access("store", Page),
       Expect("load", Page, "none"), Expect("load", Page, "LAF"))]

LoadStale ==
  [load_access_fault_24 |->
     Goto("M") \o Environment \o Bounds(Hspt(2)) \o Cfg(1, Perms)
       \o Addr(2, Hspt(2)) \o Addr(3, Hspt(2) + 1) \o Cfg(3, {"X"})
       \o Goto("HS") \o HsptInit \o Access("store", Page) \o Expect("load", Page, "none")
       \o Goto("M") \o TurnOff(1) \o Goto("HS") \o Expect("load", Page, "none")
       \o Fence \o Expect("load", Page, "LAF")]

LoadPmaDenied ==
  [load_access_fault_25 |->
     Goto("M") \o PmaEnvironment \o Goto("HS") \o Expect("load", A1000in, "LAF")
       \o Goto("M") \o Expect("load", A1000in, "LAF") \o End,
   load_access_fault_26 |->
     Goto("M") \o PmaEnvironment \o PmaRegion(NoLoad, A80, A81)
       \o Expect("load", A80in, "LAF") \o End]

LoadPmaLocked ==
  [load_access_fault_27 |->
     Goto("M") \o PmaEnvironment \o PmaRegions(Perms, NoLoad, A88, A89) \o Goto("HS")
       \o Expect("load", A88in, "LAF") \o End,
   load_access_fault_28 |->
     Goto("M") \o PmaEnvironment \o PmaRegions(Perms, NoLoad, A80, A81) \o Goto("HU")
       \o Expect("load", A80in, "LAF") \o End]

StoreLocked ==
  [store_access_fault_1 |->
     PmpTest(OneRegion(NoStore, A80, A81) \o Lock(1), "M", Fence \o Expect("store", A80in, "SAF")),
   store_access_fault_2 |->
     PmpTest(TwoRegions(NoStore, A80, A81) \o LockBoth, "HS", Expect("store", A80in, "SAF")),
   store_access_fault_3 |->
     PmpTest(TwoRegions(NoStore, A80, A81) \o LockBoth, "HU", Expect("store", A80in, "SAF"))]

StoreUnlocked ==
  [store_access_fault_4 |->
     PmpTest(OneRegion(NoStore, A80, A81), "M", Expect("store", A80in, "none")),
   store_access_fault_5 |->
     PmpTest(TwoRegions(NoStore, A80, A81) \o Lock(0), "HS", Expect("store", A80in, "SAF")),
   store_access_fault_6 |->
     PmpTest(TwoRegions(NoStore, A80, A81) \o Lock(0), "HU", Expect("store", A80in, "SAF"))]

StoreOutside ==
  [store_access_fault_7 |->
     PmpTest(CfgReg(0, {}) \o Cfg(0, Perms) \o Addr(0, A80) \o Lock(0), "HS", Expect("store", A80mid, "SAF")),
   store_access_fault_8 |->
     PmpTest(TwoRegions(NoStore, A80, A81) \o Lock(0), "HS", Expect("store", A1ff, "SAF")),
   store_access_fault_9 |->
     LeafFromHS(NoStore, "VSRWX_GRWX", LockBoth, Expect("store", hs_page_base("VSRWX_GRWX"), "SAF")) \o End]

StoreTranslated ==
  [store_access_fault_10 |->
     LeafFromHU(NoStore, "VSURWX_GURWX", Expect("store", hs_page_base("VSURWX_GURWX"), "SAF")),
   store_access_fault_11 |->
     Goto("M") \o Environment \o Bounds(phys_page_base("VSRW_GRWX")) \o Cfg(1, NoStore)
       \o Lock(1) \o Fence \o Mprv(TRUE) \o Mpp("M")
       \o Setup \o Access("store", phys_page_base("VSRW_GRWX")) \o Satp0 \o Check("SAF")
       \o Mprv(FALSE) \o HsptInit \o UAllow \o Fence \o Mpp("U") \o Mprv(TRUE)
       \o Setup \o Access("store", phys_page_base("VSRW_GRWX")) \o Satp0 \o Check("SAF")
       \o HsptInit \o Fence \o Mpp("U") \o AsSupervisor
       \o Setup \o Access("store", hs_page_base("VSRW_GRWX")) \o Satp0 \o Check("SAF") \o End]

StoreBeyond ==
  [store_access_fault_12 |->
     Cfg(0, Perms) \o Addr(0, EndOfMemory) \o Goto("HS") \o Expect("store", Beyond, "SAF")
       \o Goto("M") \o Expect("store", Beyond, "SAF") \o Goto("HU") \o Expect("store", Beyond, "SAF") \o End,
   store_access_fault_13 |->
     TableDenied(Fence \o Goto("HS") \o Expect("store", Page, "SAF")) \o End]

StoreWalk ==
  [store_access_fault_14 |->
     TableDenied(InUser(Expect("store", Page, "SAF"))),
   store_access_fault_15 |->
     TableDenied(Fence \o AsSupervisor \o Setup \o Access("store", Page) \o Satp0 \o Check("SAF")) \o End]

StoreOverflow ==
  [store_access_fault_16 |->
     OverflowTwice(Expect("store", Page, "SAF")),
   store_access_fault_17 |->
     Overflow(UAllow \o PtwOverflow \o Fence \o Goto("HU") \o Expect("store", UserPage, "SAF")),
   store_access_fault_18 |->
     Overflow(UAllow \o LlptwOverflow \o Fence \o Goto("HU") \o Expect("store", UserPage, "SAF")),
   store_access_fault_19 |->
     Overflow(PtwOverflow \o Fence \o AsSupervisor
       \o Setup \o Access("store", Page) \o Satp0 \o Check("SAF"))]

StoreOverflowM ==
  [store_access_fault_20 |->
     Overflow(LlptwOverflow \o Fence \o AsSupervisor
       \o Setup \o Access("store", Page) \o Satp0 \o Check("SAF"))]

StorePmaTable ==
  [store_access_fault_22 |->
     PmaStale(PmaCfg(1, Attributes) \o SecondEntry({"X", "cached", "atomic"}),
       PmaTurnOff(1, Attributes), <<>>,
       Three("store", "none", "none", Page), Three("store", "SAF", "SAF", Page))]

StorePmaUncached ==
  [store_access_fault_23 |->
     PmaStale(PmaCfg(1, Attributes),
       PmaCfg(1, Attributes \ {"cached"}), <<>>,
       Three("store", "none", "none", Page), Three("store", "SAF", "SAF", Page))]

StoreStale ==
  [store_access_fault_24 |->
     Goto("M") \o Environment \o Bounds(Hspt(2)) \o Cfg(1, Perms)
       \o Addr(2, Hspt(2)) \o Addr(3, Hspt(2) + 1) \o Cfg(3, {"X"})
       \o Goto("HS") \o HsptInit \o Three("store", "none", "none", Page)
       \o Goto("M") \o TurnOff(1) \o Goto("HS") \o Three("store", "none", "none", Page)
       \o Fence \o Three("store", "SAF", "SAF", Page)]

StorePmaDenied ==
  [store_access_fault_25 |->
     Goto("M") \o PmaEnvironment \o Goto("HS") \o Expect("store", A1000in, "SAF")
       \o Goto("M") \o Expect("store", A1000in, "SAF") \o End,
   store_access_fault_26 |->
     Goto("M") \o PmaEnvironment \o PmaRegion(NoStore, A80, A81)
       \o Expect("store", A80in, "SAF") \o End]

StorePmaLocked ==
  [store_access_fault_27 |->
     Goto("M") \o PmaEnvironment \o PmaRegions(Cacheable, NoStore \union {"cached"}, A88, A89) \o Goto("HS")
       \o Expect("store", A88in, "SAF") \o End,
   store_access_fault_28 |->
     Goto("M") \o PmaEnvironment \o PmaRegions(Perms, NoStore, A80, A81) \o Goto("HU")
       \o Expect("store", A80in, "SAF") \o End]

StoreReversed ==
  [store_access_fault_29 |->
     Goto("M") \o Environment \o Cfg(0, Perms) \o Cfg(1, NoStore) \o Addr(0, A88) \o Addr(1, A89)
       \o Goto("HS") \o Expect("store", A88in, "SAF")
       \o Goto("M") \o Addr(0, A89) \o Addr(1, A88) \o Expect("store", A88in, "none") \o End]

AmoLocked ==
  [amo_access_fault_1 |->
     PmpTest(OneRegion(NoStore, A80, A81) \o Lock(1), "M",
       Both("amo", "SAF", "sc", "SAF", A80in)),
   amo_access_fault_2 |->
     PmpTest(TwoRegions(NoStore, A80, A81) \o LockBoth, "HS",
       Both("amo", "SAF", "sc", "SAF", A80in)),
   amo_access_fault_3 |->
     PmpTest(TwoRegions(NoStore, A80, A81) \o LockBoth, "HU",
       Both("amo", "SAF", "sc", "SAF", A80in))]

AmoUnlocked ==
  [amo_access_fault_4 |->
     PmpTest(OneRegion(NoStore, A80, A81), "M", Expect("amo", A80in, "none")),
   amo_access_fault_5 |->
     PmpTest(TwoRegions(NoStore, A80, A81) \o Lock(0), "HS", Expect("amo", A80in, "SAF")),
   amo_access_fault_6 |->
     PmpTest(TwoRegions(NoStore, A80, A81) \o Lock(0), "HU", Expect("amo", A80in, "SAF"))]

AmoOutside ==
  [amo_access_fault_7 |->
     PmpTest(CfgReg(0, {}) \o Cfg(0, Perms) \o Addr(0, A80) \o Lock(0), "HS",
       Both("amo", "SAF", "sc", "SAF", A80)),
   amo_access_fault_8 |->
     PmpTest(TwoRegions(NoStore, A80, A81) \o Lock(0), "HS", Expect("amo", A1ff, "SAF")),
   amo_access_fault_9 |->
     LeafFromHS(NoStore, "VSRWX_GRWX", LockBoth,
       Both("amo", "SAF", "sc", "SAF", Page)) \o End]

AmoTranslated ==
  [amo_access_fault_10 |->
     LeafFromHU(NoStore, "VSURWX_GURWX", Expect("amo", hs_page_base("VSURWX_GURWX"), "SAF")),
   amo_access_fault_11 |->
     Goto("M") \o TwoRegions(NoStore, phys_page_base("VSRW_GRWX"), phys_page_base("VSRW_GRWX") + 1)
       \o Lock(1) \o Fence \o Mprv(TRUE) \o Mpp("M")
       \o Setup \o Access("amo", phys_page_base("VSRW_GRWX")) \o Satp0 \o Check("SAF")
       \o Mprv(FALSE) \o HsptInit \o UAllow \o Fence \o Mpp("U") \o Mprv(TRUE)
       \o Setup \o Access("store", phys_page_base("VSRW_GRWX")) \o Satp0 \o Check("SAF")
       \o HsptInit \o Fence \o Mpp("U") \o AsSupervisor
       \o Setup \o Access("amo", hs_page_base("VSRW_GRWX")) \o Satp0 \o Check("SAF") \o End]

AmoBeyond ==
  [amo_access_fault_12 |->
     Cfg(0, Perms) \o Addr(0, EndOfMemory) \o Goto("HS") \o Expect("amo", Beyond, "SAF")
       \o Goto("M") \o Expect("amo", Beyond, "SAF") \o Goto("HU") \o Expect("amo", Beyond, "SAF") \o End,
   amo_access_fault_13 |->
     TableDenied(<<>> \o Goto("HS") \o Expect("amo", Page, "SAF")) \o End]

AmoWalk ==
  [amo_access_fault_14 |->
     TableDenied(InUser(Expect("amo", Page, "SAF"))),
   amo_access_fault_15 |->
     TableDenied(Fence \o AsSupervisor \o Setup \o Access("amo", Page) \o Satp0 \o Check("SAF")) \o End]

AmoOverflow ==
  [amo_access_fault_16 |->
     OverflowTwice(Expect("amo", Page, "SAF")),
   amo_access_fault_17 |->
     Overflow(UAllow \o PtwOverflow \o Fence \o Goto("HU") \o Expect("amo", UserPage, "SAF")),
   amo_access_fault_18 |->
     Overflow(UAllow \o LlptwOverflow \o Fence \o Goto("HU") \o Expect("amo", UserPage, "SAF")),
   amo_access_fault_19 |->
     Overflow(PtwOverflow \o Fence \o AsSupervisor
       \o Setup \o Access("amo", Page) \o Satp0 \o Check("SAF"))]

AmoOverflowM ==
  [amo_access_fault_20 |->
     Overflow(LlptwOverflow \o Fence \o AsSupervisor
       \o Setup \o Access("amo", Page) \o Satp0 \o Check("SAF"))]

AmoPmaTable ==
  [amo_access_fault_22 |->
     PmaStale(PmaCfg(1, Attributes) \o SecondEntry(NoLoad \union {"cached"}),
       PmaTurnOff(1, Attributes), <<>>,
       Three("lr", "none", "none", Page), Three("lr", "LAF", "SAF", Page))]

AmoPmaUncached ==
  [amo_access_fault_23 |->
     PmaStale(PmaCfg(1, Attributes),
       PmaCfg(1, Attributes \ {"cached"}), <<>>,
       Three("lr", "none", "none", Page), Three("lr", "LAF", "SAF", Page))]

AmoPmaDenied ==
  [amo_access_fault_24 |->
     Goto("M") \o PmaEnvironment \o Goto("HS") \o Three("lr", "LAF", "SAF", A1000in)
       \o Goto("M") \o Three("lr", "LAF", "SAF", A1000in) \o End,
   amo_access_fault_25 |->
     Goto("M") \o Addr(0, Afff) \o CfgReg(0, Perms) \o HighRegions \o PmaRegion(Cacheable, A80, A81)
       \o Expect("amo", A80in, "SAF") \o End]

AmoPmaLocked ==
  [amo_access_fault_26 |->
     Goto("M") \o PmaEnvironment \o PmaRegions(Perms, Perms, A88, A89) \o Goto("HS")
       \o Expect("amo", A88in, "SAF") \o End,
   amo_access_fault_27 |->
     Goto("M") \o PmaEnvironment \o PmaRegions(Perms, Perms, A80, A81) \o Goto("HU")
       \o Expect("amo", A80in, "SAF") \o End]

AmoReversed ==
  [amo_access_fault_28 |->
     Goto("M") \o Environment \o Cfg(0, Perms) \o Cfg(1, NoStore) \o Addr(0, A88) \o Addr(1, A89)
       \o Goto("HS") \o Expect("amo", A88in, "SAF")
       \o Goto("M") \o Addr(0, A89) \o Addr(1, A88) \o Expect("amo", A88in, "none") \o End]

ExecDenied ==
  [instruction_access_fault_1 |->
     PmpTest(OneRegion(NoExec, A80, A81) \o Lock(1), "M", Expect("exec", A80in, "IAF")),
   instruction_access_fault_2 |->
     PmpTest(TwoRegions(NoExec, A80, A81) \o Lock(0), "HS", Expect("exec", A80in, "IAF")),
   instruction_access_fault_3 |->
     PmpTest(TwoRegions(NoExec, A80, A81) \o Lock(0), "HU", Expect("exec", A80in, "IAF"))]

ExecUnlocked ==
  [instruction_access_fault_4 |->
     PmpTest(TwoRegions(NoExec, I81, I82) \o Access("store", I81in), "M", Expect("call", I81in, "none")),
   instruction_access_fault_5 |->
     PmpTest(TwoRegions(NoExec, A80, A81) \o Lock(0), "HS", Expect("exec", A80in, "IAF")),
   instruction_access_fault_6 |->
     PmpTest(TwoRegions(NoExec, A80, A81) \o Lock(0), "HU", Expect("exec", A80in, "IAF"))]

ExecOutside ==
  [instruction_access_fault_7 |->
     PmpTest(CfgReg(0, {}) \o Cfg(0, Perms) \o Addr(0, A90) \o Lock(0), "HS", Expect("exec", A9f, "IAF")),
   instruction_access_fault_8 |->
     PmpTest(TwoRegions(NoExec, A80, A81) \o LockBoth, "HS", Expect("exec", A1ff, "IAF"))]

ExecTranslated ==
  [instruction_access_fault_9 |->
     LeafFromHS(NoExec, "VSX_GRWX", <<>>, Expect("exec", hs_page_base("VSX_GRWX"), "IAF"))
       \o LeafFromHS(NoExec, "VSX_GRWX", LockBoth, Expect("exec", hs_page_base("VSX_GRWX"), "IAF")) \o End,
   instruction_access_fault_10 |->
     LeafFromHU(NoExec, "VSURWX_GURWX", Expect("exec", hs_page_base("VSURWX_GURWX"), "IAF"))]

ExecBeyond ==
  [instruction_access_fault_11 |->
     Cfg(0, Perms) \o Addr(0, EndOfMemory) \o Goto("HS") \o Expect("exec", Beyond, "IAF")
       \o Goto("M") \o Expect("exec", Beyond, "IAF") \o Goto("HU") \o Expect("exec", Beyond, "IAF") \o End,
   instruction_access_fault_12 |->
     TableDenied(Fence \o Goto("HS") \o Expect("exec", Page, "IAF")) \o End]

ExecWalk ==
  [instruction_access_fault_13 |->
     TableDenied(InUser(Expect("exec", Page, "IAF"))),
   instruction_access_fault_14 |->
     OverflowTwice(Expect("exec", Page, "IAF"))]

ExecOverflow ==
  [instruction_access_fault_15 |->
     Overflow(UAllow \o PtwOverflow \o Fence \o Goto("HU") \o Expect("exec", UserPage, "IAF")),
   instruction_access_fault_16 |->
     Overflow(UAllow \o LlptwOverflow \o Fence \o Goto("HU") \o Expect("exec", UserPage, "IAF"))]

ExecOverflowM ==
  [instruction_access_fault_17 |->
     Overflow(PtwOverflow \o Fence \o AsSupervisor \o Expect("exec", Page, "IAF")),
   instruction_access_fault_18 |->
     Overflow(LlptwOverflow \o Fence \o AsSupervisor \o Expect("exec", Page, "IAF"))]

ExecPmaTable ==
  [instruction_access_fault_19 |->
     PmaStale(StoreRet \o PmaCfg(1, Cacheable),
       PmaCfg(1, Cacheable \ {"R"}), <<>>,
       Expect("call", Page, "none"), Expect("exec", Page, "IAF")),
   instruction_access_fault_20 |->
     PmaStale(StoreRet \o PmaCfg(1, Cacheable) \o SecondEntry(NoLoad \union {"cached"}),
       PmaTurnOff(1, Cacheable), <<>>,
       Expect("call", Page, "none"), Expect("exec", Page, "IAF"))]

ExecStale ==
  [instruction_access_fault_21 |->
     Goto("M") \o Environment \o StoreRet \o Bounds(Hspt(2)) \o Cfg(1, Perms)
       \o Addr(2, Hspt(2)) \o Addr(3, Hspt(2) + 1) \o Cfg(3, {"W", "X"})
       \o Goto("HS") \o HsptInit \o Expect("call", Page, "none")
       \o Goto("M") \o TurnOff(1) \o Goto("HS") \o Expect("call", Page, "none")
       \o Fence \o Expect("exec", Page, "IAF")]

\* All but two, which fetch in M mode what only a translation would deny: the fetch
\* succeeds, and the program does not come back from there.
Tests ==
  LoadLocked @@ LoadUnlocked @@ LoadOutside @@ LoadTranslated @@ LoadBeyond @@
  LoadWalk @@ LoadOverflow @@ LoadOverflowM @@ LoadPmaTable @@ LoadPmaUncached @@
  LoadStale @@ LoadPmaDenied @@ LoadPmaLocked @@ StoreLocked @@ StoreUnlocked @@
  StoreOutside @@ StoreTranslated @@ StoreBeyond @@ StoreWalk @@ StoreOverflow @@
  StoreOverflowM @@ StorePmaTable @@ StorePmaUncached @@ StoreStale @@
  StorePmaDenied @@ StorePmaLocked @@ StoreReversed @@ AmoLocked @@ AmoUnlocked @@
  AmoOutside @@ AmoTranslated @@ AmoBeyond @@ AmoWalk @@ AmoOverflow @@
  AmoOverflowM @@ AmoPmaTable @@ AmoPmaUncached @@ AmoPmaDenied @@ AmoPmaLocked @@
  AmoReversed @@ ExecDenied @@ ExecUnlocked @@ ExecOutside @@ ExecTranslated @@
  ExecBeyond @@ ExecWalk @@ ExecOverflow @@ ExecPmaTable @@ ExecStale

Registered == Tests @@ ExecOverflowM
===============================================================================
