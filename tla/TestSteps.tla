------------------------------- MODULE TestSteps -------------------------------
(***************************************************************************)
(* The vocabulary the tests are written in: each operation a test calls,   *)
(* as a sequence of one step of TestProgram, and the phrases they share.   *)
(***************************************************************************)
EXTENDS Places, Isa, TLC

Do(op) == <<[op |-> op]>>

Goto(l) == <<[op |-> "goto", to |-> l]>>

\* The protection units.  CSRS and CSRC of single bits are written as the entry
\* they leave.
CfgOf(u, i, p)    == <<[op |-> "cfg", unit |-> u, entry |-> i, perm |-> p, tor |-> TRUE]>>
CfgRegOf(u, i, p) == <<[op |-> "cfgreg", unit |-> u, entry |-> i, perm |-> p, tor |-> p # {}]>>
LockOf(u, i)      == <<[op |-> "lock", unit |-> u, entry |-> i]>>
AddrOf(u, i, a)   == <<[op |-> "addr", unit |-> u, entry |-> i, at |-> a]>>

Cfg(i, p)    == CfgOf("pmp", i, p)
CfgReg(i, p) == CfgRegOf("pmp", i, p)
TurnOff(i)   == <<[op |-> "cfg", unit |-> "pmp", entry |-> i, perm |-> Perms, tor |-> FALSE]>>
Lock(i)      == LockOf("pmp", i)
Addr(i, a)   == AddrOf("pmp", i, a)

PmaCfg(i, p)    == CfgOf("pma", i, p)
PmaCfgReg(i, p) == CfgRegOf("pma", i, p)
PmaLock(i)      == LockOf("pma", i)
PmaAddr(i, a)   == AddrOf("pma", i, a)

\* mstatus, medeleg and satp
Flag(field, b) == <<[op |-> field, on |-> b]>>
Mprv(b)     == Flag("mprv", b)
MppBit(b)   == Flag("mpp_bit", b)
Sum(b)      == Flag("sum", b)
Mxr(b)      == Flag("mxr", b)
Mpp(m)      == <<[op |-> "mpp", to |-> m]>>
Tvm(b)      == Flag("tvm", b)
Tw(b)       == Flag("tw", b)
Tsr(b)      == Flag("tsr", b)
Delegation(add, del) == <<[op |-> "medeleg", add |-> add, del |-> del]>>
Delegate(c) == Delegation({c}, {})
Undelegate(c) == Delegation({}, {c})
DelegateOnly(causes) == Delegation(causes, Delegable \ causes)
Satp0       == Do("satp0")
NewAsid     == <<[op |-> "satp_asid", asid |-> "0x1234"]>>

\* The tables and the TLB
HsptInit         == Do("hspt_init")
UAllow           == <<[op |-> "u_mode_allow", leaves |-> TRUE]>>
UAllowNoLeaf     == <<[op |-> "u_mode_allow", leaves |-> FALSE]>>
Add(f)           == <<[op |-> "leaves", add |-> {f}, del |-> {}]>>
Del(f)           == <<[op |-> "leaves", add |-> {}, del |-> {f}]>>
Pointer(k, mark) == <<[op |-> "pointer", table |-> k, mark |-> mark]>>
Super(s, b)      == <<[op |-> "super", page |-> s, aligned |-> b]>>
PtwOverflow      == Pointer(2, "overflow")
LlptwOverflow    == Add("overflow")
Fence            == Do("sfence")
FenceRs(p, asid) == <<[op |-> "sfence_rs", page |-> p, asid |-> asid]>>

\* Accesses and assertions
Setup         == Do("setup")
Reset         == Do("reset")
EnableAll(bits)  == <<[op |-> "enable", bits |-> bits, on |-> TRUE]>>
DisableAll(bits) == <<[op |-> "enable", bits |-> bits, on |-> FALSE]>>
Enable(csr, bit)  == EnableAll({<<csr, bit>>})
Disable(csr, bit) == DisableAll({<<csr, bit>>})
Insn(i)       == <<[op |-> "insn", insn |-> i]>>
Misaligned(k, a) == <<[op |-> "misaligned", kind |-> k, at |-> a]>>
Access(k, a)  == <<[op |-> "access", kind |-> k, at |-> a]>>
CheckIn(c, l) == <<[op |-> "assert", cause |-> c, privs |-> l]>>
Check(c)      == CheckIn(c, {"HU", "HS", "M"})
End           == Do("end")

Expect(k, a, c) == Setup \o Access(k, a) \o Check(c)

Both(k, kc, l, lc, a) == Expect(k, a, kc) \o Expect(l, a, lc)

\* From M: the page tables opened to HU, and into HU; or data accesses made those of S
InUser(checks) == UAllow \o Fence \o Goto("HU") \o checks

AsSupervisor == Mprv(TRUE) \o MppBit(TRUE)

\* The PMA environment: all of memory as the tests need it, but by high entries.
\* The first entry stands in meanwhile.
HighRegions ==
  PmaCfgReg(8, {}) \o PmaCfg(12, Perms) \o PmaCfg(13, Attributes) \o PmaCfg(15, Perms)
    \o PmaAddr(12, RamBase) \o PmaAddr(13, A120) \o PmaAddr(14, Ac00) \o PmaAddr(15, A1000)
    \o PmaCfgReg(0, {})

PmaEnvironment == PmaAddr(0, Afff) \o PmaCfgReg(0, Attributes) \o HighRegions
===============================================================================
