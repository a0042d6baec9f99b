----------------------------- MODULE TestProgram -----------------------------
(***************************************************************************)
(* A built test program: main resets the machine and calls the registered  *)
(* tests one after the other, each a straight list of harness calls, CSR   *)
(* writes, memory accesses and assertions.  The hart underneath has the    *)
(* PMP and PMA of module Pmp, the tables, walk and TLB of module Paging,   *)
(* and the MPRV redirection of M-mode data accesses.  A privilege switch   *)
(* is one step, as HarnessService promises; what it needs is that the      *)
(* handlers can run where it passes.                                       *)
(***************************************************************************)
EXTENDS Pmp, Paging, Isa

CONSTANTS
  Scripts,    \* the steps of every registered test, a function of its name
  NoTest,     \* between two tests
  MaxTests    \* how many of them the program runs

\* What a test is made of.  Addresses past Top are legal operands of an access.
Steps ==
  [op : {"goto"}, to : Levels]
    \union [op : {"cfg", "cfgreg"}, unit : {"pmp"}, entry : PmpEntries, perm : SUBSET Perms, tor : BOOLEAN]
    \union [op : {"cfg", "cfgreg"}, unit : {"pma"}, entry : PmpEntries, perm : SUBSET Attributes, tor : BOOLEAN]
    \union [op : {"lock"}, unit : {"pmp", "pma"}, entry : PmpEntries]
    \union [op : {"addr"}, unit : {"pmp", "pma"}, entry : PmpEntries, at : Addrs]
    \union [op : {"mprv", "mpp_bit", "tvm", "tw", "tsr", "sum", "mxr"}, on : BOOLEAN]
    \union [op : {"enable"}, bits : SUBSET Enables, on : BOOLEAN]
    \union [op : {"mpp"}, to : PmpModes]
    \union [op : {"medeleg"}, add : SUBSET Delegable, del : SUBSET Delegable]
    \union [op : {"hspt_init", "sfence", "satp0", "setup", "reset", "end"}]
    \union [op : {"satp_asid"}, asid : Asids]
    \union [op : {"u_mode_allow"}, leaves : BOOLEAN]
    \union [op : {"leaves"}, add : SUBSET Flags, del : SUBSET Flags]
    \union [op : {"pointer"}, table : Pointers, mark : Marks]
    \union [op : {"super"}, page : Supers, aligned : BOOLEAN]
    \union [op : {"sfence_rs"}, page : Pages \union {"none"}, asid : Asids \union {"all", "other"}]
    \union [op : {"insn"}, insn : Insns]
    \union [op : {"access", "misaligned"}, kind : Kinds, at : Nat]
    \union [op : {"assert"}, cause : Causes \union {"none", "any"}, privs : SUBSET Levels]

ASSUME ScriptsAssumption ==
  /\ NoTest \notin DOMAIN Scripts
  /\ \A t \in DOMAIN Scripts : Scripts[t] \in Seq(Steps)

\* The table main goes through.
test_table == Scripts

ASSUME MaxTestsAssumption == MaxTests \in Nat

VARIABLES
  test,    \* the running test, or NoTest between two tests
  pc,      \* its next step
  ran,     \* how many tests have been started
  level,   \* curr_priv: "HU", "HS" or "M"
  pmp,     \* the PMP unit
  pma,     \* the PMA unit
  mstatus, \* its fields MPRV, MPP, SUM, MXR, TVM, TW and TSR
  medeleg, \* what is delegated to the S-mode handler
  enables, \* the bits of mcounteren, scounteren, mstateen0, menvcfg and senvcfg
  satp,    \* whether it names hspt, and the ASID
  tables,  \* hspt
  tlb,     \* translations the hart holds
  excpt,   \* testing, triggered, cause and priv of struct exception
  test_status,  \* what the running test will report: all assertions held so far
  status,  \* "run", or how control was lost
  clean    \* history: the machine was Untouched when the test was started

vars == <<test, pc, ran, level, pmp, pma, mstatus, medeleg, enables, satp, tables, tlb, excpt,
          test_status, status, clean>>
units == <<pmp, pma>>
hart == <<level, units, mstatus, medeleg, enables, satp, tlb>>

ModeOf(l) == IF l = "M" THEN "M" ELSE IF l = "HS" THEN "S" ELSE "U"

Letter(k) == IF k \in {"load", "lr"} THEN "L" ELSE IF k \in {"exec", "call"} THEN "I" ELSE "S"
Fault(k, class) ==
  CASE class = "access" \/ (class = "misaligned" /\ k \in {"lr", "sc", "amo"}) ->
         (CASE Letter(k) = "L" -> "LAF" [] Letter(k) = "S" -> "SAF" [] OTHER -> "IAF")
    [] class = "misaligned" -> IF Letter(k) = "L" THEN "LAM" ELSE "SAM"
    [] OTHER -> (CASE Letter(k) = "L" -> "LPF" [] Letter(k) = "S" -> "SPF" [] OTHER -> "IPF")

Needs(k) ==
  CASE k = "load"              -> {"R"}
    [] k = "lr"                -> {"R", "atomic"}
    [] k \in {"store", "zero"} -> {"W"}
    [] k \in {"manage", "inval"} -> {"R"}
    [] k = "sc"                -> {"W", "atomic"}
    [] k = "amo"               -> {"R", "W", "atomic"}
    [] k \in {"exec", "call"}  -> {"X"}

(***************************************************************************)
(* A memory access in mode m: "ok", or the class of the fault.             *)
(***************************************************************************)
Physical(m, needs, a) ==
  IF a < Top /\ Permits(pmp, m, needs \ {"atomic"}, a) /\ Provides(pma, needs, a)
  THEN "ok" ELSE "access"

\* The walk reads its tables through the cache.
Readable(ks) ==
  {k \in ks : Permits(pmp, "S", {"R"}, Hspt(k)) /\ Provides(pma, {"R", "cached"}, Hspt(k))}

\* The walk to leaf x ends there, or in a fault.
Walk(x) == WalkFault(tables, x, Readable({Path(x)[i] : i \in DOMAIN Path(x)}))

Bare(m) == m = "M" \/ ~satp.on

Through(x, m, needs, a) ==
  LET hits == Hits(tlb, x, satp.asid)
      walk == IF hits = {} THEN Walk(x) ELSE "none"
      f    == IF hits = {} THEN LeafFlags(tables, x) ELSE (CHOOSE e \in hits : TRUE).flags
  IN  IF walk # "none" THEN walk
      ELSE IF ~Grants(f, m, needs \ {"atomic"}, mstatus) THEN "page"
      ELSE Physical(m, needs, Translated(x, a))

Outcome(m, needs, a) ==
  IF Bare(m) THEN Physical(m, needs, a)
  ELSE IF LeafAt(a) = {} THEN "page"
  ELSE Through(CHOOSE x \in LeafAt(a) : TRUE, m, needs, a)

\* The TLB after an access in mode m: a walk that finds a leaf leaves it there,
\* whether the leaf grants the access or not.
Cached(m, a) ==
  Fill(tlb,
       {x \in LeafAt(a) \ {"giga"} :
          ~Bare(m) /\ Hits(tlb, x, satp.asid) = {} /\ Walk(x) = "none"},
       satp.asid, tables)

\* MPRV makes data accesses of M mode those of MPP.
DataMode == IF level = "M" /\ mstatus.mprv THEN mstatus.mpp ELSE ModeOf(level)

ModeFor(k) == IF k \in {"exec", "call"} THEN ModeOf(level) ELSE DataMode

\* The harness' code and data are within reach of mode m.
Runs(m) ==
  /\ Outcome(m, Perms, Code) = "ok"
  /\ Outcome(m, {"R", "W"}, Stack) = "ok"

DataReachable == \A a \in {Code, Stack} : Outcome(DataMode, {"R", "W"}, a) = "ok"

-----------------------------------------------------------------------------
\* The next step of the running test, if there is one
Upcoming ==
  IF status = "run" /\ test # NoTest /\ pc <= Len(test_table[test]) THEN {test_table[test][pc]} ELSE {}

Advance == pc' = pc + 1 /\ UNCHANGED <<test, ran, status, test_status, clean>>

Lose == status' = "lost" /\ UNCHANGED <<test, pc, ran, hart, tables, excpt, test_status, clean>>

TableOps == {"hspt_init", "u_mode_allow", "leaves", "pointer", "super"}

\* These steps read or write the harness' data.
UsesData == {"goto", "setup", "assert", "access", "misaligned", "reset", "end"} \union TableOps

Rank(l) == CASE l = "M" -> 2 [] l = "HS" -> 1 [] l = "HU" -> 0

\* The modes a switch passes through: the handlers' on the way up, U-mode
\* ecalls being delegated, and the level it ends at.
Passes(from, to) ==
  IF from = to THEN {}
  ELSE (IF from = "HU" THEN {"S"} ELSE {}) \union {ModeOf(to)}

\* What the handlers of a switch from level l leave in excpt, the first of them last
EcallFrom(l) ==
  [testing |-> FALSE, triggered |-> TRUE, cause |-> "ecall",
   priv |-> IF l = "HU" THEN "HS" ELSE "M"]

Switched(to) ==
  /\ level' = to
  /\ mstatus' = [mstatus EXCEPT !.mprv = @ /\ level = "M" /\ to = "M",
                               !.mpp = IF level # to /\ "M" \in {level, to} THEN "U" ELSE @]
  /\ excpt' = IF Rank(to) > Rank(level) THEN EcallFrom(level) ELSE excpt

\* The handlers can run, the ecalls reach the ones that can answer them (others
\* call themselves for ever), and sret is not trapped.
CanSwitch(to) ==
  /\ \A m \in Passes(level, to) : Runs(m)
  /\ level = "HU" /\ to # "HU" => "ECU" \in medeleg
  /\ level # "M" /\ to = "M" => "ECS" \notin medeleg
  /\ level # "M" /\ (level = "HU") # (to = "HU") => ~mstatus.tsr

StepGoto(s) ==
  /\ s.op = "goto"
  /\ IF CanSwitch(s.to)
     THEN /\ Switched(s.to)
          /\ Advance
          /\ UNCHANGED <<units, medeleg, enables, satp, tlb, tables>>
     ELSE Lose

\* mhandler, or hshandler for a delegated cause
HandlerOf(cause) == IF level # "M" /\ cause \in medeleg THEN "HS" ELSE "M"

\* It can run, and return.
Handles(h) == Runs(ModeOf(h)) /\ (h = "HS" => ~mstatus.tsr)

Accepted(cause) == excpt.testing /\ Handles(HandlerOf(cause))

\* A handler records an announced exception and returns behind it: mret leaves MPP
\* at U, and clears MPRV when it leaves M mode.
Record(cause, cache) ==
  /\ excpt' = [testing |-> FALSE, triggered |-> TRUE, cause |-> cause, priv |-> HandlerOf(cause)]
  /\ mstatus' = [mstatus EXCEPT !.mprv = @ /\ level = "M",
                               !.mpp = IF HandlerOf(cause) = "M" THEN "U" ELSE @]
  /\ tlb' = cache
  /\ Advance
  /\ UNCHANGED <<level, units, medeleg, enables, satp>>

\* Nothing else is accepted.
Raise(cause, announced, cache) ==
  IF announced /\ Accepted(cause) THEN Record(cause, cache) /\ UNCHANGED tables ELSE Lose

MachineOps ==
  {"cfgreg", "cfg", "lock", "addr", "mprv", "mpp", "mpp_bit", "tvm", "tw", "tsr", "enable", "medeleg"}
SatpOps       == {"sfence", "sfence_rs", "satp0", "satp_asid"}
SupervisorOps == {"sum", "mxr"} \union SatpOps

\* Granted to M mode always, to HS by a bit of the M-mode CSR, to HU by that and
\* the same bit of the S-mode CSR
Granted(mcsr, scsr, bit) ==
  \/ level = "M"
  \/ <<mcsr, bit>> \in enables /\ (level = "HS" \/ <<scsr, bit>> \in enables)

\* Granted to HS at most, if the condition holds, or to M
Privileged(granted) == level = "M" \/ (level = "HS" /\ granted)

LegalInsn(i) ==
  CASE i \in Counters         -> Granted("mcounteren", "scounteren", i)
    [] i \in States           -> Privileged(<<"mstateen0", i>> \in enables)
    [] i = "stimecmp"         -> Privileged({<<"menvcfg", "STCE">>, <<"mcounteren", "TM">>} \subseteq enables)
    [] i = "supervisor"       -> Privileged(TRUE)
    [] i \in {"satp", "sinval"} -> Privileged(~mstatus.tvm)
    [] i = "wfi"              -> Privileged(~mstatus.tw)
    [] i = "sret"             -> Privileged(~mstatus.tsr)
    [] i = "machine"          -> level = "M"
    [] OTHER                  -> i # "invalid"

\* The level may do what the step does.
Allowed(s) ==
  /\ s.op \in MachineOps => level = "M"
  /\ s.op \in SupervisorOps => level # "HU"
  /\ s.op \in SatpOps => LegalInsn("satp")
  /\ s.op = "insn" => LegalInsn(s.insn)
  /\ s.op = "access" /\ s.kind \in Blocks => Granted("menvcfg", "senvcfg", s.kind)

StepIllegal(s) == ~Allowed(s) /\ Raise("ILL", TRUE, tlb)

\* Legal ones have no effect but for the traps.  The first test that calls ecall
\* itself does so in M mode, where the handler finds the switch to M it was asked
\* for before, or none.  A legal sret would lead wherever sepc says; no test reaches one.
TrapOf == [ebreak |-> "BKP", ecall |-> "ecall"]

StepInsn(s) ==
  /\ s.op = "insn" /\ Allowed(s)
  /\ \/ /\ s.insn \notin {"ebreak", "ecall", "sret"}
        /\ Advance
        /\ UNCHANGED <<hart, tables, excpt>>
     \/ /\ s.insn \in {"ebreak", "ecall"} /\ (s.insn = "ecall" => level = "M")
        /\ Raise(TrapOf[s.insn], TRUE, tlb)

\* A unit after the step's write
WrittenTo(unit, s) ==
  CASE s.op = "cfgreg" -> WriteCfgReg(unit, s.entry, s.perm, s.tor)
    [] s.op = "cfg"    -> WriteCfg(unit, s.entry, s.perm, s.tor)
    [] s.op = "lock"   -> WriteLock(unit, s.entry)
    [] s.op = "addr"   -> WriteAddr(unit, s.entry, s.at)

StepUnit(s) ==
  /\ Allowed(s)
  /\ s.op \in {"cfgreg", "cfg", "lock", "addr"}
  /\ \/ s.unit = "pmp" /\ pmp' = WrittenTo(pmp, s) /\ UNCHANGED pma
     \/ s.unit = "pma" /\ pma' = WrittenTo(pma, s) /\ UNCHANGED pmp
  /\ Advance
  /\ UNCHANGED <<level, mstatus, medeleg, enables, satp, tlb, tables, excpt>>

\* MSTATUS_MPP is the lower bit of the field: it turns U into S, and S into U.
StepMstatus(s) ==
  /\ Allowed(s)
  /\ \/ s.op = "mprv" /\ mstatus' = [mstatus EXCEPT !.mprv = s.on]
     \/ s.op = "mpp" /\ mstatus' = [mstatus EXCEPT !.mpp = s.to]
     \/ /\ s.op = "mpp_bit"
        /\ mstatus' = [mstatus EXCEPT !.mpp = IF @ = "M" THEN @ ELSE IF s.on THEN "S" ELSE "U"]
     \/ s.op = "tvm" /\ mstatus' = [mstatus EXCEPT !.tvm = s.on]
     \/ s.op = "tw" /\ mstatus' = [mstatus EXCEPT !.tw = s.on]
     \/ s.op = "tsr" /\ mstatus' = [mstatus EXCEPT !.tsr = s.on]
     \/ s.op = "sum" /\ mstatus' = [mstatus EXCEPT !.sum = s.on]
     \/ s.op = "mxr" /\ mstatus' = [mstatus EXCEPT !.mxr = s.on]
  /\ Advance
  /\ UNCHANGED <<level, units, medeleg, enables, satp, tlb, tables, excpt>>

\* The tests write the enabling bits, and medeleg, in M mode.
StepEnable(s) ==
  /\ s.op = "enable" /\ Allowed(s)
  /\ enables' = IF s.on THEN enables \union s.bits ELSE enables \ s.bits
  /\ Advance
  /\ UNCHANGED <<level, units, mstatus, medeleg, satp, tlb, tables, excpt>>

StepDelegate(s) ==
  /\ s.op = "medeleg" /\ Allowed(s)
  /\ medeleg' = (medeleg \ s.del) \union s.add
  /\ Advance
  /\ UNCHANGED <<level, units, mstatus, enables, satp, tlb, tables, excpt>>

\* hspt_init builds the tables and names them in satp, with ASID 0 and without a
\* fence.  From HU it is an ERROR, and from HS the write of satp may be illegal.
StepHsptInit(s) ==
  /\ s.op = "hspt_init"
  /\ IF level = "HU" \/ ~(LegalInsn("satp") \/ Accepted("ILL"))
     THEN Lose
     ELSE /\ tables' = InitTables(tables)
          /\ IF LegalInsn("satp")
             THEN /\ satp' = [on |-> TRUE, asid |-> "0"]
                  /\ Advance
                  /\ UNCHANGED <<level, units, mstatus, medeleg, enables, tlb, excpt>>
             ELSE Record("ILL", tlb)

StepTables(s) ==
  /\ \/ /\ s.op = "u_mode_allow"
        /\ tables' = IF s.leaves THEN hspt_u_mode_allow(tables) ELSE hspt_u_mode_allow_no_leaf(tables)
     \/ s.op = "leaves" /\ tables' = EditLeaves(tables, s.add, s.del)
     \/ s.op = "pointer" /\ tables' = SetPointer(tables, s.table, s.mark)
     \/ s.op = "super" /\ tables' = SetSuper(tables, s.page, s.aligned)
  /\ Advance
  /\ UNCHANGED <<hart, excpt>>

\* Mutated form: sfence_vma is left out.
BadStepFence(s) ==
  /\ Allowed(s)
  /\ \/ s.op = "sfence" /\ UNCHANGED <<tlb, satp>>
     \/ s.op = "sfence_rs" /\ tlb' = Flushed(tlb, s.page, s.asid) /\ UNCHANGED satp
     \/ s.op = "satp0" /\ satp' = [on |-> FALSE, asid |-> "0"] /\ UNCHANGED tlb
     \/ s.op = "satp_asid" /\ satp' = [satp EXCEPT !.asid = s.asid] /\ UNCHANGED tlb
  /\ Advance
  /\ UNCHANGED <<level, units, mstatus, medeleg, enables, tables, excpt>>

StepFence(s) ==
  /\ Allowed(s)
  /\ \/ s.op = "sfence" /\ tlb' = {} /\ UNCHANGED satp
     \/ s.op = "sfence_rs" /\ tlb' = Flushed(tlb, s.page, s.asid) /\ UNCHANGED satp
     \/ s.op = "satp0" /\ satp' = [on |-> FALSE, asid |-> "0"] /\ UNCHANGED tlb
     \/ s.op = "satp_asid" /\ satp' = [satp EXCEPT !.asid = s.asid] /\ UNCHANGED tlb
  /\ Advance
  /\ UNCHANGED <<level, units, mstatus, medeleg, enables, tables, excpt>>

StepSetup(s) ==
  /\ s.op = "setup"
  /\ excpt' = [excpt EXCEPT !.testing = TRUE, !.triggered = FALSE]
  /\ Advance
  /\ UNCHANGED <<hart, tables>>

\* The access succeeds.  A jump that TEST_EXEC_EXCEPT expects to fault runs
\* into whatever is there.
StepAccess(s) ==
  /\ s.op = "access" /\ Allowed(s)
  /\ Outcome(ModeFor(s.kind), Needs(s.kind), s.at) = "ok"
  /\ IF s.kind = "exec"
     THEN Lose
     ELSE /\ tlb' = Cached(ModeFor(s.kind), s.at)
          /\ Advance
          /\ UNCHANGED <<level, units, mstatus, medeleg, enables, satp, tables, excpt>>

\* An access' own fault comes before that of its address not being aligned.
FaultClass(s) ==
  LET outcome == Outcome(ModeFor(s.kind), Needs(s.kind), s.at)
  IN  IF s.op = "misaligned" /\ outcome = "ok" THEN "misaligned" ELSE outcome

\* The access faults.  Only TEST_EXEC_EXCEPT leaves the return address of a fetch.
StepFault(s) ==
  /\ s.op \in {"access", "misaligned"} /\ Allowed(s)
  /\ \E class \in {"access", "page", "misaligned"} \intersect {FaultClass(s)} :
       Raise(Fault(s.kind, class), s.kind # "call", Cached(ModeFor(s.kind), s.at))

\* The condition of the assertion
Verdict(s) ==
  IF s.cause = "none" THEN ~excpt.triggered
  ELSE excpt.triggered /\ s.cause \in {"any", excpt.cause} /\ excpt.priv \in s.privs

StepAssert(s) ==
  /\ s.op = "assert"
  /\ test_status' = (test_status /\ Verdict(s))
  /\ pc' = pc + 1
  /\ UNCHANGED <<test, ran, status, hart, tables, excpt, clean>>

-----------------------------------------------------------------------------
\* reset_state: a switch to M, then mstatus, medeleg, satp and pmpcfg0 anew, and a
\* fence.  It leaves the enabling bits alone.
CanReset == DataReachable /\ CanSwitch("M")

MstatusAtReset ==
  [mprv |-> FALSE, mpp |-> "U", sum |-> FALSE, mxr |-> FALSE, tvm |-> FALSE, tw |-> FALSE, tsr |-> FALSE]

\* Mutated form: mstatus keeps its value.
BadResetMstatus ==
  /\ level' = "M"
  /\ excpt' = IF level = "M" THEN excpt ELSE EcallFrom(level)
  /\ medeleg' = {"ECU"}
  /\ satp' = [on |-> FALSE, asid |-> "0"]
  /\ tlb' = {}
  /\ pmp' = ResetPmp(pmp)
  /\ UNCHANGED <<pma, mstatus, enables, tables>>

reset_state ==
  /\ level' = "M"
  /\ mstatus' = MstatusAtReset
  /\ excpt' = IF level = "M" THEN excpt ELSE EcallFrom(level)
  /\ medeleg' = {"ECU"}
  /\ satp' = [on |-> FALSE, asid |-> "0"]
  /\ tlb' = {}
  /\ pmp' = ResetPmp(pmp)
  /\ UNCHANGED <<pma, enables, tables>>

\* A test that resets the machine in its course
StepReset(s) ==
  /\ s.op = "reset"
  /\ IF CanReset THEN reset_state /\ Advance ELSE Lose

\* TEST_END
TestEnd(s) ==
  /\ s.op = "end"
  /\ IF CanReset
     THEN test' = NoTest /\ reset_state /\ UNCHANGED <<pc, ran, status, test_status, clean>>
     ELSE Lose

\* One step of the running test.  If the harness cannot reach the data the step
\* uses, its own access faults, and all is lost.
Take(s) ==
  IF s.op \in UsesData /\ ~DataReachable
  THEN Lose
  ELSE \/ StepGoto(s) \/ StepIllegal(s) \/ StepUnit(s) \/ StepMstatus(s) \/ StepDelegate(s)
       \/ StepEnable(s) \/ StepInsn(s) \/ StepReset(s)
       \/ StepHsptInit(s) \/ StepTables(s) \/ StepFence(s) \/ StepSetup(s) \/ StepAccess(s)
       \/ StepFault(s) \/ StepAssert(s) \/ TestEnd(s)

\* A test without TEST_END returns to main as it is.
TestFallsOff ==
  /\ status = "run"
  /\ test # NoTest /\ pc > Len(test_table[test])
  /\ test' = NoTest
  /\ UNCHANGED <<pc, ran, status, hart, tables, excpt, test_status, clean>>

\* What reset_state does not restore is as at power-on: locked entries, those past
\* the first configuration register, and the PMA.
Untouched ==
  /\ pma = PmaAtPowerOn
  /\ \A i \in PmpEntries : ~pmp[i].lock /\ (i >= 8 => ~pmp[i].tor)

\* Mutated form: the loop runs once too often.
BadMain ==
  /\ status = "run"
  /\ test = NoTest /\ ran <= MaxTests
  /\ test' \in DOMAIN test_table
  /\ pc' = 1
  /\ ran' = ran + 1
  /\ test_status' = TRUE
  /\ clean' = Untouched
  /\ reset_state
  /\ UNCHANGED status

\* One round of main's loop: reset_state, then the next registered test.
main ==
  /\ status = "run"
  /\ test = NoTest /\ ran < MaxTests
  /\ IF CanReset
     THEN /\ test' \in DOMAIN test_table
          /\ pc' = 1
          /\ ran' = ran + 1
          /\ test_status' = TRUE
          /\ clean' = Untouched
          /\ reset_state
          /\ UNCHANGED status
     ELSE Lose

Stopped ==
  /\ status # "run" \/ (test = NoTest /\ ran = MaxTests)
  /\ UNCHANGED vars

Init ==
  /\ test = NoTest /\ pc = 1 /\ ran = 0
  /\ level = "M" /\ mstatus = MstatusAtReset /\ medeleg = {}
  /\ enables \in {{}, Enables}
  /\ pmp = PmpAtPowerOn /\ pma = PmaAtPowerOn
  /\ satp = [on |-> FALSE, asid |-> "0"]
  /\ tables = TablesAtStart /\ tlb = {}
  /\ excpt = [testing |-> FALSE, triggered |-> FALSE, cause |-> "none", priv |-> "HU"]
  /\ test_status = TRUE /\ status = "run" /\ clean = TRUE

Next ==
  \/ \E s \in Upcoming : Take(s)
  \/ TestFallsOff \/ main \/ Stopped

Spec == Init /\ [][Next]_vars

-----------------------------------------------------------------------------
\* The record of exceptions
Excepts ==
  [testing : BOOLEAN, triggered : BOOLEAN, cause : Causes \union {"none", "ecall"},
   priv : Levels]

\* Every variable keeps to its type, for every list of well-formed tests.
TestTypeOK ==
  /\ test \in DOMAIN Scripts \union {NoTest}
  /\ pc \in Nat \ {0}
  /\ ran \in 0..MaxTests
  /\ level \in Levels
  /\ pmp \in PmpUnits
  /\ pma \in PmaUnits
  /\ mstatus \in [mprv : BOOLEAN, mpp : PmpModes, sum : BOOLEAN, mxr : BOOLEAN,
                  tvm : BOOLEAN, tw : BOOLEAN, tsr : BOOLEAN]
  /\ medeleg \in SUBSET Delegable
  /\ enables \in SUBSET Enables
  /\ satp \in [on : BOOLEAN, asid : Asids]
  /\ tables \in Tables
  /\ tlb \in SUBSET Entries
  /\ excpt \in Excepts
  /\ test_status \in BOOLEAN
  /\ status \in {"run", "lost"}
  /\ clean \in BOOLEAN

\* The first assertion comes before any TEST_SETUP_EXCEPT.
AssertsUnarmed(steps) ==
  \E i \in DOMAIN steps :
    steps[i].op = "assert" /\ \A j \in 1..(i - 1) : steps[j].op # "setup"

Unarmed == {t \in DOMAIN Scripts : AssertsUnarmed(Scripts[t])}

\* A test's verdict depends on the tests before it only through what reset_state
\* does not restore, which is the PMA, locked entries and the PMP entries past
\* pmpcfg0, and through the record of exceptions if it asserts before
\* TEST_SETUP_EXCEPT: any other test that starts with these untouched passes all its
\* assertions, whatever ran before it.
\* What it expects of its accesses follows from the entries, tables, translations
\* and fences it programs.
CleanTestPasses == clean /\ ran > 0 /\ ~test_status => test \in Unarmed \/ test = NoTest

\* An instruction whose announcement the ecall of a later switch has used up
AnnouncementUsedUp ==
  \E s \in {Scripts[test][pc]} :
    s.op = "insn" /\ ~excpt.testing /\ excpt.cause = "ecall"

\* The tests lose the machine in five ways only: the machine was not clean when
\* they started; a test stays in HU after the tables made the S-mode handler's
\* code a user page; it has broken the root table and then leaves M mode; it has
\* delegated the ecalls of HS and stays below M; or it announces an illegal
\* instruction before the switch that takes the announcement.
LossExplained ==
  status = "lost" =>
    \/ ~clean
    \/ level = "HU" /\ "U" \in tables.super["giga"]
    \/ tables.pointer[0] # "ok"
    \/ "ECS" \in medeleg /\ level # "M"
    \/ test # NoTest /\ AnnouncementUsedUp

\* reset_state opens all of memory to every mode as far as the PMP is concerned,
\* whatever the entries hold that it does not write, as long as its own entry can be
\* written.
ResetOpensMemory ==
  test # NoTest /\ pc = 1 /\ status = "run" /\ ~Pinned(pmp, 0) =>
    \A m \in PmpModes, a \in 0..(Top - 1) : Permits(pmp, m, Perms, a)
===============================================================================
