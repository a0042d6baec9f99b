-------------------------- MODULE TestProgramProofs --------------------------
(***************************************************************************)
(* Proofs about test programs, for every list of tests and any number of   *)
(* PMP entries.                                                            *)
(***************************************************************************)
EXTENDS TestProgram, TLAPS

(***************************************************************************)
(* The writes of the PMP and PMA units.                                    *)
(***************************************************************************)

\* Every write yields a unit again.
LEMMA WritesTyped ==
  ASSUME NEW Q, NEW p \in Units(Q), NEW i \in PmpEntries, NEW perms \in SUBSET Q,
         NEW tor \in BOOLEAN, NEW a \in Addrs
  PROVE  /\ WriteCfg(p, i, perms, tor) \in Units(Q)
         /\ WriteCfgReg(p, i, perms, tor) \in Units(Q)
         /\ WriteLock(p, i) \in Units(Q)
         /\ WriteAddr(p, i, a) \in Units(Q)
<1>1. Legal(perms) \in SUBSET Q
  BY DEF Legal
<1>2. \A j \in PmpEntries : p[j] \in [perm : SUBSET Q, tor : BOOLEAN, lock : BOOLEAN, addr : Addrs]
  BY DEF Units
<1>3. WriteCfg(p, i, perms, tor) \in Units(Q)
  BY <1>1, <1>2 DEF WriteCfg, Written, Units
<1>4. WriteCfgReg(p, i, perms, tor) \in Units(Q)
  BY <1>1, <1>2 DEF WriteCfgReg, Off, Units
<1>5. WriteLock(p, i) \in Units(Q)
  BY <1>2 DEF WriteLock, Written, Units
<1>6. WriteAddr(p, i, a) \in Units(Q)
  BY <1>2 DEF WriteAddr, Units
<1> QED
  BY <1>3, <1>4, <1>5, <1>6

\* reset_state's writes yield a unit.
LEMMA ResetTyped ==
  ASSUME NEW p \in PmpUnits
  PROVE  ResetPmp(p) \in PmpUnits
<1>1. 0 \in PmpEntries /\ Top \in Addrs
  BY PmpAssumption DEF PmpEntries, Addrs
<1>2. WriteCfgReg(p, 0, Perms, TRUE) \in Units(Perms)
  BY <1>1, WritesTyped DEF PmpUnits
<1> QED
  BY <1>1, <1>2, WritesTyped DEF ResetPmp, PmpUnits

\* Unless its first entry is pinned, the unit after reset_state lets every mode
\* use every address.
LEMMA ResetOpensUnit ==
  ASSUME NEW p \in PmpUnits, ~Pinned(ResetPmp(p), 0),
         NEW m \in PmpModes, NEW a \in 0..(Top - 1)
  PROVE  Permits(ResetPmp(p), m, Perms, a)
<1> DEFINE q == WriteCfgReg(p, 0, Perms, TRUE)
           r == ResetPmp(p)
<1>1. 0 \in PmpEntries /\ Top \in Addrs /\ (1 \in PmpEntries => 1 \in 0..7)
  BY PmpAssumption DEF PmpEntries, Addrs
<1>2. \A j \in PmpEntries : p[j] \in [perm : SUBSET Perms, tor : BOOLEAN, lock : BOOLEAN, addr : Addrs]
  BY DEF PmpUnits, Units
<1>3. q \in PmpUnits
  BY <1>1, WritesTyped DEF PmpUnits
<1>4. \A j \in PmpEntries : q[j] \in [perm : SUBSET Perms, tor : BOOLEAN, lock : BOOLEAN, addr : Addrs]
  BY <1>3 DEF PmpUnits, Units
<1>5. r = WriteAddr(q, 0, Top)
  BY DEF ResetPmp
<1>6. ~Pinned(q, 0)
  <2>1. CASE Pinned(q, 0)
    <3>1. r = q
      BY <1>5, <2>1 DEF WriteAddr
    <3> QED
      BY <2>1, <3>1
  <2> QED
    BY <2>1
<1>7. r = [q EXCEPT ![0].addr = Top]
  BY <1>5, <1>6 DEF WriteAddr
<1>8. ~q[0].lock
  BY <1>6 DEF Pinned
<1>9. ~p[0].lock
  BY <1>1, <1>8 DEF WriteCfgReg
<1>10. q[0].perm = Perms /\ q[0].tor
  <2>1. Legal(Perms) = Perms
    BY DEF Legal, Perms
  <2>2. q[0] = [p[0] EXCEPT !.perm = Legal(Perms), !.tor = TRUE]
    BY <1>1, <1>9 DEF WriteCfgReg
  <2> QED
    BY <1>1, <1>2, <2>1, <2>2
<1>11. r[0].perm = Perms /\ r[0].tor /\ ~r[0].lock /\ r[0].addr = Top
  <2> HIDE DEF q, r
  <2>1. q[0] \in [perm : SUBSET Perms, tor : BOOLEAN, lock : BOOLEAN, addr : Addrs]
    BY <1>1, <1>4
  <2>2. r[0] = [q[0] EXCEPT !.addr = Top]
    BY <1>1, <1>3, <1>7 DEF PmpUnits, Units
  <2> QED
    BY <2>1, <2>2, <1>8, <1>10
<1> HIDE DEF r
<1>12. Covers(r, 0, a)
  BY <1>11, PmpAssumption DEF Covers, Base
<1>13. Deciding(r, a) = {0}
  <2>1. 0 \in Deciding(r, a)
    BY <1>1, <1>12, PmpAssumption DEF Deciding, PmpEntries
  <2>2. \A i \in Deciding(r, a) : i = 0
    BY <1>1, <1>12, PmpAssumption DEF Deciding, PmpEntries
  <2> QED
    BY <2>1, <2>2
<1>14. Permits(r, m, Perms, a)
  BY <1>11, <1>13 DEF Permits
<1> QED
  BY <1>14 DEF r

(***************************************************************************)
(* The tables and the TLB.                                                 *)
(***************************************************************************)

\* Every setup yields tables again.
LEMMA TablesTyped ==
  ASSUME NEW t \in Tables
  PROVE  /\ InitTables(t) \in Tables
         /\ hspt_u_mode_allow_no_leaf(t) \in Tables
         /\ hspt_u_mode_allow(t) \in Tables
         /\ \A add, del \in SUBSET Flags : EditLeaves(t, add, del) \in Tables
         /\ \A k \in Pointers, mark \in Marks : SetPointer(t, k, mark) \in Tables
         /\ \A x \in Supers, aligned \in BOOLEAN : SetSuper(t, x, aligned) \in Tables
<1>1. /\ Plain \in SUBSET Flags /\ {"U"} \in SUBSET Flags
      /\ Plain \union {"misaligned"} \in SUBSET Flags /\ "ok" \in Marks
  BY DEF Plain, Flags, Marks
<1>2. InitTables(t) \in Tables
  <2>1. [s \in Supers |-> IF s = "512G" THEN t.super[s] ELSE Plain] \in [Supers -> SUBSET Flags]
    BY <1>1 DEF Tables
  <2> QED
    BY <1>1, <2>1 DEF InitTables, Tables
<1>3. \A u \in Tables : \A add, del \in SUBSET Flags : EditLeaves(u, add, del) \in Tables
  BY DEF EditLeaves, Tables
<1>4. hspt_u_mode_allow_no_leaf(t) \in Tables
  <2>1. [s \in Supers |-> IF s = "512G" THEN t.super[s] ELSE t.super[s] \union {"U"}]
          \in [Supers -> SUBSET Flags]
    BY <1>1 DEF Tables
  <2> QED
    BY <2>1 DEF hspt_u_mode_allow_no_leaf, Tables
<1>5. hspt_u_mode_allow(t) \in Tables
  BY <1>1, <1>3, <1>4 DEF hspt_u_mode_allow
<1>6. \A k \in Pointers, mark \in Marks : SetPointer(t, k, mark) \in Tables
  BY DEF SetPointer, Tables
<1>7. \A x \in Supers, aligned \in BOOLEAN : SetSuper(t, x, aligned) \in Tables
  BY <1>1 DEF SetSuper, Tables
<1> QED
  BY <1>2, <1>3, <1>4, <1>5, <1>6, <1>7

\* An entry of the tables is a set of flags.
LEMMA LeafFlagsTyped ==
  ASSUME NEW t \in Tables, NEW x \in Pages \union Supers
  PROVE  LeafFlags(t, x) \in SUBSET Flags
<1>1. CASE x \in Supers
  BY <1>1 DEF LeafFlags, Tables
<1>2. CASE x \notin Supers
  <2>1. PagePerm(x) \in SUBSET Flags
    BY DEF PagePerm, Flags
  <2>2. {"A", "D"} \in SUBSET Flags
    BY DEF Flags
  <2> QED
    BY <1>2, <2>1, <2>2 DEF LeafFlags, Tables
<1> QED
  BY <1>1, <1>2

\* What an access leaves in the TLB are entries.
LEMMA CachedTyped ==
  ASSUME TestTypeOK, NEW m, NEW a
  PROVE  Cached(m, a) \in SUBSET Entries
<1> DEFINE xs == {x \in LeafAt(a) \ {"giga"} :
                    ~Bare(m) /\ Hits(tlb, x, satp.asid) = {} /\ Walk(x) = "none"}
<1>1. LeafAt(a) \subseteq Pages \union Supers
  BY DEF LeafAt, Supers
<1>2. xs \subseteq Pages \union Supers
  BY <1>1
<1>3. satp.asid \in Asids /\ tables \in Tables /\ tlb \in SUBSET Entries
  BY DEF TestTypeOK
<1>4. \A x \in xs : [page |-> x, asid |-> satp.asid, flags |-> LeafFlags(tables, x)] \in Entries
  BY <1>2, <1>3, LeafFlagsTyped DEF Entries
<1> HIDE DEF xs
<1>5. Fill(tlb, xs, satp.asid, tables) \in SUBSET Entries
  BY <1>3, <1>4 DEF Fill
<1> QED
  BY <1>5 DEF Cached, xs

(***************************************************************************)
(* Types.                                                                  *)
(***************************************************************************)
LEMMA UpcomingTyped ==
  ASSUME TestTypeOK, NEW s \in Upcoming
  PROVE  s \in Steps
<1>1. status = "run" /\ test # NoTest /\ pc <= Len(Scripts[test]) /\ s = Scripts[test][pc]
  BY DEF Upcoming, test_table
<1>2. test \in DOMAIN Scripts
  BY <1>1 DEF TestTypeOK
<1>3. Scripts[test] \in Seq(Steps)
  BY <1>2, ScriptsAssumption
<1>4. pc \in 1..Len(Scripts[test])
  BY <1>1, <1>3 DEF TestTypeOK
<1> HIDE DEF Steps
<1> QED
  BY <1>1, <1>3, <1>4

\* What the operands of a step are.
LEMMA Operands ==
  ASSUME NEW s \in Steps
  PROVE  /\ s.op = "goto" => s.to \in Levels
         /\ s.op \in {"cfg", "cfgreg"} =>
              s.entry \in PmpEntries /\ s.tor \in BOOLEAN
                /\ s.perm \in SUBSET (IF s.unit = "pmp" THEN Perms ELSE Attributes)
         /\ s.op = "lock" => s.entry \in PmpEntries
         /\ s.op = "addr" => s.entry \in PmpEntries /\ s.at \in Addrs
         /\ s.op \in {"mprv", "mpp_bit", "tvm", "tw", "tsr", "sum", "mxr"} => s.on \in BOOLEAN
         /\ s.op = "mpp" => s.to \in PmpModes
         /\ s.op = "enable" => s.bits \in SUBSET Enables
         /\ s.op = "medeleg" => s.add \in SUBSET Delegable
         /\ s.op = "satp_asid" => s.asid \in Asids
         /\ s.op = "leaves" => s.add \in SUBSET Flags /\ s.del \in SUBSET Flags
         /\ s.op = "pointer" => s.table \in Pointers /\ s.mark \in Marks
         /\ s.op = "super" => s.page \in Supers /\ s.aligned \in BOOLEAN
         /\ s.op \in {"access", "misaligned"} => s.kind \in Kinds
  BY DEF Steps

LEMMA FaultTyped ==
  ASSUME NEW k \in Kinds, NEW class \in {"access", "page", "misaligned"}
  PROVE  Fault(k, class) \in Causes
<1>1. Letter(k) \in {"L", "I", "S"}
  BY DEF Letter
<1> QED
  BY <1>1 DEF Fault, Causes, PageFaults

\* A new record is one.
LEMMA ExceptTyped ==
  ASSUME NEW t \in BOOLEAN, NEW d \in BOOLEAN, NEW c \in Causes \union {"none", "ecall"},
         NEW l \in Levels
  PROVE  [testing |-> t, triggered |-> d, cause |-> c, priv |-> l] \in Excepts
BY DEF Excepts

LEMMA EcallTyped == \A l : EcallFrom(l) \in Excepts
BY DEF EcallFrom, Excepts, Levels

\* A new satp is one.
LEMMA SatpTyped ==
  \A b \in BOOLEAN : [on |-> b, asid |-> "0"] \in [on : BOOLEAN, asid : Asids]
BY DEF Asids

\* The fields of mstatus, each with its type
Fields ==
  [mprv : BOOLEAN, mpp : PmpModes, sum : BOOLEAN, mxr : BOOLEAN, tvm : BOOLEAN, tw : BOOLEAN,
   tsr : BOOLEAN]

\* A recorded exception keeps the types, if the tables keep theirs.
LEMMA RecordTyped ==
  ASSUME TestTypeOK, NEW c \in Causes \union {"ecall"}, NEW cache \in SUBSET Entries,
         Record(c, cache), tables' \in Tables
  PROVE  TestTypeOK'
<1>1. HandlerOf(c) \in Levels
  BY DEF HandlerOf, Levels
<1>2. excpt' \in Excepts
  <2>1. [testing |-> FALSE, triggered |-> TRUE, cause |-> c, priv |-> HandlerOf(c)] \in Excepts
    BY <1>1, ExceptTyped
  <2> QED
    BY <2>1 DEF Record
<1>3. mstatus \in Fields
  BY DEF TestTypeOK, Fields
<1>4. mstatus' \in Fields
  BY <1>3 DEF Record, Fields, PmpModes
<1> QED
  BY <1>2, <1>4 DEF Record, TestTypeOK, Advance, units, Fields

\* Losing control keeps the types.
LEMMA LoseTyped ==
  ASSUME TestTypeOK, Lose
  PROVE  TestTypeOK'
BY DEF Lose, TestTypeOK, hart, units

\* A recorded or a refused exception keeps the types.
LEMMA RaiseTyped ==
  ASSUME TestTypeOK, NEW c \in Causes \union {"ecall"}, NEW announced \in BOOLEAN,
         NEW cache \in SUBSET Entries, Raise(c, announced, cache)
  PROVE  TestTypeOK'
<1>1. CASE announced /\ Accepted(c)
  <2>1. Record(c, cache) /\ tables' \in Tables
    BY <1>1 DEF Raise, TestTypeOK
  <2> QED
    BY <2>1, RecordTyped
<1>2. CASE ~(announced /\ Accepted(c))
  BY <1>2, LoseTyped DEF Raise
<1> QED
  BY <1>1, <1>2

\* What reset_state writes is of the right type.
LEMMA ResetStateTyped ==
  ASSUME TestTypeOK, reset_state
  PROVE  /\ level' \in Levels /\ pmp' \in PmpUnits /\ pma' \in PmaUnits /\ mstatus' \in Fields
         /\ medeleg' \in SUBSET Delegable /\ enables' \in SUBSET Enables
         /\ satp' \in [on : BOOLEAN, asid : Asids] /\ tables' \in Tables /\ tlb' \in SUBSET Entries /\ excpt' \in Excepts
<1>1. pmp' \in PmpUnits
  BY ResetTyped DEF TestTypeOK, reset_state
<1>2. excpt' \in Excepts
  BY EcallTyped DEF TestTypeOK, reset_state
<1>3. mstatus' \in Fields
  BY DEF reset_state, MstatusAtReset, Fields, PmpModes
<1>4. satp' \in [on : BOOLEAN, asid : Asids]
  BY SatpTyped DEF reset_state
<1> QED
  BY <1>1, <1>2, <1>3, <1>4 DEF TestTypeOK, reset_state, Levels, Delegable

LEMMA InitTyped == Init => TestTypeOK
<1> SUFFICES ASSUME Init PROVE TestTypeOK
  OBVIOUS
<1>1. pmp \in PmpUnits
  BY PmpAssumption DEF Init, PmpAtPowerOn, PmpUnits, Units, Addrs
<1>2. pma \in PmaUnits
  BY PmpAssumption DEF Init, PmaAtPowerOn, PmaUnits, Units, Addrs
<1>3. tables \in Tables
  <2>1. [k \in Pointers |-> "invalid"] \in [Pointers -> Marks]
    BY DEF Marks
  <2>2. [s \in Supers |-> {}] \in [Supers -> SUBSET Flags]
    OBVIOUS
  <2>3. {"V"} \in SUBSET Flags
    BY DEF Flags
  <2> QED
    BY <2>1, <2>2, <2>3 DEF Init, TablesAtStart, Tables
<1>4. mstatus \in Fields /\ satp \in [on : BOOLEAN, asid : Asids]
  BY DEF Init, MstatusAtReset, Fields, PmpModes, Asids
<1>5. excpt \in Excepts
  BY DEF Init, Excepts, Levels
<1>6. ran \in 0..MaxTests
  BY MaxTestsAssumption DEF Init
<1>7. test_status \in BOOLEAN /\ clean \in BOOLEAN
  BY DEF Init
<1> QED
  BY <1>1, <1>2, <1>3, <1>4, <1>5, <1>6, <1>7 DEF Init, TestTypeOK, Levels, Fields

\* A step of a test keeps the types.
LEMMA TakeTyped ==
  ASSUME TestTypeOK, NEW s \in Upcoming, Take(s)
  PROVE  TestTypeOK'
<1>0. s \in Steps
  BY UpcomingTyped
<1> HIDE DEF Steps
<1>00. mstatus \in Fields /\ pmp \in Units(Perms) /\ pma \in Units(Attributes)
  BY DEF TestTypeOK, Fields, PmpUnits, PmaUnits
<1>1. CASE Lose
  BY <1>1, LoseTyped
<1>2. CASE StepGoto(s)
  <2>1. s.to \in Levels
    BY <1>0, <1>2, Operands DEF StepGoto
  <2>2. CASE Switched(s.to) /\ Advance /\ UNCHANGED <<units, medeleg, enables, satp, tlb, tables>>
    <3>1. excpt' \in Excepts
      BY <2>2, EcallTyped DEF Switched, TestTypeOK
    <3>2. mstatus' \in Fields
      BY <1>00, <2>2 DEF Switched, Fields, PmpModes
    <3>3. level' \in Levels
      BY <2>1, <2>2 DEF Switched
    <3> QED
      BY <2>2, <3>1, <3>2, <3>3 DEF TestTypeOK, Advance, units, Fields
  <2> QED
    BY <1>2, <2>2, LoseTyped DEF StepGoto
<1>3. CASE StepIllegal(s)
  <2>1. tlb \in SUBSET Entries /\ "ILL" \in Causes
    BY DEF TestTypeOK, Causes
  <2> QED
    BY <1>3, <2>1, RaiseTyped DEF StepIllegal
<1>4. CASE StepUnit(s)
  <2>1. s.op \in {"cfgreg", "cfg", "lock", "addr"}
    BY <1>4 DEF StepUnit
  <2>2. /\ s.op \in {"cfg", "cfgreg"} =>
             s.entry \in PmpEntries /\ s.tor \in BOOLEAN
               /\ s.perm \in SUBSET (IF s.unit = "pmp" THEN Perms ELSE Attributes)
        /\ s.op = "lock" => s.entry \in PmpEntries
        /\ s.op = "addr" => s.entry \in PmpEntries /\ s.at \in Addrs
    BY <1>0, Operands
  <2>3. 0 \in Addrs /\ TRUE \in BOOLEAN /\ (\A Q : {} \in SUBSET Q)
    BY PmpAssumption DEF Addrs
  <2>4. ASSUME NEW Q, NEW u \in Units(Q), s.op \in {"cfg", "cfgreg"} => s.perm \in SUBSET Q
        PROVE  WrittenTo(u, s) \in Units(Q)
    <3>1. CASE s.op = "cfgreg"
      BY <2>2, <2>3, <2>4, <3>1, WritesTyped DEF WrittenTo
    <3>2. CASE s.op = "cfg"
      BY <2>2, <2>3, <2>4, <3>2, WritesTyped DEF WrittenTo
    <3>3. CASE s.op = "lock"
      BY <2>2, <2>3, <3>3, WritesTyped DEF WrittenTo
    <3>4. CASE s.op = "addr"
      BY <2>2, <2>3, <3>4, WritesTyped DEF WrittenTo
    <3> QED
      BY <2>1, <3>1, <3>2, <3>3, <3>4
  <2>5. pmp' \in PmpUnits /\ pma' \in PmaUnits
    <3>1. CASE s.unit = "pmp" /\ pmp' = WrittenTo(pmp, s) /\ UNCHANGED pma
      BY <1>00, <2>2, <2>4, <3>1 DEF PmpUnits, PmaUnits
    <3>2. CASE s.unit = "pma" /\ pma' = WrittenTo(pma, s) /\ UNCHANGED pmp
      BY <1>00, <2>2, <2>4, <3>2 DEF PmpUnits, PmaUnits
    <3> QED
      BY <1>4, <3>1, <3>2 DEF StepUnit
  <2> QED
    BY <1>4, <2>5 DEF StepUnit, TestTypeOK, Advance
<1>5. CASE StepMstatus(s)
  <2>1. /\ s.op \in {"mprv", "mpp_bit", "tvm", "tw", "tsr", "sum", "mxr"} => s.on \in BOOLEAN
        /\ s.op = "mpp" => s.to \in PmpModes
    BY <1>0, Operands
  <2>2. mstatus' \in Fields
    BY <1>5, <1>00, <2>1 DEF StepMstatus, Fields, PmpModes
  <2> QED
    BY <1>5, <2>2 DEF StepMstatus, TestTypeOK, Advance, units, Fields
<1>6. CASE StepDelegate(s)
  <2>1. medeleg' \in SUBSET Delegable
    BY <1>0, <1>6, Operands DEF StepDelegate, TestTypeOK
  <2> QED
    BY <1>6, <2>1 DEF StepDelegate, TestTypeOK, Advance, units
<1>7. CASE StepHsptInit(s)
  <2>1. CASE Lose
    BY <2>1, LoseTyped
  <2>2. CASE ~Lose
    <3>1. tables' \in Tables
      BY <1>7, <2>2, TablesTyped DEF StepHsptInit, TestTypeOK
    <3>2. CASE LegalInsn("satp")
      <4>1. satp' \in [on : BOOLEAN, asid : Asids]
        BY <1>7, <2>2, <3>2, SatpTyped DEF StepHsptInit
      <4> QED
        BY <1>7, <2>2, <3>1, <3>2, <4>1 DEF StepHsptInit, TestTypeOK, Advance, units
    <3>3. CASE ~LegalInsn("satp")
      <4>1. Record("ILL", tlb)
        BY <1>7, <2>2, <3>3 DEF StepHsptInit
      <4>2. tlb \in SUBSET Entries /\ "ILL" \in Causes
        BY DEF TestTypeOK, Causes
      <4> QED
        BY <3>1, <4>1, <4>2, RecordTyped
    <3> QED
      BY <3>2, <3>3
  <2> QED
    BY <2>1, <2>2
<1>8. CASE StepTables(s)
  <2>1. /\ s.op = "leaves" => s.add \in SUBSET Flags /\ s.del \in SUBSET Flags
        /\ s.op = "pointer" => s.table \in Pointers /\ s.mark \in Marks
        /\ s.op = "super" => s.page \in Supers /\ s.aligned \in BOOLEAN
    BY <1>0, Operands
  <2>2. tables \in Tables
    BY DEF TestTypeOK
  <2>3. tables' \in Tables
    BY <1>8, <2>1, <2>2, TablesTyped DEF StepTables
  <2> QED
    BY <1>8, <2>3 DEF StepTables, TestTypeOK, Advance, hart, units
<1>9. CASE StepFence(s)
  <2>1. s.op = "satp_asid" => s.asid \in Asids
    BY <1>0, Operands
  <2>2. tlb' \in SUBSET Entries
    BY <1>9 DEF StepFence, TestTypeOK, Flushed
  <2>3. satp' \in [on : BOOLEAN, asid : Asids]
    <3>1. satp \in [on : BOOLEAN, asid : Asids]
      BY DEF TestTypeOK
    <3>2. CASE s.op = "satp0"
      BY <1>9, <3>2, SatpTyped DEF StepFence
    <3>3. CASE s.op = "satp_asid"
      BY <1>9, <2>1, <3>1, <3>3 DEF StepFence
    <3>4. CASE s.op \notin {"satp0", "satp_asid"}
      BY <1>9, <3>1, <3>4 DEF StepFence
    <3> QED
      BY <3>2, <3>3, <3>4
  <2> QED
    BY <1>9, <2>2, <2>3 DEF StepFence, TestTypeOK, Advance, units
<1>10. CASE StepSetup(s)
  <2>1. excpt' \in Excepts
    BY <1>10 DEF StepSetup, TestTypeOK, Excepts
  <2> QED
    BY <1>10, <2>1 DEF StepSetup, TestTypeOK, Advance, hart, units
<1>11. CASE StepAccess(s)
  <2>1. Cached(ModeFor(s.kind), s.at) \in SUBSET Entries
    BY CachedTyped
  <2> QED
    BY <1>11, <2>1, LoseTyped DEF StepAccess, TestTypeOK, Advance, units
<1>12. CASE StepFault(s)
  <2>1. s.kind \in Kinds
    BY <1>0, <1>12, Operands DEF StepFault
  <2>2. PICK class \in {"access", "page", "misaligned"} :
          Raise(Fault(s.kind, class), s.kind # "call", Cached(ModeFor(s.kind), s.at))
    BY <1>12 DEF StepFault
  <2>3. Fault(s.kind, class) \in Causes
    BY <2>1, FaultTyped
  <2>4. Cached(ModeFor(s.kind), s.at) \in SUBSET Entries
    BY CachedTyped
  <2> QED
    BY <2>2, <2>3, <2>4, RaiseTyped
<1>13. CASE StepAssert(s)
  <2>1. test_status' \in BOOLEAN
    BY <1>13 DEF StepAssert
  <2> QED
    BY <1>13, <2>1 DEF StepAssert, TestTypeOK, hart, units
<1>14. CASE TestEnd(s)
  BY <1>14, ResetStateTyped, LoseTyped DEF TestEnd, TestTypeOK, Fields
<1>15. CASE StepEnable(s)
  <2>1. enables' \in SUBSET Enables
    BY <1>0, <1>15, Operands DEF StepEnable, TestTypeOK
  <2> QED
    BY <1>15, <2>1 DEF StepEnable, TestTypeOK, Advance, units
<1>16. CASE StepInsn(s)
  <2>1. CASE Advance /\ UNCHANGED <<hart, tables, excpt>>
    BY <2>1 DEF TestTypeOK, Advance, hart, units
  <2>2. CASE s.insn \in {"ebreak", "ecall"} /\ Raise(TrapOf[s.insn], TRUE, tlb)
    <3>1. TrapOf[s.insn] \in Causes \union {"ecall"}
      BY <2>2 DEF TrapOf, Causes
    <3>2. tlb \in SUBSET Entries
      BY DEF TestTypeOK
    <3> QED
      BY <2>2, <3>1, <3>2, RaiseTyped
  <2> QED
    BY <1>16, <2>1, <2>2 DEF StepInsn
<1>17. CASE StepReset(s)
  <2>1. CASE reset_state /\ Advance
    BY <2>1, ResetStateTyped DEF TestTypeOK, Advance, Fields
  <2> QED
    BY <1>17, <2>1, LoseTyped DEF StepReset
<1> QED
  BY <1>1, <1>2, <1>3, <1>4, <1>5, <1>6, <1>7, <1>8, <1>9, <1>10, <1>11, <1>12, <1>13,
     <1>14, <1>15, <1>16, <1>17 DEF Take

LEMMA NextTyped == TestTypeOK /\ [Next]_vars => TestTypeOK'
<1> SUFFICES ASSUME TestTypeOK, [Next]_vars PROVE TestTypeOK'
  OBVIOUS
<1>1. CASE \E s \in Upcoming : Take(s)
  BY <1>1, TakeTyped
<1>2. CASE TestFallsOff
  BY <1>2 DEF TestFallsOff, TestTypeOK, hart, units
<1>3. CASE main
  <2>1. CASE CanReset
    <3>1. test' \in DOMAIN Scripts \union {NoTest} /\ pc' \in Nat \ {0} /\ status' \in {"run", "lost"}
      BY <1>3, <2>1 DEF main, TestTypeOK, test_table
    <3>2. ran' \in 0..MaxTests
      BY <1>3, <2>1, MaxTestsAssumption DEF main, TestTypeOK
    <3>3. test_status' \in BOOLEAN /\ clean' \in BOOLEAN /\ reset_state
      BY <1>3, <2>1 DEF main, Untouched
    <3> QED
      BY <3>1, <3>2, <3>3, ResetStateTyped DEF TestTypeOK, Fields
  <2> QED
    BY <1>3, <2>1, LoseTyped DEF main
<1>4. CASE Stopped \/ UNCHANGED vars
  BY <1>4 DEF Stopped, vars, units, TestTypeOK
<1> QED
  BY <1>1, <1>2, <1>3, <1>4 DEF Next

\* Whatever the tests, the variables keep to their types.
THEOREM TestTypeCorrect == Spec => []TestTypeOK
<1>1. Init => TestTypeOK
  BY InitTyped
<1>2. TestTypeOK /\ [Next]_vars => TestTypeOK'
  BY NextTyped
<1> QED
  BY <1>1, <1>2, PTL DEF Spec

(***************************************************************************)
(* reset_state opens memory.                                               *)
(***************************************************************************)
LEMMA InitOpens == Init => ResetOpensMemory
BY DEF Init, ResetOpensMemory

\* Only main starts a test, and it resets the machine when it does.
LEMMA NextOpens == TestTypeOK /\ ResetOpensMemory /\ [Next]_vars => ResetOpensMemory'
<1> SUFFICES ASSUME TestTypeOK, ResetOpensMemory, [Next]_vars PROVE ResetOpensMemory'
  OBVIOUS
<1>1. pc \in Nat /\ pc > 0
  BY DEF TestTypeOK
<1>2. CASE Lose
  BY <1>2 DEF Lose, ResetOpensMemory
<1>3. CASE pc' = pc + 1
  BY <1>1, <1>3 DEF ResetOpensMemory
<1>4. CASE test' = NoTest
  BY <1>4 DEF ResetOpensMemory
<1>5. CASE UNCHANGED vars
  <2>1. UNCHANGED <<test, pc, status, pmp>>
    BY <1>5 DEF vars, units
  <2> QED
    BY <2>1 DEF ResetOpensMemory, Pinned, Permits, Deciding, Covers, Base
<1>6. CASE main
  <2>1. CASE pmp' = ResetPmp(pmp)
    <3>1. pmp \in PmpUnits
      BY DEF TestTypeOK
    <3> SUFFICES ASSUME ~Pinned(pmp', 0), NEW m \in PmpModes, NEW a \in 0..(Top - 1)
                 PROVE  Permits(pmp', m, Perms, a)
      BY DEF ResetOpensMemory
    <3> QED
      BY <2>1, <3>1, ResetOpensUnit
  <2> QED
    BY <1>2, <1>6, <2>1 DEF main, reset_state
<1>7. Lose \/ pc' = pc + 1 \/ test' = NoTest \/ UNCHANGED vars \/ main
  <2>1. ASSUME NEW s \in Upcoming, Take(s)
        PROVE  Lose \/ pc' = pc + 1 \/ test' = NoTest
    BY <2>1 DEF Take, StepGoto, StepIllegal, StepUnit, StepMstatus, StepDelegate, StepEnable,
                StepInsn, StepReset, StepHsptInit,
                StepTables, StepFence, StepSetup, StepAccess, StepFault, StepAssert, TestEnd,
                Raise, Record, Advance
  <2> QED
    BY <2>1 DEF Next, TestFallsOff, Stopped
<1> QED
  BY <1>2, <1>3, <1>4, <1>5, <1>6, <1>7

\* At the start of every test all of memory is open to every mode, unless an
\* earlier test has locked what reset_state writes.
THEOREM ResetOpens == Spec => []ResetOpensMemory
<1>1. Init => TestTypeOK /\ ResetOpensMemory
  BY InitTyped, InitOpens
<1>2. TestTypeOK /\ ResetOpensMemory /\ [Next]_vars => TestTypeOK' /\ ResetOpensMemory'
  BY NextTyped, NextOpens
<1> QED
  BY <1>1, <1>2, PTL DEF Spec
===============================================================================
