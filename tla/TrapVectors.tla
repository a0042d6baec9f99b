----------------------------- MODULE TrapVectors -----------------------------
(***************************************************************************)
(* Traps inside traps: the entry stubs of handlers.S and the vector tables *)
(* of xtvec_test_asm.S, the C entries of xtvec_test.c, which raise a       *)
(* second trap themselves, and the return through mret, sret or mnret, on  *)
(* a hart with Smrnmi and Smdbltrp, with or without Ssdbltrp and H.        *)
(***************************************************************************)
EXTENDS Integers, Sequences, FiniteSets

CONSTANTS
  Scripts,    \* the steps of every test, a function of its name
  NoTest,     \* between two tests
  MaxTests    \* bound: the tests of one program

Levels == {"HU", "HS", "M"}
Ints   == {"SSI", "SEI"}
Bits   == {"MIE", "SIE", "MDT", "SDT"}

Asserted == {"triggered", "SIE clear", "SIE is 1", "armed"}

Steps ==
  [op : {"goto", "arrive"}, to : Levels]
    \union [op : {"mstatus"}, bits : SUBSET Bits]
    \union [op : {"nodeleg"}, bits : SUBSET Ints]
    \union [op : {"enable", "pend", "spend", "deleg"}, int : Ints]
    \union [op : {"mtvec", "stvec"}, vectored : BOOLEAN]
    \union [op : {"arm"}, trap : Int, double : BOOLEAN]
    \union [op : {"medeleg", "hcsr", "announce", "illegal", "reset"}]
    \union [op : {"assert"}, of : Asserted]

ASSUME TrapVectorsAssumption ==
  /\ NoTest \notin DOMAIN Scripts /\ MaxTests \in Nat
  /\ \A t \in DOMAIN Scripts : Scripts[t] \in Seq(Steps)

SetsMDT(t) == \E s \in {Scripts[t][i] : i \in DOMAIN Scripts[t]} : s.op = "mstatus" /\ "MDT" \in s.bits
CanTrap(s) == s.op \in {"illegal", "hcsr", "pend", "spend"} \/ (s.op = "goto" /\ s.to # "M")

\* main resets behind every test; and a test that sets MDT has put its table in mtvec
\* before it makes a trap: the stubs of handlers.S would not return from an RNMI.
ASSUME ScriptsAssumption ==
  \A t \in DOMAIN Scripts :
    /\ Scripts[t] # <<>> /\ Scripts[t][Len(Scripts[t])].op = "reset"
    /\ SetsMDT(t) =>
         \A j \in DOMAIN Scripts[t] :
           CanTrap(Scripts[t][j]) => \E i \in 1 .. (j - 1) : Scripts[t][i].op = "mtvec"

\* A test goes to M, where it is, and from there down once at most; only reset_state goes
\* up.  Behind each goto is the assignment it ends with.
ASSUME GotoAssumption ==
  \A t \in DOMAIN Scripts :
    LET gotos == {i \in DOMAIN Scripts[t] : Scripts[t][i].op = "goto"}
    IN  /\ \A i \in gotos :
             i + 1 \in DOMAIN Scripts[t] /\ Scripts[t][i + 1] = [Scripts[t][i] EXCEPT !.op = "arrive"]
        /\ \A i, j \in gotos : i < j => Scripts[t][i].to = "M"

VARIABLES
  dte, hyp,                        \* the hart traps twice into S (Ssdbltrp), and has H
  test, k, ran,                    \* the running test, its next instruction, how many so far
  curr_priv, real_priv, mode,      \* the harness' levels, and the hart's "U", "S" or "M"
  vec,                             \* mtvec and stvec
  mstatus, nmie, mie, mip, deleg,  \* deleg: the bits of mideleg and medeleg
  epc, cause,                      \* mepc, sepc and mnepc, mcause and scause
  testing, triggered,              \* of excpt
  trap, double_trap_enabled,
  regs, frames,                    \* the registers, and a record for each trap being handled
  status, failed                   \* "run" or how it ended, and the tests with a failed assertion

hart  == <<dte, hyp, vec, deleg>>
flow  == <<test, k, ran>>
privs == <<curr_priv, real_priv>>
vars  == <<hart, flow, privs, mode, mstatus, nmie, mie, mip, epc, cause, testing, triggered,
           trap, double_trap_enabled, regs, frames, status, failed>>

ModeOf(l) == CASE l = "M" -> "M" [] l = "HS" -> "S" [] l = "HU" -> "U"
Depth     == Len(frames)
Top       == frames[Depth]

\* Where a trap comes from: the test is at depth 0, two instructions to a step, the
\* first of which is the ecall of reset_state's goto_priv.  A frame counts its Phases.
Here    == [d |-> Depth, k |-> IF Depth = 0 THEN k ELSE Top.phase]
Nowhere == [d |-> -1, k |-> 0]    \* the zero reset_state writes
Garbage == [d |-> -2, k |-> 0]    \* the address that trap = 9 makes of mepc

\* Behind the last step or phase there is other code.
next_instruction(p) ==
  LET next == [p EXCEPT !.k = IF p.d = 0 /\ p.k % 2 = 0 THEN @ + 2 ELSE @ + 1]
      last == IF p.d > 0 THEN 9 ELSE IF test = NoTest THEN 0 ELSE 2 * Len(Scripts[test])
  IN  IF p.d < 0 THEN p ELSE IF next.k > last THEN Garbage ELSE next

-----------------------------------------------------------------------------
(***************************************************************************)
(* The stubs.  x2 is sp, counted in words.                                 *)
(***************************************************************************)
Regs  == 1..31
Saved == Regs \ {2}
Words == 31

\* Seeded bug: x9 goes to the word of x8.
BadSlot(r, table) == IF r = 9 THEN 7 ELSE IF table /\ r = 31 THEN 29 ELSE r - 1

\* SAVE_CONTEXT: the word x_r is stored to.  The table's copy has x31 in x30's.
Slot(r, table) == IF table /\ r = 31 THEN 29 ELSE r - 1

\* The last store to a word stays; a word without one has what was there before.
SAVE_CONTEXT(table) ==
  [w \in 0 .. Words - 1 |->
     LET to == {r \in Saved : Slot(r, table) = w}
     IN  IF to = {} THEN <<-1, w>> ELSE regs[CHOOSE r \in to : \A s \in to : s <= r]]

\* Seeded bug: a word more than SAVE_CONTEXT took.
BadRESTORE_CONTEXT(words, sp) == [r \in Regs |-> IF r = 2 THEN sp + Words + 1 ELSE words[r - 1]]

RESTORE_CONTEXT(words, sp) == [r \in Regs |-> IF r = 2 THEN sp + Words ELSE words[r - 1]]

\* The C code behind a stub may use every register, and its stack below sp.
CFrame == 2
InC    == [r \in Regs |-> IF r = 2 THEN regs[2] - Words - CFrame ELSE <<Depth + 1, r>>]

\* A table is nine jumps, compressed to two bytes each, and the first stub behind them.
Jump      == 2
Entries   == 9
Number(c) == CASE c = "SSI" -> 1 [] c = "SEI" -> 9 [] OTHER -> 0
Offset(tvec, c) == IF tvec.vectored THEN 4 * Number(c) ELSE 0
Entry(tvec, c)  == Offset(tvec, c) \div Jump

\* The phases of a frame; a stub of handlers.S goes to its handler at once.
Enter    == 1    \* the C entry of the table
Act      == 2    \* what it does by trap
Announce == 3    \* its TEST_SETUP_EXCEPT
Handle   == 4    \* mhandler or hshandler
ReadH    == 5    \* return_from_exception, before it reads hstatus
WriteH   == 6    \* before it writes it
Read     == 7    \* before it reads mnstatus
Advance  == 8    \* and before it writes the xepc
Leave    == 9    \* RESTORE_CONTEXT and the return

Stop(how) ==
  /\ status' = how
  /\ UNCHANGED <<hart, flow, privs, mode, mstatus, nmie, mie, mip, epc, cause, testing, triggered,
                 trap, double_trap_enabled, regs, frames, failed>>

\* The stub's SAVE_CONTEXT and call
Push(level, nmi, c) ==
  LET tvec  == IF level = "M" THEN vec.m ELSE vec.s
      entry == IF nmi THEN 0 ELSE Entry(tvec, c)
  IN  IF tvec.table /\ entry >= Entries THEN status' = "astray" /\ UNCHANGED <<frames, regs>>
      ELSE /\ frames' = Append(frames,
                [level |-> level, table |-> tvec.table, entry |-> entry, nmi |-> nmi,
                 phase |-> IF tvec.table THEN Enter ELSE Handle, act |-> 0,
                 why |-> c, epc |-> Nowhere, cause |-> c, double |-> FALSE,
                 words |-> SAVE_CONTEXT(tvec.table), regs |-> regs])
           /\ regs' = InC
           /\ UNCHANGED status

(***************************************************************************)
(* A trap: to HS where it is delegated, unless S is already in a trap; to  *)
(* the RNMI handler, the table as well, where M is.                        *)
(***************************************************************************)
Delegates(c) == c \in deleg /\ mode # "M"
ToHS(c)      == Delegates(c) /\ ~("SDT" \in mstatus /\ mode = "S")

TrapTo(c, from) ==
  \/ /\ ToHS(c)
     /\ Push("HS", FALSE, c)
     /\ epc' = [epc EXCEPT !.s = from] /\ cause' = [cause EXCEPT !.s = c]
     /\ mode' = "S"
     /\ mstatus' = (mstatus \ {"SIE"}) \union IF dte THEN {"SDT"} ELSE {}
     /\ UNCHANGED nmie
  \/ /\ ~ToHS(c) /\ "MDT" \notin mstatus
     /\ Push("M", FALSE, IF Delegates(c) THEN "DT" ELSE c)
     /\ epc' = [epc EXCEPT !.m = from]
     /\ cause' = [cause EXCEPT !.m = IF Delegates(c) THEN "DT" ELSE c]
     /\ mode' = "M"
     /\ mstatus' = (mstatus \ {"MIE"}) \union {"MDT"}
     /\ UNCHANGED nmie
  \/ /\ ~ToHS(c) /\ "MDT" \in mstatus /\ nmie
     /\ Push("M", TRUE, c)
     /\ epc' = [epc EXCEPT !.n = from]
     /\ mode' = "M" /\ nmie' = FALSE
     /\ UNCHANGED <<cause, mstatus>>
  \/ /\ ~ToHS(c) /\ "MDT" \in mstatus /\ ~nmie
     /\ status' = "critical"
     /\ UNCHANGED <<frames, regs, epc, cause, mode, mstatus, nmie>>

Raise(c, from) ==
  /\ TrapTo(c, from)
  /\ UNCHANGED <<hart, flow, privs, mie, mip, testing, triggered, failed>>

ToM == {i \in (mip \intersect mie) \ deleg : mode # "M" \/ "MIE" \in mstatus}
ToS == {i \in mip \intersect mie \intersect deleg : mode = "U" \/ (mode = "S" /\ "SIE" \in mstatus)}
Taken == IF nmie THEN (IF ToM # {} THEN ToM ELSE ToS) ELSE {}

Interrupt ==
  /\ status = "run"
  /\ \E i \in Taken : Raise(i, Here)
  /\ UNCHANGED <<trap, double_trap_enabled>>

-----------------------------------------------------------------------------
(***************************************************************************)
(* The C code of a frame.                                                  *)
(***************************************************************************)
InPhase(p) == status = "run" /\ Taken = {} /\ Depth > 0 /\ Top.phase = p

\* The frame on top goes on, as top, at its next phase.
Proceed(top) == frames' = [frames EXCEPT ![Depth] = [top EXCEPT !.phase = @ + 1]]

\* MIE is held clear while MDT is set, SIE while SDT is.
Legal(ms) == ms \ ((IF "MDT" \in ms THEN {"MIE"} ELSE {}) \union (IF "SDT" \in ms THEN {"SIE"} ELSE {}))

\* What the C code leaves alone wherever it is
bound == <<hart, flow, mode, nmie, status, failed>>

\* The entry for exceptions announces first, and clears trap whatever it was; the
\* numbered ones know 1, in M, and 2.
Knows ==
  IF Top.entry = 0 THEN (IF Top.level = "M" THEN {1, 2, 4, 5, 9} ELSE {1, 2, 4})
  ELSE IF Top.level = "M" THEN {1, 2} ELSE {2}

test_entry_two ==
  /\ InPhase(Enter)
  /\ Proceed([Top EXCEPT !.act = trap])
  /\ IF Top.entry = 0 /\ Top.level = "M" THEN testing' = TRUE /\ triggered' = FALSE
     ELSE UNCHANGED <<testing, triggered>>
  /\ trap' = IF trap \in Knows THEN 0 ELSE trap
  /\ UNCHANGED <<bound, privs, mstatus, mie, mip, epc, cause, double_trap_enabled, regs>>

\* trap = 1: an interrupt; sie and sip show the delegated ones only
RaisesInterrupt ==
  /\ InPhase(Act) /\ Top.act = 1 /\ (Top.level = "M" \/ Top.entry = 0)
  /\ Proceed(Top)
  /\ LET seen == IF Top.level = "M" THEN {"SSI"} ELSE {"SSI"} \intersect deleg
     IN  mie' = mie \union seen /\ mip' = mip \union seen
  /\ mstatus' = Legal(IF Top.level = "M" THEN mstatus \union {"MIE"}
                      ELSE (mstatus \ {"SDT"}) \union {"SIE"})
  /\ UNCHANGED <<bound, privs, epc, cause, testing, triggered, trap, double_trap_enabled, regs>>

\* trap = 2: an illegal instruction; so is the mcause that the numbered HS entry prints
RaisesException ==
  /\ InPhase(Act) /\ (Top.act = 2 \/ (Top.act = 1 /\ Top.level = "HS" /\ Top.entry # 0))
  /\ Raise("ILI", Here)
  /\ UNCHANGED <<trap, double_trap_enabled>>

\* trap = 4 looks for the bit of the trap, 5 ends it for S, 9 ruins mepc
RaisesNothing ==
  /\ InPhase(Act) /\ Top.act \notin {1, 2}
  /\ Proceed(Top)
  /\ LET known == Top.act \in {4, 5, 9} /\ (Top.entry = 0 /\ (Top.level = "M" \/ Top.act = 4))
         bit   == IF Top.level = "M" THEN "MDT" ELSE "SDT"
     IN  /\ trap' = IF known /\ Top.act = 4 /\ bit \in mstatus THEN -1 ELSE trap
         /\ mstatus' = IF known /\ Top.act = 5 THEN Legal((mstatus \ {"SDT"}) \union {"SIE"}) ELSE mstatus
         /\ epc' = IF known /\ Top.act = 9 THEN [epc EXCEPT !.m = Garbage] ELSE epc
  /\ UNCHANGED <<bound, privs, mie, mip, cause, testing, triggered, double_trap_enabled, regs>>

AnnounceAgain ==
  /\ InPhase(Announce)
  /\ Proceed(Top)
  /\ testing' = TRUE /\ triggered' = FALSE
  /\ UNCHANGED <<bound, privs, mstatus, mie, mip, epc, cause, trap, double_trap_enabled, regs>>

Ecalls == {"ECU", "ECS"}

\* mhandler or hshandler up to return_from_exception; it reads the trap CSRs of its
\* level, also where an RNMI has left those of the trap before in them.  An ecall asks
\* for the level it goes to: of HU for HS, since reset_state's goes by way of HS, else M.
handler ==
  /\ InPhase(Handle)
  /\ LET c == IF Top.level = "M" THEN cause.m ELSE cause.s
     IN  IF c \notin Ecalls /\ ~testing THEN Stop("error")
         ELSE /\ Proceed([Top EXCEPT !.cause = c, !.epc = IF Top.level = "M" THEN epc.m ELSE epc.s,
                                  !.double = double_trap_enabled])
              /\ double_trap_enabled' = FALSE
              /\ curr_priv' = IF c \in Ecalls THEN Top.level ELSE curr_priv
              /\ real_priv' = curr_priv'
              /\ testing' = FALSE /\ triggered' = TRUE
              /\ mip' = mip \ ({c} \intersect IF Top.level = "M" THEN Ints ELSE {"SSI"} \intersect deleg)
              /\ UNCHANGED <<bound, mstatus, mie, epc, cause, trap, regs>>

\* With double_trap_enabled return_from_exception reads mnstatus, in HS mode as well,
\* where it has read and written hstatus before.
ReadNmie ==
  /\ \E p \in {ReadH, WriteH, Read} :
       /\ InPhase(p)
       /\ IF Top.level = "HS" /\ Top.double /\ (p = Read \/ ~hyp) THEN Raise("ILI", Here)
          ELSE Proceed(Top)
               /\ UNCHANGED <<bound, privs, mstatus, mie, mip, epc, cause, testing, triggered, regs>>
  /\ UNCHANGED <<trap, double_trap_enabled>>

Own_epc ==
  IF Top.cause \in Ints THEN epc
  ELSE IF Top.level = "M" THEN [epc EXCEPT !.m = next_instruction(Top.epc)]
  ELSE [epc EXCEPT !.s = next_instruction(Top.epc)]

\* Seeded bug: mnepc stays.
BadNext_epc == IF Top.double /\ ~nmie THEN epc ELSE Own_epc

\* The xepc return_from_exception advances
Next_epc ==
  IF Top.double /\ ~nmie THEN IF Top.why \in Ints THEN epc ELSE [epc EXCEPT !.n = next_instruction(@)]
  ELSE Own_epc

\* next_instruction reads the instruction at epc, which may not be memory.  hshandler,
\* if it has read mnstatus, goes on with what the register happens to hold.
AdvanceEpc ==
  /\ InPhase(Advance)
  /\ \/ /\ Proceed(Top)
        /\ epc' = Next_epc
        /\ UNCHANGED <<bound, privs, mstatus, mie, mip, cause, testing, triggered, trap,
                       double_trap_enabled, regs>>
     \/ /\ Top.epc.d < 0 /\ Top.cause \notin Ints /\ ~(Top.double /\ ~nmie)
        /\ Stop("critical")
     \/ /\ Top.level = "HS" /\ Top.double
        /\ Stop("astray")

\* mret and mnret leave MIE clear: mstatus.MPIE is.
Return ==
  /\ InPhase(Leave)
  /\ LET mnret == Top.table /\ Top.level = "M" /\ ~nmie
         to    == IF mnret THEN epc.n ELSE IF Top.level = "M" THEN epc.m ELSE epc.s
         into  == IF mnret THEN "M" ELSE IF Top.level = "M" THEN ModeOf(curr_priv)
                  ELSE IF curr_priv = "HS" THEN "S" ELSE "U"
         below == SubSeq(frames, 1, Depth - 1)
     IN  IF to.d # Depth - 1 \/ (Depth > 1 /\ into # ModeOf(frames[Depth - 1].level))
         THEN Stop(IF to = Garbage THEN "error" ELSE "astray")
         ELSE /\ mode' = into
              /\ nmie' = (nmie \/ mnret)
              /\ mstatus' = mstatus \ CASE mnret -> {}
                                        [] ~mnret /\ Top.level = "M" -> {"MIE", "MDT"} \union IF into = "U" THEN {"SDT"} ELSE {}
                                        [] Top.level = "HS" -> {"SIE", "SDT"}
              /\ regs' = RESTORE_CONTEXT(Top.words, regs[2] + CFrame)
              /\ frames' = IF Depth = 1 THEN below ELSE [below EXCEPT ![Depth - 1].phase = to.k]
              /\ k' = IF Depth = 1 THEN to.k ELSE k
              /\ UNCHANGED <<hart, test, ran, privs, mie, mip, epc, cause, testing, triggered, trap,
                             double_trap_enabled, status, failed>>

-----------------------------------------------------------------------------
(***************************************************************************)
(* The steps of a test.                                                    *)
(***************************************************************************)
Upcoming ==
  IF status = "run" /\ Taken = {} /\ Depth = 0 /\ test # NoTest THEN {Scripts[test][(k + 1) \div 2]} ELSE {}

MoveOn == k' = k + 2 /\ UNCHANGED <<dte, hyp, test, ran, nmie, regs, frames, status>>

\* The step of a test leaves these alone, but for a goto.
level == <<privs, mode, cause>>

\* Seeded bug: real_priv is forgotten.
Badlower_priv(priv) ==
  /\ curr_priv = "M" /\ mode = "M"
  /\ UNCHANGED real_priv
  /\ epc' = [epc EXCEPT !.m = next_instruction(Here)]
  /\ mode' = ModeOf(priv)
  /\ mstatus' = mstatus \ ({"MIE", "MDT"} \union IF priv = "HU" THEN {"SDT"} ELSE {})

\* lower_priv up to its mret
lower_priv(priv) ==
  /\ curr_priv = "M" /\ mode = "M"
  /\ real_priv' = priv
  /\ epc' = [epc EXCEPT !.m = next_instruction(Here)]
  /\ mode' = ModeOf(priv)
  /\ mstatus' = mstatus \ ({"MIE", "MDT"} \union IF priv = "HU" THEN {"SDT"} ELSE {})

\* goto_priv: there already, or down by lower_priv; and up, by one ecall after the other,
\* in the call that reset_state begins with
goto_priv(s) ==
  /\ \/ /\ s.op = "goto"
        /\ IF s.to = real_priv THEN UNCHANGED <<real_priv, epc, mode, mstatus>> ELSE lower_priv(s.to)
        /\ MoveOn
        /\ UNCHANGED <<curr_priv, vec, deleg, cause, mie, mip, testing, triggered, failed>>
     \/ /\ s.op = "reset" /\ real_priv # "M" /\ curr_priv # "M"
        /\ Raise(IF mode = "U" THEN "ECU" ELSE "ECS", [d |-> 0, k |-> 2 * ((k + 1) \div 2) - 1])
  /\ UNCHANGED <<trap, double_trap_enabled>>

\* The assignment goto_priv ends with, behind the mret of lower_priv or without it.  An
\* interrupt may come before it.
Arrive(s) ==
  /\ s.op = "arrive"
  /\ curr_priv' = s.to
  /\ MoveOn
  /\ UNCHANGED <<real_priv, vec, deleg, mode, cause, mstatus, mie, mip, epc, testing, triggered, trap,
                 double_trap_enabled, failed>>

\* What traps: an instruction of no mode, a CSR of a mode above, and one of H without it
MCsrs == {"mstatus", "enable", "pend", "deleg", "nodeleg", "medeleg", "mtvec"}
SCsrs == {"spend", "stvec", "hcsr"}
Forbidden ==
  {"illegal"} \union (IF mode = "M" THEN {} ELSE MCsrs) \union (IF mode = "U" THEN SCsrs ELSE {})
    \union (IF hyp THEN {} ELSE {"hcsr"})

Illegal(s) ==
  /\ s.op \in Forbidden
  /\ Raise("ILI", Here)
  /\ UNCHANGED <<trap, double_trap_enabled>>

\* CSRS, CSRC and CSRW; the bits of hideleg and hedeleg that are written are read-only
WriteCsr(s) ==
  /\ s.op \in (MCsrs \union SCsrs) \ Forbidden
  /\ mstatus' = IF s.op = "mstatus" THEN Legal(mstatus \union (s.bits \ IF dte THEN {} ELSE {"SDT"})) ELSE mstatus
  /\ mie' = IF s.op = "enable" THEN mie \union {s.int} ELSE mie
  /\ mip' = CASE s.op = "pend"  -> mip \union {s.int}
              [] s.op = "spend" -> mip \union ({s.int} \intersect deleg)
              [] OTHER          -> mip
  /\ deleg' = CASE s.op = "deleg"   -> deleg \union {s.int}
                [] s.op = "nodeleg" -> deleg \ s.bits
                [] s.op = "medeleg" -> deleg \union {"ILI"}
                [] OTHER            -> deleg
  /\ vec' = CASE s.op = "mtvec" -> [vec EXCEPT !.m = [table |-> TRUE, vectored |-> s.vectored]]
              [] s.op = "stvec" -> [vec EXCEPT !.s = [table |-> TRUE, vectored |-> s.vectored]]
              [] OTHER          -> vec
  /\ MoveOn
  /\ UNCHANGED <<level, epc, testing, triggered, trap, double_trap_enabled, failed>>

\* TEST_SETUP_EXCEPT, and the assignments to trap and double_trap_enabled
Prepare(s) ==
  /\ s.op \in {"announce", "arm"}
  /\ IF s.op = "announce" THEN testing' = TRUE /\ triggered' = FALSE ELSE UNCHANGED <<testing, triggered>>
  /\ trap' = IF s.op = "arm" THEN s.trap ELSE trap
  /\ double_trap_enabled' = (double_trap_enabled \/ (s.op = "arm" /\ s.double))
  /\ MoveOn
  /\ UNCHANGED <<vec, deleg, level, mstatus, mie, mip, epc, failed>>

Holds(of) ==
  CASE of = "triggered" -> triggered
    [] of = "SIE clear" -> "SIE" \notin mstatus
    [] of = "SIE is 1"  -> FALSE    \* SIE is bit 1, which is 2
    [] of = "armed"     -> trap = -1 /\ "SDT" \notin mstatus

TestAssert(s) ==
  /\ s.op = "assert"
  /\ failed' = (failed \/ ~Holds(s.of))
  /\ MoveOn
  /\ UNCHANGED <<vec, deleg, level, mstatus, mie, mip, epc, testing, triggered, trap, double_trap_enabled>>

DirectVec == [m |-> [table |-> FALSE, vectored |-> FALSE], s |-> [table |-> FALSE, vectored |-> FALSE]]

\* What reset_state writes in M, after its goto_priv M.  It knows nothing of trap and
\* double_trap_enabled.
reset_state(s) ==
  /\ s.op = "reset" /\ real_priv = "M"
  /\ IF mode # "M" THEN Stop("astray")
     ELSE /\ curr_priv' = "M"
          /\ mstatus' = {} /\ mie' = {} /\ mip' = {} /\ deleg' = {"ECU"} /\ vec' = DirectVec
          /\ epc' = [epc EXCEPT !.m = Nowhere, !.s = Nowhere]
          /\ cause' = [cause EXCEPT !.s = "none"]
          /\ test' = NoTest /\ k' = 2 /\ failed' = FALSE
          /\ regs' = [r \in Regs |-> IF r = 2 THEN regs[2] ELSE <<0, r>>]
          /\ UNCHANGED <<dte, hyp, ran, real_priv, mode, nmie, testing, triggered, trap,
                         double_trap_enabled, frames, status>>

Take(s) ==
  goto_priv(s) \/ Arrive(s) \/ Illegal(s) \/ WriteCsr(s) \/ Prepare(s) \/ TestAssert(s) \/ reset_state(s)

\* One round of main's loop
main ==
  /\ status = "run" /\ test = NoTest /\ ran < MaxTests
  /\ test' \in DOMAIN Scripts /\ ran' = ran + 1
  /\ UNCHANGED <<hart, k, privs, mode, mstatus, nmie, mie, mip, epc, cause, testing, triggered, trap,
                 double_trap_enabled, regs, frames, status, failed>>

Init ==
  /\ dte \in BOOLEAN /\ hyp \in BOOLEAN
  /\ test = NoTest /\ k = 2 /\ ran = 0
  /\ curr_priv = "M" /\ real_priv = "M" /\ mode = "M" /\ vec = DirectVec
  /\ mstatus = {} /\ nmie = TRUE /\ mie = {} /\ mip = {} /\ deleg = {"ECU"}
  /\ epc = [m |-> Nowhere, s |-> Nowhere, n |-> Nowhere] /\ cause = [m |-> "none", s |-> "none"]
  /\ testing = FALSE /\ triggered = FALSE /\ trap = 0 /\ double_trap_enabled = FALSE
  /\ regs = [r \in Regs |-> IF r = 2 THEN 0 ELSE <<0, r>>] /\ frames = <<>>
  /\ status = "run" /\ failed = FALSE

InHandler ==
  test_entry_two \/ RaisesInterrupt \/ RaisesException \/ RaisesNothing \/ AnnounceAgain \/ handler
    \/ ReadNmie \/ AdvanceEpc \/ Return

Next == Interrupt \/ InHandler \/ (\E s \in Upcoming : Take(s)) \/ main

\* One hart, which executes.
Spec == Init /\ [][Next]_vars /\ WF_vars(Next)

-----------------------------------------------------------------------------
(***************************************************************************)
(* Properties.                                                             *)
(***************************************************************************)
\* Types; and as long as nothing has gone astray, the C code of a handler is in its mode,
\* and the stack holds what the traps being handled have taken.
TypeOK ==
  /\ test = NoTest \/ test \in DOMAIN Scripts
  /\ curr_priv \in Levels /\ real_priv \in Levels /\ mode \in {"U", "S", "M"}
  /\ mstatus \subseteq Bits /\ mstatus = Legal(mstatus) /\ (~dte => "SDT" \notin mstatus)
  /\ mie \subseteq Ints /\ mip \subseteq Ints /\ deleg \subseteq Ints \union {"ECU", "ILI"}
  /\ status \in {"run", "error", "astray", "critical"}
  /\ status = "run" /\ Depth > 0 => mode = ModeOf(Top.level)
  /\ status = "run" => regs[2] = -(Words + CFrame) * Depth

\* The code of a test runs in the mode real_priv names, which is that of curr_priv but
\* between the mret of lower_priv and the assignment behind it.  Only m_double_trap_14
\* has an interrupt there, which its handler leaves to M: the rest of that test runs in M,
\* with HS in curr_priv, up to the goto_priv of reset_state.
KnowsItsLevel ==
  status = "run" /\ Depth = 0 /\ test # NoTest =>
    /\ mode = ModeOf(real_priv)
    /\ curr_priv = real_priv \/ test = "m_double_trap_14" \/ Scripts[test][(k + 1) \div 2].op = "arrive"

\* The registers of what a trap interrupted come back with its return, whichever traps
\* came while it was handled: all of them through the stubs of handlers.S, all but x30
\* and x31 through a table.
ContextComesBack ==
  [][Len(frames') < Depth =>
       \A r \in Regs \ (IF Top.table THEN {30, 31} ELSE {}) : regs'[r] = Top.regs[r]]_vars

\* What the names SAVE_CONTEXT and RESTORE_CONTEXT say of both files
AllRegistersComeBack == [][Len(frames') < Depth => regs' = Top.regs]_vars

\* The tests that may not get to their end: the double trap is not announced by
\* double_trap_enabled, so that mnret goes back to the instruction that made it; the
\* interrupt lands inside the first stub; mepc is ruined; hshandler reads mnstatus; and
\* mhandler returns to U although it was hshandler that was interrupted.  Without H the
\* CSRs of it that a test writes before it has announced a trap.
MayNotComeBack ==
  {"mnret_test_2", "smrnmi_test_2", "rnnmi_handler", "m_double_trap_13", "m_double_trap_17",
   "s_double_trap_6"}
    \union {"m_double_trap_10", "mtvec_test_6", "s_double_trap_13", "s_double_trap_14", "s_double_trap_16"}
    \union IF hyp THEN {} ELSE {"s_double_trap_12"}

\* Every other test gets to its end through all the traps it makes, whichever ran
\* before it, and leaves no second trap armed for the next.
TestsComeBack ==
  test \notin MayNotComeBack \union {NoTest} ~> test = NoTest /\ trap = 0 /\ ~double_trap_enabled
=============================================================================
