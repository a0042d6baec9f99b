--------------------------- MODULE TrapVectorsProofs ---------------------------
(***************************************************************************)
(* Proofs, for every set of tests and however deep traps nest: a trap      *)
(* gives back the registers it took, but for x30 and x31 behind a vector   *)
(* table; at most an RNMI comes on top of an M handler, and each handler   *)
(* runs in its mode; types.                                                *)
(***************************************************************************)
EXTENDS TrapVectors, TLAPS

\* The registers that come back from the words of a stub
Kept(table) == Regs \ (IF table THEN {30, 31} ELSE {})

Saves(words, table, rs) == \A r \in Kept(table) \ {2} : words[r - 1] = rs[r]

\* A frame has saved the registers it interrupted, with the stack pointer that n frames
\* under it leave.
Sound(f, n) ==
  /\ {"table", "words", "regs", "phase"} \subseteq DOMAIN f
  /\ Saves(f.words, f.table, f.regs)
  /\ f.regs[2] = 0 - (Words + CFrame) * n

\* This holds of the stack also where the program has ended.
StackInv ==
  /\ \E S : frames \in Seq(S)
  /\ \A i \in 1 .. Depth : Sound(frames[i], i - 1)
  /\ regs[2] = 0 - (Words + CFrame) * Depth

\* Every register but sp is stored to a word of its own, but for x31 of the table.
LEMMA Stored ==
  ASSUME NEW table \in BOOLEAN
  PROVE  Saves(SAVE_CONTEXT(table), table, regs)
<1> SUFFICES ASSUME NEW r \in Kept(table) \ {2} PROVE SAVE_CONTEXT(table)[r - 1] = regs[r]
  BY DEF Saves
<1> DEFINE to == {q \in Saved : Slot(q, table) = r - 1}
<1>1. r \in 1..31 /\ r # 2 /\ (table => r \notin {30, 31})
  BY DEF Kept, Regs
<1>2. to = {r}
  BY <1>1 DEF Slot, Saved, Regs
<1>3. (CHOOSE q \in to : \A s \in to : s <= q) = r
  BY <1>1, <1>2
<1>4. r - 1 \in 0 .. Words - 1
  BY <1>1 DEF Words
<1> QED
  BY <1>2, <1>3, <1>4 DEF SAVE_CONTEXT

\* The stub's push
LEMMA PushKeeps ==
  ASSUME StackInv, vec.m.table \in BOOLEAN, vec.s.table \in BOOLEAN,
         NEW l, NEW nmi, NEW c, Push(l, nmi, c)
  PROVE  StackInv' /\ ~(Len(frames') < Depth)
<1>1. PICK S : frames \in Seq(S)
  BY DEF StackInv
<1>2. CASE UNCHANGED <<frames, regs>>
  BY <1>1, <1>2 DEF StackInv, Depth
<1>3. CASE ~UNCHANGED <<frames, regs>>
  <2> DEFINE tvec == IF l = "M" THEN vec.m ELSE vec.s
  <2>1. PICK f : /\ frames' = Append(frames, f) /\ regs' = InC
                 /\ {"table", "words", "regs", "phase"} \subseteq DOMAIN f
                 /\ f.table = tvec.table /\ f.words = SAVE_CONTEXT(tvec.table) /\ f.regs = regs
    BY <1>3 DEF Push
  <2>2. Saves(f.words, f.table, f.regs)
    BY <2>1, Stored
  <2>3. Sound(f, Depth)
    BY <2>1, <2>2 DEF Sound, StackInv
  <2>4. frames' \in Seq(S \union {f}) /\ Len(frames') = Depth + 1 /\ Depth \in Nat
    BY <1>1, <2>1 DEF Depth
  <2>5. \A i \in 1 .. Depth : frames'[i] = frames[i]
    BY <1>1, <2>1 DEF Depth
  <2>6. frames'[Depth + 1] = f
    BY <1>1, <2>1 DEF Depth
  <2>7. ASSUME NEW i \in 1 .. Depth + 1 PROVE Sound(frames'[i], i - 1)
    <3>1. CASE i \in 1 .. Depth
      BY <2>5, <3>1 DEF StackInv
    <3>2. CASE i = Depth + 1
      <4>1. i - 1 = Depth
        BY <2>4, <3>2
      <4> QED
        BY <2>3, <2>6, <3>2, <4>1
    <3> QED
      BY <2>4, <3>1, <3>2
  <2>8. regs'[2] = 0 - (Words + CFrame) * (Depth + 1)
    BY <2>1, <2>4 DEF InC, Regs, StackInv, Words, CFrame
  <2>9. (\E R : frames' \in Seq(R)) /\ Depth' = Depth + 1
    BY <2>4 DEF Depth
  <2> QED
    BY <2>4, <2>7, <2>8, <2>9 DEF StackInv
<1> QED
  BY <1>2, <1>3

\* A change of the fields that have nothing to do with the context
LEMMA ProceedKeeps ==
  ASSUME StackInv, Depth > 0, UNCHANGED regs,
         NEW f, frames' = [frames EXCEPT ![Depth] = f],
         DOMAIN f = DOMAIN Top, f.table = Top.table, f.words = Top.words, f.regs = Top.regs
  PROVE  StackInv' /\ ~(Len(frames') < Depth)
<1>1. PICK S : frames \in Seq(S)
  BY DEF StackInv
<1>2. Depth \in Nat /\ Depth \in 1 .. Depth
  BY <1>1 DEF Depth
<1>3. Len(frames') = Depth /\ frames' \in Seq(S \union {f})
  BY <1>1, <1>2 DEF Depth
<1>4. Sound(f, Depth - 1)
  BY <1>2 DEF StackInv, Top, Sound
<1>5. frames'[Depth] = f /\ \A i \in 1 .. Depth : i # Depth => frames'[i] = frames[i]
  BY <1>1, <1>2 DEF Depth
<1>6. \A i \in 1 .. Depth : Sound(frames'[i], i - 1)
  BY <1>4, <1>5 DEF StackInv
<1>7. Depth' = Depth
  BY <1>3 DEF Depth
<1>8. \E R : frames' \in Seq(R)
  BY <1>3
<1> QED
  BY <1>2, <1>3, <1>6, <1>7, <1>8 DEF StackInv

\* The steps that leave the stack alone
LEMMA SameKeeps ==
  ASSUME StackInv, UNCHANGED frames, regs'[2] = regs[2]
  PROVE  StackInv' /\ ~(Len(frames') < Depth)
<1>1. PICK S : frames \in Seq(S)
  BY DEF StackInv
<1> QED
  BY <1>1 DEF StackInv, Depth

LEMMA InitStack == Init => StackInv
<1> SUFFICES ASSUME Init PROVE StackInv
  OBVIOUS
<1>1. frames = <<>> /\ regs[2] = 0
  BY DEF Init, Regs
<1>2. Len(frames) = 0 /\ frames \in Seq({})
  BY <1>1
<1>3. \E S : frames \in Seq(S)
  BY <1>2
<1>4. Depth = 0
  BY <1>2 DEF Depth
<1>5. (Words + CFrame) * 0 = 0
  BY DEF Words, CFrame
<1> QED
  BY <1>1, <1>3, <1>4, <1>5 DEF StackInv

-----------------------------------------------------------------------------
(***************************************************************************)
(* The actions.                                                            *)
(***************************************************************************)
\* What a step does to a context
ComesBack == Len(frames') < Depth => \A r \in Kept(Top.table) : regs'[r] = Top.regs[r]

\* mtvec and stvec name a table or they do not.
VecInv ==
  DOMAIN vec = {"m", "s"} /\ vec.m.table \in BOOLEAN /\ vec.s.table \in BOOLEAN

CInv == StackInv /\ VecInv

\* The phases and steps of a test that only write elsewhere
LEMMA ElsewhereKeeps ==
  ASSUME CInv, UNCHANGED <<vec, frames, regs>>
  PROVE  CInv' /\ ComesBack
BY SameKeeps DEF CInv, VecInv, ComesBack

LEMMA RaiseKeeps ==
  ASSUME CInv, NEW c, NEW from, Raise(c, from)
  PROVE  CInv' /\ ComesBack
<1>1. TrapTo(c, from) /\ UNCHANGED vec
  BY DEF Raise, hart
<1>2. CASE \E l, nmi, d : Push(l, nmi, d)
  BY <1>1, <1>2, PushKeeps DEF CInv, VecInv, ComesBack
<1>3. CASE UNCHANGED <<frames, regs>>
  BY <1>1, <1>3, ElsewhereKeeps
<1> QED
  BY <1>1, <1>2, <1>3 DEF TrapTo

\* A phase that goes on with another field of its frame
LEMMA PhaseKeeps ==
  ASSUME CInv, Depth > 0, UNCHANGED <<vec, regs>>,
         NEW f, Proceed(f), DOMAIN f = DOMAIN Top,
         f.table = Top.table, f.words = Top.words, f.regs = Top.regs
  PROVE  CInv' /\ ComesBack
<1>1. PICK S : frames \in Seq(S)
  BY DEF CInv, StackInv
<1>2. Depth \in 1 .. Depth
  BY <1>1 DEF Depth
<1>3. {"table", "words", "regs", "phase"} \subseteq DOMAIN f
  BY <1>2 DEF CInv, StackInv, Sound, Top
<1> DEFINE g == [f EXCEPT !.phase = @ + 1]
<1>4. /\ frames' = [frames EXCEPT ![Depth] = g]
      /\ DOMAIN g = DOMAIN Top
      /\ g.table = Top.table /\ g.words = Top.words /\ g.regs = Top.regs
  BY <1>3 DEF Proceed
<1> HIDE DEF g
<1>5. StackInv' /\ ~(Len(frames') < Depth)
  BY <1>4, ProceedKeeps DEF CInv
<1> QED
  BY <1>5 DEF CInv, VecInv, ComesBack

LEMMA HandlerKeeps == CInv /\ InHandler /\ ~Return => CInv' /\ ComesBack
<1> SUFFICES ASSUME CInv, InHandler, ~Return PROVE CInv' /\ ComesBack
  OBVIOUS
<1>1. CASE \E c, from : Raise(c, from)
  BY <1>1, RaiseKeeps
<1>2. CASE UNCHANGED <<vec, frames, regs>>
  BY <1>2, ElsewhereKeeps
<1>3. CASE /\ Depth > 0 /\ UNCHANGED <<vec, regs>>
           /\ \E f : /\ Proceed(f) /\ DOMAIN f = DOMAIN Top
                     /\ f.table = Top.table /\ f.words = Top.words /\ f.regs = Top.regs
  BY <1>3, PhaseKeeps
<1>4. Depth > 0
  BY DEF InHandler, test_entry_two, RaisesInterrupt, RaisesException, RaisesNothing, AnnounceAgain,
     handler, ReadNmie, AdvanceEpc, InPhase
<1>5. /\ DOMAIN Top = DOMAIN Top /\ Top.table = Top.table
      /\ \A a : LET f == [Top EXCEPT !.act = a] IN
            DOMAIN f = DOMAIN Top /\ f.table = Top.table /\ f.words = Top.words /\ f.regs = Top.regs
      /\ \A a, b, c : LET f == [Top EXCEPT !.cause = a, !.epc = b, !.double = c] IN
            DOMAIN f = DOMAIN Top /\ f.table = Top.table /\ f.words = Top.words /\ f.regs = Top.regs
  <2>1. {"table", "words", "regs"} \subseteq DOMAIN Top
    BY <1>4 DEF CInv, StackInv, Sound, Top, Depth
  <2> QED
    BY <2>1
<1>6. CASE test_entry_two
  BY <1>3, <1>4, <1>5, <1>6 DEF test_entry_two, bound, hart
<1>7. CASE RaisesInterrupt
  BY <1>3, <1>4, <1>7 DEF RaisesInterrupt, bound, hart
<1>8. CASE RaisesException
  BY <1>1, <1>8 DEF RaisesException
<1>9. CASE RaisesNothing
  BY <1>3, <1>4, <1>9 DEF RaisesNothing, bound, hart
<1>10. CASE AnnounceAgain
  BY <1>3, <1>4, <1>10 DEF AnnounceAgain, bound, hart
<1>11. CASE handler
  <2>1. CASE \E how : Stop(how)
    BY <1>2, <2>1 DEF Stop, hart
  <2>2. CASE /\ \E a, b, c : Proceed([Top EXCEPT !.cause = a, !.epc = b, !.double = c])
             /\ UNCHANGED <<vec, regs>>
    <3>1. PICK a, b, c : Proceed([Top EXCEPT !.cause = a, !.epc = b, !.double = c])
      BY <2>2
    <3> DEFINE f == [Top EXCEPT !.cause = a, !.epc = b, !.double = c]
    <3>2. /\ DOMAIN f = DOMAIN Top
          /\ f.table = Top.table /\ f.words = Top.words /\ f.regs = Top.regs
      BY <1>5
    <3>3. Proceed(f)
      BY <3>1
    <3> HIDE DEF f
    <3> QED
      BY <1>3, <1>4, <2>2, <3>2, <3>3
  <2>3. UNCHANGED <<vec, regs>>
    BY <1>11 DEF handler, Stop, bound, hart
  <2> QED
    BY <1>11, <2>1, <2>2, <2>3 DEF handler
<1>12. CASE ReadNmie
  BY <1>1, <1>3, <1>4, <1>12 DEF ReadNmie, bound, hart
<1>13. CASE AdvanceEpc
  BY <1>2, <1>3, <1>4, <1>13 DEF AdvanceEpc, Stop, bound, hart
<1> QED
  BY <1>6, <1>7, <1>8, <1>9, <1>10, <1>11, <1>12, <1>13 DEF InHandler

LEMMA PrefixFacts ==
  ASSUME NEW S, NEW s \in Seq(S), NEW n \in Nat, n < Len(s)
  PROVE  /\ SubSeq(s, 1, n) \in Seq(S)
         /\ Len(SubSeq(s, 1, n)) = n
         /\ \A i \in 1 .. n : SubSeq(s, 1, n)[i] = s[i]
  OBVIOUS

\* The return takes back what the stub of the frame has saved.
LEMMA Restored ==
  ASSUME CInv, Depth > 0,
         regs' = RESTORE_CONTEXT(Top.words, regs[2] + CFrame)
  PROVE  /\ \A r \in Kept(Top.table) : regs'[r] = Top.regs[r]
         /\ regs'[2] = 0 - (Words + CFrame) * (Depth - 1)
<1>1. Depth \in Nat /\ Depth \in 1 .. Depth
  BY DEF CInv, StackInv, Depth
<1>2. Sound(Top, Depth - 1)
  BY <1>1 DEF CInv, StackInv, Top
<1>3. regs'[2] = 0 - (Words + CFrame) * (Depth - 1)
  BY <1>1 DEF CInv, StackInv, RESTORE_CONTEXT, Regs, Words, CFrame
<1>4. ASSUME NEW r \in Kept(Top.table) \ {2} PROVE regs'[r] = Top.regs[r]
  BY <1>2 DEF RESTORE_CONTEXT, Sound, Saves, Kept
<1>5. regs'[2] = Top.regs[2]
  BY <1>2, <1>3 DEF Sound
<1> QED
  BY <1>3, <1>4, <1>5

LEMMA ReturnKeeps == CInv /\ Return => CInv' /\ ComesBack
<1> SUFFICES ASSUME CInv, Return PROVE CInv' /\ ComesBack
  OBVIOUS
<1>1. PICK S : frames \in Seq(S)
  BY DEF CInv, StackInv
<1>2. Depth \in Nat /\ Depth > 0
  BY <1>1 DEF Return, InPhase, Depth
<1>3. CASE \E how : Stop(how)
  BY <1>3, ElsewhereKeeps DEF Stop, hart
<1>4. CASE ~\E how : Stop(how)
  <2> DEFINE below == SubSeq(frames, 1, Depth - 1)
  <2>1. PICK p : /\ frames' = IF Depth = 1 THEN below ELSE [below EXCEPT ![Depth - 1].phase = p]
                 /\ regs' = RESTORE_CONTEXT(Top.words, regs[2] + CFrame)
                 /\ UNCHANGED vec
    BY <1>4 DEF Return, hart
  <2>2. below \in Seq(S) /\ Len(below) = Depth - 1 /\ \A i \in 1 .. Depth - 1 : below[i] = frames[i]
    <3> DEFINE n == Depth - 1
    <3>1. n \in Nat /\ n < Len(frames)
      BY <1>2 DEF Depth
    <3> HIDE DEF n
    <3>2. /\ SubSeq(frames, 1, n) \in Seq(S) /\ Len(SubSeq(frames, 1, n)) = n
          /\ \A i \in 1 .. n : SubSeq(frames, 1, n)[i] = frames[i]
      BY <1>1, <3>1, PrefixFacts
    <3> QED
      BY <3>2 DEF n
  <2>3. \A i \in 1 .. Depth - 1 : Sound(below[i], i - 1)
    BY <1>2, <2>2 DEF CInv, StackInv
  <2> HIDE DEF below
  <2>4. CASE Depth = 1
    <3>1. Len(frames') = Depth - 1 /\ (\E R : frames' \in Seq(R))
      BY <2>1, <2>2, <2>4
    <3>2. \A i \in 1 .. Depth - 1 : Sound(frames'[i], i - 1)
      BY <2>1, <2>3, <2>4
    <3> QED
      BY <1>2, <2>1, <3>1, <3>2, Restored DEF CInv, StackInv, VecInv, ComesBack, Depth
  <2>5. CASE Depth > 1
    <3> DEFINE f == [below[Depth - 1] EXCEPT !.phase = p]
    <3>1. frames' = [below EXCEPT ![Depth - 1] = f]
      BY <2>1, <2>5
    <3>2. Depth - 1 \in 1 .. Depth - 1
      BY <1>2, <2>5
    <3>3. Sound(f, Depth - 2)
      <4>1. Sound(below[Depth - 1], Depth - 2)
        BY <1>2, <2>3, <3>2
      <4> QED
        BY <4>1 DEF Sound
    <3> HIDE DEF f
    <3>4. Len(frames') = Depth - 1 /\ frames' \in Seq(S \union {f})
      BY <2>2, <3>1, <3>2
    <3>5. frames'[Depth - 1] = f /\ \A i \in 1 .. Depth - 1 : i # Depth - 1 => frames'[i] = below[i]
      BY <2>2, <3>1, <3>2
    <3>6. ASSUME NEW i \in 1 .. Depth - 1 PROVE Sound(frames'[i], i - 1)
      <4>1. CASE i = Depth - 1
        <5>1. i - 1 = Depth - 2
          BY <1>2, <4>1
        <5> QED
          BY <3>3, <3>5, <4>1, <5>1
      <4>2. CASE i # Depth - 1
        BY <2>3, <3>5, <4>2
      <4> QED
        BY <4>1, <4>2
    <3>7. (\E R : frames' \in Seq(R)) /\ Depth' = Depth - 1
      BY <3>4 DEF Depth
    <3> QED
      BY <1>2, <2>1, <3>4, <3>6, <3>7, Restored DEF CInv, StackInv, VecInv, ComesBack
  <2> QED
    BY <1>2, <2>4, <2>5
<1> QED
  BY <1>3, <1>4

\* A step of a test makes a trap or leaves the stack alone.
LEMMA TakeKeeps ==
  ASSUME CInv, NEW s, Take(s), Depth = 0
  PROVE  CInv' /\ ComesBack
<1>1. CASE \E c, from : Raise(c, from)
  BY <1>1, RaiseKeeps
<1>2. CASE UNCHANGED <<vec, frames, regs>>
  BY <1>2, ElsewhereKeeps
<1>3. CASE goto_priv(s) \/ Arrive(s)
  BY <1>1, <1>2, <1>3 DEF goto_priv, Arrive, MoveOn
<1>4. CASE Illegal(s)
  BY <1>1, <1>4 DEF Illegal
<1>5. CASE WriteCsr(s)
  <2>1. UNCHANGED <<frames, regs>>
    BY <1>5 DEF WriteCsr, MoveOn
  <2>2. VecInv'
    BY <1>5 DEF WriteCsr, CInv, VecInv
  <2> QED
    BY <2>1, <2>2, SameKeeps DEF CInv, ComesBack
<1>6. CASE Prepare(s)
  BY <1>2, <1>6 DEF Prepare, MoveOn
<1>7. CASE TestAssert(s)
  BY <1>2, <1>7 DEF TestAssert, MoveOn
<1>8. CASE reset_state(s)
  <2>1. CASE mode # "M"
    BY <1>2, <1>8, <2>1 DEF reset_state, Stop, hart
  <2>2. CASE mode = "M"
    <3>1. UNCHANGED frames /\ regs'[2] = regs[2] /\ vec' = DirectVec
      BY <1>8, <2>2 DEF reset_state, Regs
    <3> QED
      BY <3>1, SameKeeps DEF CInv, VecInv, DirectVec, ComesBack
  <2> QED
    BY <2>1, <2>2
<1> QED
  BY <1>3, <1>4, <1>5, <1>6, <1>7, <1>8 DEF Take

LEMMA StepKeeps == CInv /\ [Next]_vars => CInv' /\ ComesBack
<1> SUFFICES ASSUME CInv, [Next]_vars PROVE CInv' /\ ComesBack
  OBVIOUS
<1>1. CASE UNCHANGED vars
  BY <1>1, ElsewhereKeeps DEF vars, hart
<1>2. CASE Interrupt
  BY <1>2, RaiseKeeps DEF Interrupt
<1>3. CASE InHandler
  BY <1>3, HandlerKeeps, ReturnKeeps
<1>4. CASE \E s \in Upcoming : Take(s)
  BY <1>4, TakeKeeps DEF Upcoming
<1>5. CASE main
  BY <1>5, ElsewhereKeeps DEF main, hart
<1> QED
  BY <1>1, <1>2, <1>3, <1>4, <1>5 DEF Next

\* However many traps come inside a trap, and whatever they do to the trap CSRs, its
\* return finds the registers it saved: all of them through the stubs of handlers.S,
\* all but x30 and x31 through those of xtvec_test_asm.S.
THEOREM ContextsComeBack == Spec => ContextComesBack
<1>1. ASSUME Init PROVE CInv
  <2>1. vec = DirectVec
    BY <1>1 DEF Init
  <2>2. DOMAIN vec = {"m", "s"}
    BY <2>1 DEF DirectVec
  <2>3. vec.m.table = FALSE /\ vec.s.table = FALSE
    BY <2>1 DEF DirectVec
  <2>4. VecInv
    BY <2>2, <2>3 DEF VecInv
  <2> QED
    BY <1>1, <2>4, InitStack DEF CInv
<1>2. CInv /\ [Next]_vars => [Len(frames') < Depth =>
        \A r \in Regs \ (IF Top.table THEN {30, 31} ELSE {}) : regs'[r] = Top.regs[r]]_vars
  BY StepKeeps DEF ComesBack, Kept
<1>3. CInv /\ [Next]_vars => CInv'
  BY StepKeeps
<1> QED
  BY <1>1, <1>2, <1>3, PTL DEF Spec, ContextComesBack
-----------------------------------------------------------------------------
(***************************************************************************)
(* Types.  That the C code of a handler is in its mode depends on how      *)
(* traps nest.                                                             *)
(***************************************************************************)
Addresses == [d : Int, k : Int]

\* A return to the test finds an instruction of it.
Inside(p) == p.d = 0 => p.k \in 1 .. 2 * Len(Scripts[test])

\* This holds also where the program has ended.
Typed ==
  /\ test = NoTest \/ test \in DOMAIN Scripts
  /\ curr_priv \in Levels /\ real_priv \in Levels /\ mode \in {"U", "S", "M"} /\ nmie \in BOOLEAN
  /\ mstatus \subseteq Bits /\ mstatus = Legal(mstatus) /\ (~dte => "SDT" \notin mstatus)
  /\ mie \subseteq Ints /\ mip \subseteq Ints /\ deleg \subseteq Ints \union {"ECU", "ILI"}
  /\ epc \in [m : Addresses, s : Addresses, n : Addresses] /\ DOMAIN cause = {"m", "s"}
  /\ status \in {"run", "error", "astray", "critical"}

FrameOK(f) ==
  /\ {"level", "table", "phase", "epc", "cause", "double"} \subseteq DOMAIN f
  /\ f.level \in {"HS", "M"} /\ f.phase \in Int /\ f.epc \in Addresses /\ Inside(f.epc)

\* Nothing but an RNMI comes on top of a frame in M, which has then come through the
\* table; and nothing comes on top of the RNMI.
Nests ==
  /\ \A i \in 1 .. Depth : FrameOK(frames[i])
  /\ \A i \in 2 .. Depth :
       frames[i - 1].level = "M" => frames[i].level = "M" /\ i = Depth /\ ~nmie
  /\ \A i \in 1 .. Depth : frames[i].level = "M" =>
       /\ frames[i].table = vec.m.table
       /\ ~frames[i].table => frames[i].phase >= Handle /\ i = Depth

\* MDT and nmie know which C code runs.
Modes ==
  /\ Depth > 0 => mode = ModeOf(Top.level)
  /\ "MDT" \in mstatus => mode = "M"
  /\ Depth > 0 /\ Top.level = "M" => "MDT" \in mstatus
  /\ ~nmie => Depth > 0 /\ Top.level = "M" /\ Top.table

Idle ==
  /\ Depth = 0 /\ k = 2 /\ mode = "M" /\ curr_priv = "M" /\ real_priv = "M"
  /\ mstatus = {} /\ mie = {} /\ mip = {}
  /\ epc.m = Nowhere /\ epc.s = Nowhere

\* Before a test that sets MDT has written its table nothing has trapped.
Armed ==
  ~vec.m.table =>
    /\ Depth = 0 /\ "MDT" \in mstatus => SetsMDT(test)
    /\ SetsMDT(test) =>
         /\ Depth = 0 /\ mode = "M" /\ real_priv = "M" /\ mip = {}
         /\ \A i \in DOMAIN Scripts[test] : Scripts[test][i].op = "mtvec" => k <= 2 * i

InTest ==
  /\ k \in 1 .. 2 * Len(Scripts[test])
  /\ Inside(epc.m) /\ Inside(epc.s) /\ (~nmie => Inside(epc.n))
  /\ Armed

Runs == Nests /\ Modes /\ (IF test = NoTest THEN Idle ELSE InTest)

TInv == Typed /\ (status = "run" => Runs)

-----------------------------------------------------------------------------
(***************************************************************************)
(* Places, steps and frames.                                               *)
(***************************************************************************)
LEMMA DepthNat == StackInv => Depth \in Nat /\ (Depth > 0 => Depth \in 1 .. Depth)
BY DEF StackInv, Depth

LEMMA ConstantPlaces ==
  /\ Nowhere \in Addresses /\ Inside(Nowhere)
  /\ Garbage \in Addresses /\ Inside(Garbage)
BY DEF Nowhere, Garbage, Addresses, Inside

LEMMA NextInside ==
  ASSUME test \in DOMAIN Scripts, test # NoTest, NEW p \in Addresses, Inside(p)
  PROVE  next_instruction(p) \in Addresses /\ Inside(next_instruction(p))
<1> DEFINE last == IF p.d > 0 THEN 9 ELSE 2 * Len(Scripts[test])
           q    == [p EXCEPT !.k = IF p.d = 0 /\ p.k % 2 = 0 THEN @ + 2 ELSE @ + 1]
<1>1. p.d \in Int /\ p.k \in Int
  BY DEF Addresses
<1>2. q \in Addresses /\ q.d = p.d /\ (q.k = p.k + 1 \/ q.k = p.k + 2)
  BY <1>1 DEF Addresses
<1>3. next_instruction(p) = IF p.d < 0 THEN p ELSE IF q.k > last THEN Garbage ELSE q
  BY DEF next_instruction
<1>4. Len(Scripts[test]) \in Nat
  BY TrapVectorsAssumption
<1> HIDE DEF q
<1>5. CASE p.d < 0 \/ q.k > last
  BY <1>3, <1>5, ConstantPlaces
<1>6. CASE ~(p.d < 0 \/ q.k > last)
  <2>1. next_instruction(p) = q
    BY <1>3, <1>6
  <2>2. p.d = 0 => q.k \in 1 .. 2 * Len(Scripts[test])
    BY <1>1, <1>2, <1>4, <1>6 DEF Inside
  <2> QED
    BY <1>2, <2>1, <2>2 DEF Inside
<1> QED
  BY <1>5, <1>6

\* The step a test is at, and that there is a next one unless it resets
LEMMA StepFacts ==
  ASSUME test \in DOMAIN Scripts, k \in 1 .. 2 * Len(Scripts[test])
  PROVE  /\ (k + 1) \div 2 \in DOMAIN Scripts[test]
         /\ Scripts[test][(k + 1) \div 2] \in Steps
         /\ Scripts[test][(k + 1) \div 2].op # "reset" => k + 2 \in 1 .. 2 * Len(Scripts[test])
<1>1. Scripts[test] \in Seq(Steps) /\ Scripts[test] # <<>>
      /\ Scripts[test][Len(Scripts[test])].op = "reset"
  BY TrapVectorsAssumption, ScriptsAssumption
<1> PICK s : s = Scripts[test]
  OBVIOUS
<1> PICK n \in Nat : n = Len(s)
  BY <1>1
<1> PICK j \in Int : j = (k + 1) \div 2
  OBVIOUS
<1>2. k \in Int /\ 1 <= k /\ k <= 2 * n
  OBVIOUS
<1>3. 2 * j <= k + 1 /\ k <= 2 * j
  BY <1>2
<1>4. j \in 1 .. n
  BY <1>2, <1>3
<1>5. j # n => k + 2 <= 2 * n
  BY <1>2, <1>3, <1>4
<1> QED
  BY <1>1, <1>2, <1>4, <1>5

\* Behind a step that is not the write of mtvec, none has been passed.
LEMMA Behind ==
  ASSUME NEW n \in Int, NEW i \in Int, n <= 2 * i, i # (n + 1) \div 2
  PROVE  n + 2 <= 2 * i
OBVIOUS

LEMMA StepTypes ==
  ASSUME NEW s \in Steps
  PROVE  /\ s.op \in {"goto", "arrive"} => s.to \in Levels
         /\ s.op = "mstatus" => s.bits \in SUBSET Bits
         /\ s.op \in {"enable", "pend", "spend", "deleg"} => s.int \in Ints
BY DEF Steps

LEMMA LegalFacts ==
  ASSUME NEW ms, ms \subseteq Bits
  PROVE  /\ Legal(ms) \subseteq Bits /\ Legal(ms) \subseteq ms /\ Legal(Legal(ms)) = Legal(ms)
         /\ "MDT" \in ms => "MDT" \in Legal(ms) /\ "MIE" \notin Legal(ms)
BY DEF Legal, Bits

\* A bit less, or one that stands alone
LEMMA LegalWithout ==
  ASSUME NEW ms, ms = Legal(ms), NEW bits, "MDT" \notin bits, "SDT" \notin bits \/ "SIE" \in bits
  PROVE  ms \ bits = Legal(ms \ bits)
BY DEF Legal

-----------------------------------------------------------------------------
(***************************************************************************)
(* A trap.                                                                 *)
(***************************************************************************)
LEMMA PushMakes ==
  ASSUME NEW l, NEW nmi, NEW c, Push(l, nmi, c)
  PROVE  \/ status' = "astray" /\ UNCHANGED <<frames, regs>>
         \/ /\ status' = status
            /\ \E f : /\ frames' = Append(frames, f)
                      /\ {"level", "table", "phase", "epc", "cause", "double"} \subseteq DOMAIN f
                      /\ f.level = l /\ f.table = IF l = "M" THEN vec.m.table ELSE vec.s.table
                      /\ f.phase = IF f.table THEN Enter ELSE Handle
                      /\ f.epc = Nowhere
BY DEF Push

LEMMA AppendFacts ==
  ASSUME StackInv, NEW f, frames' = Append(frames, f)
  PROVE  /\ Depth \in Nat /\ Depth' = Depth + 1 /\ Top' = f
         /\ \A i \in 1 .. Depth : frames'[i] = frames[i]
         /\ frames'[Depth + 1] = f
<1>1. PICK S : frames \in Seq(S)
  BY DEF StackInv
<1>2. Depth \in Nat /\ Len(frames') = Depth + 1
  BY <1>1 DEF Depth
<1>3. (\A i \in 1 .. Depth : frames'[i] = frames[i]) /\ frames'[Depth + 1] = f
  BY <1>1 DEF Depth
<1> QED
  BY <1>2, <1>3 DEF Depth, Top

\* On the top of which a frame may be put
LEMMA NestsGrow ==
  ASSUME StackInv, Nests, nmie, NEW f, frames' = Append(frames, f), FrameOK(f), UNCHANGED <<vec, test>>,
         f.level = "M" => f.table = vec.m.table /\ (~f.table => f.phase >= Handle),
         Depth > 0 /\ Top.level = "M" => f.level = "M" /\ ~nmie' /\ Top.table
  PROVE  Nests'
<1> PICK n : n = Depth
  OBVIOUS
<1>1. /\ n \in Nat /\ Depth' = n + 1
      /\ \A i \in 1 .. n : frames'[i] = frames[i]
      /\ frames'[n + 1] = f
  BY AppendFacts
<1>2. \A g : FrameOK(g) => FrameOK(g)'
  BY DEF FrameOK, Inside
<1>3. \A i \in 1 .. n : frames[i].level = "M" => i = n
  <2> SUFFICES ASSUME NEW i \in 1 .. n, frames[i].level = "M", i # n PROVE FALSE
    OBVIOUS
  <2>1. i + 1 \in 2 .. n /\ (i + 1) - 1 = i
    BY <1>1
  <2> QED
    BY <2>1 DEF Nests
<1>4. Top = frames[n] /\ (n > 0 <=> Depth > 0)
  BY DEF Top
<1>5. \A i \in 1 .. (n + 1) : FrameOK(frames[i])'
  <2> TAKE i \in 1 .. (n + 1)
  <2>0. i = n + 1 \/ i \in 1 .. n
    BY <1>1
  <2>1. CASE i \in 1 .. n
    BY <1>1, <1>2, <2>1 DEF Nests
  <2>2. CASE i = n + 1
    BY <1>1, <1>2, <2>2
  <2> QED
    BY Zenon, <2>0, <2>1, <2>2
<1>6. \A i \in 2 .. (n + 1) : frames'[i - 1].level = "M" => frames'[i].level = "M" /\ i = n + 1 /\ ~nmie'
  <2> SUFFICES ASSUME NEW i \in 2 .. (n + 1), frames'[i - 1].level = "M"
               PROVE  frames'[i].level = "M" /\ i = n + 1 /\ ~nmie'
    OBVIOUS
  <2>1. i - 1 \in 1 .. n
    BY <1>1
  <2>2. frames[i - 1].level = "M"
    BY <1>1, <2>1
  <2>3. i - 1 = n
    BY <1>3, <2>1, <2>2
  <2>4. i = n + 1 /\ n > 0
    BY <1>1, <2>3
  <2>5. Top.level = "M"
    BY <1>4, <2>2, <2>3
  <2> QED
    BY <1>1, <1>4, <2>4, <2>5
<1>7. \A i \in 1 .. (n + 1) : frames'[i].level = "M" =>
         /\ frames'[i].table = vec.m.table
         /\ ~frames'[i].table => frames'[i].phase >= Handle /\ i = n + 1
  <2> SUFFICES ASSUME NEW i \in 1 .. (n + 1), frames'[i].level = "M"
               PROVE  /\ frames'[i].table = vec.m.table
                      /\ ~frames'[i].table => frames'[i].phase >= Handle /\ i = n + 1
    OBVIOUS
  <2>0. i = n + 1 \/ i \in 1 .. n
    BY <1>1
  <2>1. CASE i = n + 1
    BY <1>1, <2>1
  <2>2. CASE i \in 1 .. n
    <3>1. frames[i].level = "M" /\ frames'[i] = frames[i]
      BY <1>1, <2>2
    <3>2. i = n /\ n > 0
      BY <1>1, <1>3, <2>2, <3>1
    <3>3. Top.table
      BY <1>4, <3>1, <3>2
    <3>4. frames[i].table = vec.m.table
      BY <2>2, <3>1 DEF Nests
    <3> QED
      BY <1>4, <3>1, <3>2, <3>3, <3>4
  <2> QED
    BY Zenon, <2>0, <2>1, <2>2
<1> QED
  BY <1>1, <1>5, <1>6, <1>7 DEF Nests

Causes == Ints \union Ecalls \union {"ILI"}

\* A trap keeps everything, if M's code raises it behind the table only, ecalls come
\* from the test, and a test that sets MDT has its table.
LEMMA TrapKeeps ==
  ASSUME CInv, TInv, status = "run", test # NoTest,
         NEW c \in Causes, NEW from \in Addresses, Inside(from), Raise(c, from),
         c \in Ecalls => Depth = 0,
         Depth > 0 /\ Top.level = "M" => Top.table,
         SetsMDT(test) => vec.m.table
  PROVE  TInv'
<1>1. Typed /\ Nests /\ Modes /\ InTest /\ StackInv /\ VecInv
  BY DEF TInv, Runs, CInv
<1>2. /\ UNCHANGED <<dte, vec, deleg, test, k, privs, mie, mip>>
      /\ TrapTo(c, from)
  BY DEF Raise, hart, flow
<1>3. /\ epc'.m \in Addresses /\ epc'.s \in Addresses /\ epc'.n \in Addresses
      /\ epc' \in [m : Addresses, s : Addresses, n : Addresses]
      /\ Inside(epc'.m) /\ Inside(epc'.s) /\ (~nmie' => Inside(epc'.n))
  <2>1. epc \in [m : Addresses, s : Addresses, n : Addresses]
        /\ Inside(epc.m) /\ Inside(epc.s) /\ (~nmie => Inside(epc.n))
    BY <1>1 DEF Typed, InTest
  <2>2. \/ epc' = epc /\ nmie' = nmie
        \/ epc' = [epc EXCEPT !.s = from] /\ nmie' = nmie
        \/ epc' = [epc EXCEPT !.m = from] /\ nmie' = nmie
        \/ epc' = [epc EXCEPT !.n = from]
    BY <1>2 DEF TrapTo
  <2> QED
    BY <2>1, <2>2
<1>4. Typed'
  <2>1. status' \in {"run", "error", "astray", "critical"}
    BY <1>2 DEF TrapTo, Push
  <2>2. DOMAIN cause' = {"m", "s"}
    BY <1>1, <1>2 DEF TrapTo, Typed
  <2>3. mode' \in {"U", "S", "M"} /\ nmie' \in BOOLEAN
    BY <1>1, <1>2 DEF TrapTo, Typed
  <2>4. mstatus' \subseteq Bits /\ mstatus' = Legal(mstatus') /\ (~dte => "SDT" \notin mstatus')
    BY <1>1, <1>2 DEF TrapTo, Typed, Legal, Bits
  <2> QED
    BY <1>1, <1>2, <1>3, <2>1, <2>2, <2>3, <2>4 DEF Typed, privs
<1>5. CASE status' # "run"
  BY <1>4, <1>5 DEF TInv
<1>6. CASE status' = "run"
  <2>1. nmie
    <3>1. CASE nmie
      BY <3>1
    <3>2. CASE ~nmie
      <4>1. Depth > 0 /\ Top.level = "M" /\ "MDT" \in mstatus /\ mode = "M"
        BY <1>1, <3>2 DEF Modes
      <4> QED
        BY <1>2, <1>6, <3>2, <4>1 DEF TrapTo, ToHS, Delegates
    <3> QED
      BY <3>1, <3>2
  <2>2. mode = "M" /\ "MDT" \in mstatus => vec.m.table
    <3>1. CASE Depth = 0
      BY <1>1, <3>1 DEF InTest, Armed
    <3>2. CASE Depth > 0
      <4> SUFFICES ASSUME mode = "M" PROVE vec.m.table
        OBVIOUS
      <4>1. Depth \in 1 .. Depth /\ FrameOK(Top)
        BY <1>1, <3>2, DepthNat DEF Nests, Top
      <4>2. Top.level = "M"
        BY <1>1, <3>2, <4>1 DEF Modes, ModeOf, FrameOK
      <4> QED
        BY <1>1, <3>2, <4>1, <4>2 DEF Nests, Top
    <3> QED
      BY <1>1, <3>1, <3>2, DepthNat
  <2> DEFINE Kinds(l, f) ==
        /\ frames' = Append(frames, f) /\ f.level = l
        /\ FrameOK(f) /\ (l = "M" => f.table = vec.m.table /\ (~f.table => f.phase >= Handle))
        /\ \/ /\ l = "HS" /\ mode # "M" /\ mode' = "S" /\ nmie' = nmie
              /\ "MDT" \notin mstatus'
           \/ /\ l = "M" /\ "MDT" \notin mstatus /\ mode' = "M" /\ nmie' = nmie
              /\ "MDT" \in mstatus'
           \/ /\ l = "M" /\ "MDT" \in mstatus /\ mode' = "M" /\ ~nmie'
              /\ "MDT" \in mstatus'
  <2>2a. PICK l \in {"HS", "M"} : \E f : Kinds(l, f)
    <3>1. \A g, ll, nmi, cc : /\ Push(ll, nmi, cc) /\ ll \in {"HS", "M"}
            => \E ff : /\ frames' = Append(frames, ff) /\ FrameOK(ff) /\ ff.level = ll
                       /\ ll = "M" => ff.table = vec.m.table /\ (~ff.table => ff.phase >= Handle)
      <4> SUFFICES ASSUME NEW ll \in {"HS", "M"}, NEW nmi, NEW cc, Push(ll, nmi, cc)
                   PROVE  \E ff : /\ frames' = Append(frames, ff) /\ FrameOK(ff) /\ ff.level = ll
                                  /\ ll = "M" => ff.table = vec.m.table /\ (~ff.table => ff.phase >= Handle)
        OBVIOUS
      <4>1. PICK ff : /\ frames' = Append(frames, ff)
                      /\ {"level", "table", "phase", "epc", "cause", "double"} \subseteq DOMAIN ff
                      /\ ff.level = ll /\ ff.table = IF ll = "M" THEN vec.m.table ELSE vec.s.table
                      /\ ff.phase = IF ff.table THEN Enter ELSE Handle
                      /\ ff.epc = Nowhere
        BY <1>6, PushMakes
      <4>2. FrameOK(ff)
        BY <4>1, ConstantPlaces DEF FrameOK, Enter, Handle
      <4> QED
        BY <4>1, <4>2 DEF Handle
    <3>2. CASE ToHS(c)
      <4>1. /\ Push("HS", FALSE, c) /\ mode # "M" /\ mode' = "S" /\ nmie' = nmie
            /\ mstatus' = (mstatus \ {"SIE"}) \union IF dte THEN {"SDT"} ELSE {}
        BY <1>2, <3>2 DEF TrapTo, ToHS, Delegates
      <4>2. "MDT" \notin mstatus'
        BY <1>1, <4>1 DEF Modes, Typed
      <4> QED
        BY <3>1, <4>1, <4>2
    <3>3. CASE ~ToHS(c) /\ "MDT" \notin mstatus
      <4>1. /\ \E cc : Push("M", FALSE, cc)
            /\ mode' = "M" /\ nmie' = nmie
            /\ mstatus' = (mstatus \ {"MIE"}) \union {"MDT"}
        BY <1>2, <3>3 DEF TrapTo
      <4>2. "MDT" \in mstatus'
        BY <4>1
      <4> QED
        BY <3>1, <3>3, <4>1, <4>2
    <3>4. CASE ~ToHS(c) /\ "MDT" \in mstatus
      <4>1. /\ Push("M", TRUE, c) /\ mode' = "M" /\ ~nmie' /\ mstatus' = mstatus
        BY <1>2, <2>1, <3>4 DEF TrapTo
      <4> QED
        BY <3>1, <3>4, <4>1
    <3> QED
      BY <3>2, <3>3, <3>4
  <2>3. PICK f : Kinds(l, f)
    BY <2>2a
  <2>4. Depth > 0 /\ Top.level = "M" => l = "M" /\ ~nmie' /\ Top.table
    <3> SUFFICES ASSUME Depth > 0, Top.level = "M" PROVE l = "M" /\ ~nmie' /\ Top.table
      OBVIOUS
    <3>1. "MDT" \in mstatus /\ mode = "M"
      BY <1>1 DEF Modes
    <3> QED
      BY <2>3, <3>1
  <2>5. Nests'
    BY <1>1, <1>2, <2>1, <2>3, <2>4, NestsGrow
  <2>6. /\ Depth \in Nat /\ Depth' = Depth + 1 /\ Top' = f
        /\ \A i \in 1 .. Depth : frames'[i] = frames[i]
        /\ frames'[Depth + 1] = f
    BY <1>1, <2>3, AppendFacts
  <2>7. Modes'
    <3>1. mode' = ModeOf(Top'.level)
      BY <2>3, <2>6 DEF ModeOf
    <3>2. ("MDT" \in mstatus' => mode' = "M") /\ (Depth' > 0 /\ Top'.level = "M" => "MDT" \in mstatus')
      BY <2>3, <2>6
    <3>3. ~nmie' => Depth' > 0 /\ Top'.level = "M" /\ Top'.table
      <4> SUFFICES ASSUME ~nmie' PROVE Top'.level = "M" /\ Top'.table
        BY <2>6
      <4>1. l = "M" /\ "MDT" \in mstatus
        BY <2>1, <2>3
      <4>2. mode = "M"
        BY <1>1, <4>1 DEF Modes
      <4> QED
        BY <2>2, <2>3, <2>6, <4>1, <4>2
    <3> QED
      BY <3>1, <3>2, <3>3 DEF Modes
  <2>8. InTest'
    <3>1. Depth' # 0
      BY <2>6
    <3>2. Armed'
      BY <1>2, <3>1 DEF Armed, SetsMDT
    <3> QED
      BY <1>1, <1>2, <1>3, <3>2 DEF InTest, Inside
  <2> QED
    BY <1>2, <1>4, <2>5, <2>7, <2>8 DEF TInv, Runs
<1> QED
  BY <1>5, <1>6

-----------------------------------------------------------------------------
(***************************************************************************)
(* The C code of a frame.                                                  *)
(***************************************************************************)
LEMMA StopTypes ==
  ASSUME TInv, NEW how \in {"error", "astray", "critical"}, Stop(how)
  PROVE  TInv'
BY DEF Stop, TInv, Typed, hart, flow, privs

LEMMA HereInside ==
  ASSUME CInv, TInv, status = "run", test # NoTest
  PROVE  Here \in Addresses /\ Inside(Here)
<1>1. StackInv /\ Nests /\ InTest
  BY DEF CInv, TInv, Runs
<1>2. Depth \in Nat /\ k \in 1 .. 2 * Len(Scripts[test])
  BY <1>1, DepthNat DEF InTest
<1>3. Depth > 0 => Top.phase \in Int
  BY <1>1, DepthNat DEF Nests, FrameOK, Top
<1> QED
  BY <1>2, <1>3 DEF Here, Addresses, Inside

\* What is known of the frame on top
LEMMA TopFacts ==
  ASSUME CInv, TInv, status = "run", Depth > 0
  PROVE  /\ test \in DOMAIN Scripts /\ test # NoTest /\ Depth \in 1 .. Depth
         /\ StackInv /\ VecInv /\ Typed /\ Nests /\ Modes /\ InTest
         /\ FrameOK(Top) /\ mode = ModeOf(Top.level)
         /\ SetsMDT(test) => vec.m.table
<1>1. StackInv /\ VecInv /\ Typed /\ Nests /\ Modes /\ (IF test = NoTest THEN Idle ELSE InTest)
  BY DEF CInv, TInv, Runs
<1>2. test # NoTest
  BY <1>1 DEF Idle
<1>3. Depth \in 1 .. Depth /\ Depth # 0
  BY <1>1, DepthNat
<1>4. FrameOK(Top) /\ mode = ModeOf(Top.level)
  BY <1>1, <1>3 DEF Nests, Modes, Top
<1>5. SetsMDT(test) => vec.m.table
  BY <1>1, <1>2, <1>3 DEF InTest, Armed
<1> QED
  BY <1>1, <1>2, <1>3, <1>4, <1>5 DEF Typed

LEMMA ProceedFacts ==
  ASSUME StackInv, Depth > 0, NEW g, Proceed(g)
  PROVE  /\ Depth \in Nat /\ Depth \in 1 .. Depth /\ Depth' = Depth
         /\ Top' = [g EXCEPT !.phase = @ + 1] /\ frames'[Depth] = [g EXCEPT !.phase = @ + 1]
         /\ \A i \in 1 .. Depth : i # Depth => frames'[i] = frames[i]
<1>1. PICK S : frames \in Seq(S)
  BY DEF StackInv
<1> DEFINE h == [g EXCEPT !.phase = @ + 1]
<1>2. frames' = [frames EXCEPT ![Depth] = h]
  BY DEF Proceed
<1> HIDE DEF h
<1>3. Depth \in Nat /\ Depth \in 1 .. Depth
  BY <1>1 DEF Depth
<1>4. Len(frames') = Depth /\ frames'[Depth] = h
      /\ \A i \in 1 .. Depth : i # Depth => frames'[i] = frames[i]
  BY <1>1, <1>2, <1>3 DEF Depth
<1>5. Depth' = Depth /\ Top' = h
  BY <1>4 DEF Depth, Top
<1> QED
  BY <1>3, <1>4, <1>5 DEF h

\* A phase leaves a frame where it is.
LEMMA NestsGoOn ==
  ASSUME StackInv, Nests, Depth > 0, NEW g, Proceed(g), FrameOK(g), UNCHANGED <<vec, test, nmie>>,
         g.level = Top.level, g.table = Top.table, g.phase = Top.phase
  PROVE  /\ Nests' /\ Depth' = Depth /\ Depth \in Nat
         /\ Top'.level = Top.level /\ Top'.table = Top.table
         /\ \A i \in 1 .. Depth : frames'[i].level = frames[i].level
<1> DEFINE h == [g EXCEPT !.phase = @ + 1]
<1> PICK n : n = Depth
  OBVIOUS
<1>1. /\ n \in Nat /\ n \in 1 .. n /\ Depth' = n /\ n > 0
      /\ Top' = h /\ frames'[n] = h
      /\ \A i \in 1 .. n : i # n => frames'[i] = frames[i]
  BY ProceedFacts
<1>2. Top = frames[n]
  BY DEF Top
<1>3. /\ h.level = g.level /\ h.table = g.table /\ h.phase = g.phase + 1 /\ g.phase \in Int
      /\ FrameOK(h)
  BY DEF FrameOK
<1> HIDE DEF h
<1>4. \A f : FrameOK(f) => FrameOK(f)'
  BY DEF FrameOK, Inside
<1>5. \A i \in 1 .. n : frames'[i].level = frames[i].level /\ frames'[i].table = frames[i].table
                        /\ (i # n => frames'[i].phase = frames[i].phase)
  <2> TAKE i \in 1 .. n
  <2>1. CASE i = n
    BY <1>1, <1>2, <1>3, <2>1
  <2>2. CASE i # n
    BY <1>1, <2>2
  <2> QED
    BY <2>1, <2>2
<1>6. \A i \in 1 .. n : FrameOK(frames[i])'
  <2> TAKE i \in 1 .. n
  <2>1. CASE i = n
    BY <1>1, <1>3, <1>4, <2>1
  <2>2. CASE i # n
    BY <1>1, <1>4, <2>2 DEF Nests
  <2> QED
    BY <2>1, <2>2
<1>7. \A i \in 2 .. n : frames'[i - 1].level = "M" => frames'[i].level = "M" /\ i = n /\ ~nmie
  <2> SUFFICES ASSUME NEW i \in 2 .. n, frames'[i - 1].level = "M"
               PROVE  frames'[i].level = "M" /\ i = n /\ ~nmie
    OBVIOUS
  <2>1. i - 1 \in 1 .. n /\ i \in 1 .. n
    BY <1>1
  <2>2. frames[i - 1].level = "M"
    BY <1>5, <2>1
  <2> QED
    BY <1>5, <2>1, <2>2 DEF Nests
<1>8. \A i \in 1 .. n : frames'[i].level = "M" =>
        /\ frames'[i].table = vec.m.table
        /\ ~frames'[i].table => frames'[i].phase >= Handle /\ i = n
  <2> SUFFICES ASSUME NEW i \in 1 .. n, frames'[i].level = "M"
               PROVE  /\ frames'[i].table = vec.m.table
                      /\ ~frames'[i].table => frames'[i].phase >= Handle /\ i = n
    OBVIOUS
  <2>1. frames[i].level = "M" /\ frames'[i].table = frames[i].table
    BY <1>5
  <2>2. frames[i].table = vec.m.table /\ (~frames[i].table => frames[i].phase >= Handle /\ i = n)
    BY <2>1 DEF Nests
  <2>3. ~frames[i].table => frames'[i].phase >= Handle
    <3> SUFFICES ASSUME ~frames[i].table PROVE frames'[i].phase >= Handle
      OBVIOUS
    <3>1. i = n /\ frames[n].phase >= Handle
      BY <2>2
    <3> QED
      BY <1>1, <1>2, <1>3, <3>1 DEF Handle
  <2> QED
    BY <2>1, <2>2, <2>3
<1>9. Nests'
  BY <1>1, <1>6, <1>7, <1>8 DEF Nests
<1> QED
  BY <1>1, <1>3, <1>5, <1>9

Epcs == [m : Addresses, s : Addresses, n : Addresses]

\* A phase that goes on, whatever it makes of the harness' levels
LEMMA PhaseTypes ==
  ASSUME CInv, TInv, status = "run", Depth > 0,
         UNCHANGED <<hart, flow, mode, nmie, status>>, DOMAIN cause' = {"m", "s"},
         NEW g, Proceed(g), FrameOK(g),
         g.level = Top.level, g.table = Top.table, g.phase = Top.phase,
         epc' \in Epcs, Inside(epc'.m), Inside(epc'.s), ~nmie => Inside(epc'.n),
         mstatus' \subseteq Bits, mstatus' = Legal(mstatus'), ~dte => "SDT" \notin mstatus',
         "MDT" \in mstatus' <=> "MDT" \in mstatus,
         mie' \subseteq Ints, mip' \subseteq Ints,
         curr_priv' \in Levels, real_priv' \in Levels
  PROVE  TInv'
<1>1. /\ test \in DOMAIN Scripts /\ test # NoTest
      /\ StackInv /\ VecInv /\ Typed /\ Nests /\ Modes /\ InTest
      /\ SetsMDT(test) => vec.m.table
  BY TopFacts
<1>2. /\ UNCHANGED <<dte, vec, deleg, test, k>>
  BY DEF hart, flow
<1>3. Typed'
  BY <1>1, <1>2 DEF Typed, Epcs
<1>4. /\ Nests' /\ Depth' = Depth /\ Depth \in Nat
      /\ Top'.level = Top.level /\ Top'.table = Top.table
      /\ \A i \in 1 .. Depth : frames'[i].level = frames[i].level
  BY <1>1, <1>2, NestsGoOn
<1>5. Modes'
  BY <1>1, <1>4 DEF Modes
<1>6. InTest'
  <2>1. Depth' # 0
    BY <1>4
  <2>2. Armed'
    BY <1>1, <1>2, <2>1 DEF Armed, SetsMDT
  <2> QED
    BY <1>1, <1>2, <2>2 DEF InTest, Inside
<1> QED
  BY <1>1, <1>2, <1>3, <1>4, <1>5, <1>6 DEF TInv, Runs

LEMMA EntryTypes ==
  ASSUME CInv, TInv, test_entry_two
  PROVE  TInv'
<1>1. status = "run" /\ Depth > 0
  BY DEF test_entry_two, InPhase
<1>2. FrameOK(Top) /\ Typed /\ InTest
  BY <1>1, TopFacts
<1> DEFINE g == [Top EXCEPT !.act = trap]
<1>3. FrameOK(g) /\ g.level = Top.level /\ g.table = Top.table /\ g.phase = Top.phase
  BY <1>2 DEF FrameOK
<1>4. Proceed(g) /\ UNCHANGED <<bound, privs, mstatus, mie, mip, epc, cause>>
  BY DEF test_entry_two
<1> HIDE DEF g
<1>5. UNCHANGED <<hart, flow, mode, nmie, status>>
  BY <1>4 DEF bound
<1> QED
  BY <1>1, <1>2, <1>3, <1>4, <1>5, PhaseTypes DEF privs, Typed, InTest, Epcs

LEMMA RaisesInterruptTypes ==
  ASSUME CInv, TInv, RaisesInterrupt
  PROVE  TInv'
<1>1. status = "run" /\ Depth > 0
  BY DEF RaisesInterrupt, InPhase
<1>2. FrameOK(Top) /\ Typed /\ InTest
  BY <1>1, TopFacts
<1>3. /\ Proceed(Top) /\ UNCHANGED <<bound, privs, epc, cause>>
      /\ mie' \subseteq Ints /\ mip' \subseteq Ints
  BY <1>2 DEF RaisesInterrupt, Typed, Ints
<1>4. PICK ms : ms = IF Top.level = "M" THEN mstatus \union {"MIE"} ELSE (mstatus \ {"SDT"}) \union {"SIE"}
  OBVIOUS
<1>5. mstatus' = Legal(ms)
  BY <1>4 DEF RaisesInterrupt
<1>6. ms \subseteq Bits /\ ("SDT" \in ms => "SDT" \in mstatus) /\ ("MDT" \in ms <=> "MDT" \in mstatus)
  BY <1>2, <1>4 DEF Typed, Bits
<1>7. /\ mstatus' \subseteq Bits /\ mstatus' = Legal(mstatus')
      /\ ~dte => "SDT" \notin mstatus'
      /\ "MDT" \in mstatus' <=> "MDT" \in mstatus
  BY <1>2, <1>5, <1>6, LegalFacts DEF Typed
<1>8. UNCHANGED <<hart, flow, mode, nmie, status>>
  BY <1>3 DEF bound
<1> QED
  BY <1>1, <1>2, <1>3, <1>7, <1>8, PhaseTypes DEF privs, Typed, InTest, Epcs

\* Code in M that came straight from handlers.S is past the phase that raises.
LEMMA BehindTable ==
  ASSUME CInv, TInv, status = "run", Depth > 0, Top.level = "M", Top.phase = Act
  PROVE  Top.table
<1>1. Nests /\ Depth \in 1 .. Depth
  BY TopFacts
<1> QED
  BY <1>1 DEF Nests, Top, Act, Handle

LEMMA RaisesExceptionTypes ==
  ASSUME CInv, TInv, RaisesException
  PROVE  TInv'
<1>1. status = "run" /\ Depth > 0 /\ Top.phase = Act /\ Raise("ILI", Here)
  BY DEF RaisesException, InPhase
<1>2. test # NoTest /\ (SetsMDT(test) => vec.m.table)
  BY <1>1, TopFacts
<1>3. Here \in Addresses /\ Inside(Here)
  BY <1>1, <1>2, HereInside
<1>4. "ILI" \in Causes /\ "ILI" \notin Ecalls
  BY DEF Causes, Ecalls
<1> QED
  BY <1>1, <1>2, <1>3, <1>4, BehindTable, TrapKeeps

LEMMA RaisesNothingTypes ==
  ASSUME CInv, TInv, RaisesNothing
  PROVE  TInv'
<1>1. status = "run" /\ Depth > 0
  BY DEF RaisesNothing, InPhase
<1>2. FrameOK(Top) /\ Typed /\ InTest
  BY <1>1, TopFacts
<1>3. Proceed(Top) /\ UNCHANGED <<bound, privs, mie, mip, cause>>
  BY DEF RaisesNothing
<1>4. mstatus' = mstatus \/ mstatus' = Legal((mstatus \ {"SDT"}) \union {"SIE"})
  BY DEF RaisesNothing
<1> PICK ms : ms = (mstatus \ {"SDT"}) \union {"SIE"}
  OBVIOUS
<1>5. ms \subseteq Bits /\ "SDT" \notin ms /\ ("MDT" \in ms <=> "MDT" \in mstatus)
  BY <1>2 DEF Typed, Bits
<1>6. /\ mstatus' \subseteq Bits /\ mstatus' = Legal(mstatus')
      /\ ~dte => "SDT" \notin mstatus'
      /\ "MDT" \in mstatus' <=> "MDT" \in mstatus
  BY <1>2, <1>4, <1>5, LegalFacts DEF Typed
<1>7. epc' = epc \/ epc' = [epc EXCEPT !.m = Garbage]
  BY DEF RaisesNothing
<1>8. epc' \in Epcs /\ Inside(epc'.m) /\ Inside(epc'.s) /\ (~nmie => Inside(epc'.n))
  BY <1>2, <1>7, ConstantPlaces DEF Typed, InTest, Epcs
<1>9. UNCHANGED <<hart, flow, mode, nmie, status>>
  BY <1>3 DEF bound
<1> QED
  BY <1>1, <1>2, <1>3, <1>6, <1>8, <1>9, PhaseTypes DEF privs, Typed

LEMMA AnnounceAgainTypes ==
  ASSUME CInv, TInv, AnnounceAgain
  PROVE  TInv'
<1>1. status = "run" /\ Depth > 0
  BY DEF AnnounceAgain, InPhase
<1>2. FrameOK(Top) /\ Typed /\ InTest
  BY <1>1, TopFacts
<1>3. Proceed(Top) /\ UNCHANGED <<bound, privs, mstatus, mie, mip, epc, cause>>
  BY DEF AnnounceAgain
<1>4. UNCHANGED <<hart, flow, mode, nmie, status>>
  BY <1>3 DEF bound
<1> QED
  BY <1>1, <1>2, <1>3, <1>4, PhaseTypes DEF privs, Typed, InTest, Epcs

LEMMA HandlerTypes ==
  ASSUME CInv, TInv, handler
  PROVE  TInv'
<1>1. status = "run" /\ Depth > 0
  BY DEF handler, InPhase
<1>2. FrameOK(Top) /\ Typed /\ Nests /\ Modes /\ InTest /\ Depth \in 1 .. Depth
  BY <1>1, TopFacts
<1>3. CASE Stop("error")
  BY <1>3, StopTypes
<1>4. CASE ~Stop("error")
  <2> PICK c : c = IF Top.level = "M" THEN cause.m ELSE cause.s
    OBVIOUS
  <2> DEFINE g == [Top EXCEPT !.cause = c, !.epc = IF Top.level = "M" THEN epc.m ELSE epc.s,
                              !.double = double_trap_enabled]
  <2>1. /\ Proceed(g) /\ UNCHANGED <<bound, mstatus, mie, epc, cause>>
        /\ curr_priv' = (IF c \in Ecalls THEN Top.level ELSE curr_priv) /\ real_priv' = curr_priv'
        /\ mip' \subseteq mip
    BY <1>4 DEF handler
  <2>2. FrameOK(g) /\ g.level = Top.level /\ g.table = Top.table /\ g.phase = Top.phase
    BY <1>2 DEF FrameOK, Typed, InTest
  <2> HIDE DEF g
  <2>3. curr_priv' \in Levels /\ real_priv' \in Levels
    BY <1>2, <2>1 DEF Typed, FrameOK, Levels
  <2>4. UNCHANGED <<hart, flow, mode, nmie, status>>
    BY <2>1 DEF bound
  <2> QED
    BY <1>1, <1>2, <2>1, <2>2, <2>3, <2>4, PhaseTypes DEF Typed, InTest, Epcs
<1> QED
  BY <1>3, <1>4

LEMMA ReadNmieTypes ==
  ASSUME CInv, TInv, ReadNmie
  PROVE  TInv'
<1>1. status = "run" /\ Depth > 0
  BY DEF ReadNmie, InPhase
<1>2. /\ test # NoTest /\ FrameOK(Top) /\ Typed /\ InTest
      /\ SetsMDT(test) => vec.m.table
  BY <1>1, TopFacts
<1>3. CASE Top.level = "HS" /\ Raise("ILI", Here)
  <2>1. Raise("ILI", Here) /\ Top.level # "M"
    BY <1>3
  <2>2. Here \in Addresses /\ Inside(Here)
    BY <1>1, <1>2, HereInside
  <2>3. "ILI" \in Causes /\ "ILI" \notin Ecalls
    BY DEF Causes, Ecalls
  <2> QED
    BY <1>1, <1>2, <2>1, <2>2, <2>3, TrapKeeps
<1>4. CASE ~(Top.level = "HS" /\ Raise("ILI", Here))
  <2>1. Proceed(Top) /\ UNCHANGED <<bound, privs, mstatus, mie, mip, epc, cause>>
    BY <1>4 DEF ReadNmie
  <2>2. UNCHANGED <<hart, flow, mode, nmie, status>>
    BY <2>1 DEF bound
  <2> QED
    BY <1>1, <1>2, <2>1, <2>2, PhaseTypes DEF privs, Typed, InTest, Epcs
<1> QED
  BY <1>3, <1>4

LEMMA AdvanceTypes ==
  ASSUME CInv, TInv, AdvanceEpc
  PROVE  TInv'
<1>1. status = "run" /\ Depth > 0
  BY DEF AdvanceEpc, InPhase
<1>2. test \in DOMAIN Scripts /\ test # NoTest /\ FrameOK(Top) /\ Typed /\ InTest
  BY <1>1, TopFacts
<1>3. CASE \E how \in {"error", "astray", "critical"} : Stop(how)
  BY <1>3, StopTypes
<1>4. CASE ~\E how \in {"error", "astray", "critical"} : Stop(how)
  <2>1. /\ Proceed(Top) /\ epc' = Next_epc
        /\ UNCHANGED <<bound, privs, mstatus, mie, mip, cause>>
    BY <1>4 DEF AdvanceEpc
  <2>2. \/ epc' = epc
        \/ epc' = [epc EXCEPT !.m = next_instruction(Top.epc)]
        \/ epc' = [epc EXCEPT !.s = next_instruction(Top.epc)]
        \/ ~nmie /\ epc' = [epc EXCEPT !.n = next_instruction(epc.n)]
    BY <2>1 DEF Next_epc, Own_epc
  <2>3. next_instruction(Top.epc) \in Addresses /\ Inside(next_instruction(Top.epc))
    BY <1>2, NextInside DEF FrameOK
  <2>4. ~nmie => next_instruction(epc.n) \in Addresses /\ Inside(next_instruction(epc.n))
    BY <1>2, NextInside DEF Typed, InTest
  <2>5. epc' \in Epcs /\ Inside(epc'.m) /\ Inside(epc'.s) /\ (~nmie => Inside(epc'.n))
    BY <1>2, <2>2, <2>3, <2>4 DEF Typed, InTest, Epcs
  <2>6. UNCHANGED <<hart, flow, mode, nmie, status>>
    BY <2>1 DEF bound
  <2> QED
    BY <1>1, <1>2, <2>1, <2>5, <2>6, PhaseTypes DEF privs, Typed
<1> QED
  BY <1>3, <1>4

\* What is left of the stack behind a return
LEMMA LeftFrames ==
  ASSUME StackInv, Depth > 0, NEW p \in Int,
         \A i \in 1 .. Depth : FrameOK(frames[i]),
         frames' = IF Depth = 1 THEN SubSeq(frames, 1, Depth - 1)
                   ELSE [SubSeq(frames, 1, Depth - 1) EXCEPT ![Depth - 1].phase = p]
  PROVE  /\ Depth \in Nat /\ Depth' = Depth - 1
         /\ \A i \in 1 .. (Depth - 1) :
              /\ frames'[i].level = frames[i].level /\ frames'[i].table = frames[i].table
              /\ FrameOK(frames'[i])
<1> PICK n : n = Depth - 1
  OBVIOUS
<1>1. PICK S : frames \in Seq(S)
  BY DEF StackInv
<1>2. n \in Nat /\ n < Len(frames) /\ Depth = n + 1 /\ Depth \in Nat
  BY <1>1 DEF Depth
<1> PICK below : below = SubSeq(frames, 1, n)
  OBVIOUS
<1>3. below \in Seq(S) /\ Len(below) = n /\ \A i \in 1 .. n : below[i] = frames[i]
  BY <1>1, <1>2, PrefixFacts
<1> DEFINE h == [below[n] EXCEPT !.phase = p]
<1>4. frames' = IF n = 0 THEN below ELSE [below EXCEPT ![n] = h]
  <2>1. (Depth = 1 <=> n = 0) /\ SubSeq(frames, 1, Depth - 1) = below
    BY <1>2
  <2> QED
    BY <2>1
<1> HIDE DEF h
<1>5. Len(frames') = n
  BY <1>3, <1>4
<1>6. ASSUME NEW i \in 1 .. n
      PROVE  /\ frames'[i].level = frames[i].level /\ frames'[i].table = frames[i].table
             /\ FrameOK(frames'[i])
  <2>1. FrameOK(frames[i]) /\ below[i] = frames[i] /\ n # 0
    BY <1>2, <1>3
  <2>2. frames'[n] = h /\ \A j \in 1 .. n : j # n => frames'[j] = below[j]
    <3>1. n \in 1 .. n
      BY <1>2, <2>1
    <3>2. frames' = [below EXCEPT ![n] = h]
      BY Zenon, <1>4, <2>1
    <3>3. DOMAIN below = 1 .. n
      BY <1>3
    <3>4. frames'[n] = h
      BY <3>1, <3>2, <3>3
    <3>5. ASSUME NEW j \in 1 .. n, j # n PROVE frames'[j] = below[j]
      BY <3>2, <3>3, <3>5
    <3> QED
      BY <3>4, <3>5
  <2>3. CASE i # n
    <3>1. frames'[i] = below[i]
      BY <2>2, <2>3
    <3> QED
      BY <2>1, <3>1
  <2>4. CASE i = n
    <3>1. frames'[i] = [frames[i] EXCEPT !.phase = p]
      BY <2>1, <2>2, <2>4 DEF h
    <3> QED
      BY <2>1, <3>1 DEF FrameOK
  <2> QED
    BY <2>3, <2>4
<1> QED
  BY <1>2, <1>5, <1>6 DEF Depth

LEMMA ReturnTypes ==
  ASSUME CInv, TInv, Return
  PROVE  TInv'
<1>1. status = "run" /\ Depth > 0
  BY DEF Return, InPhase
<1>2. /\ test \in DOMAIN Scripts /\ test # NoTest /\ Depth \in 1 .. Depth
      /\ StackInv /\ Typed /\ Nests /\ Modes /\ InTest
      /\ FrameOK(Top) /\ mode = ModeOf(Top.level)
      /\ SetsMDT(test) => vec.m.table
  BY <1>1, TopFacts
<1>3. CASE \E how \in {"error", "astray", "critical"} : Stop(how)
  BY <1>3, StopTypes
<1>4. CASE ~\E how \in {"error", "astray", "critical"} : Stop(how)
  <2>1. /\ Top.level \in {"HS", "M"}
        /\ Top.table /\ Top.level = "M" /\ ~nmie <=> ~nmie
    BY <1>2 DEF Modes, FrameOK
  <2> PICK to : to = IF ~nmie THEN epc.n ELSE IF Top.level = "M" THEN epc.m ELSE epc.s
    OBVIOUS
  <2> PICK into : into = IF ~nmie THEN "M" ELSE IF Top.level = "M" THEN ModeOf(curr_priv)
                         ELSE IF curr_priv = "HS" THEN "S" ELSE "U"
    OBVIOUS
  <2> PICK gone : gone = IF ~nmie THEN {}
                         ELSE IF Top.level = "M" THEN {"MIE", "MDT"} \union IF into = "U" THEN {"SDT"} ELSE {}
                         ELSE {"SIE", "SDT"}
    OBVIOUS
  <2>2. /\ to.d = Depth - 1 /\ (Depth > 1 => into = ModeOf(frames[Depth - 1].level))
        /\ mode' = into /\ nmie' /\ mstatus' = mstatus \ gone
        /\ frames' = IF Depth = 1 THEN SubSeq(frames, 1, Depth - 1)
                     ELSE [SubSeq(frames, 1, Depth - 1) EXCEPT ![Depth - 1].phase = to.k]
        /\ k' = IF Depth = 1 THEN to.k ELSE k
        /\ UNCHANGED <<dte, vec, deleg, test, curr_priv, real_priv, mie, mip, epc, cause, status>>
    <3>1. CASE ~nmie
      BY <1>4, <2>1, <3>1 DEF Return, hart, privs
    <3>2. CASE nmie /\ Top.level = "M"
      BY <1>4, <2>1, <3>2 DEF Return, hart, privs
    <3>3. CASE nmie /\ Top.level = "HS"
      BY <1>4, <2>1, <3>3 DEF Return, hart, privs
    <3> QED
      BY <2>1, <3>1, <3>2, <3>3
  <2>3. to \in Addresses /\ Inside(to) /\ to.k \in Int
    BY <1>2 DEF Typed, InTest, Addresses
  <2>4. /\ Depth \in Nat /\ Depth' = Depth - 1
        /\ \A i \in 1 .. (Depth - 1) :
             /\ frames'[i].level = frames[i].level /\ frames'[i].table = frames[i].table
             /\ FrameOK(frames'[i])
    BY <1>1, <1>2, <2>2, <2>3, LeftFrames DEF Nests
  <2>5. into \in {"U", "S", "M"}
    BY <1>2 DEF ModeOf, Typed, Levels
  <2>6. Typed'
    <3>1. mstatus' \subseteq Bits /\ mstatus' = Legal(mstatus') /\ (~dte => "SDT" \notin mstatus')
      BY <1>2, <2>2 DEF Typed, Legal
    <3> QED
      BY <1>2, <2>2, <2>5, <3>1 DEF Typed
  <2>7. "MDT" \in mstatus' => ~nmie
    <3> SUFFICES ASSUME "MDT" \in mstatus', nmie PROVE FALSE
      OBVIOUS
    <3>1. "MDT" \in mstatus /\ Top.level = "HS"
      BY <2>1, <2>2
    <3> QED
      BY <1>2, <3>1 DEF Modes, ModeOf
  <2>8. ASSUME NEW i \in 1 .. (Depth - 1), frames[i].level = "M"
        PROVE  i = Depth - 1 /\ frames[i].table /\ ~nmie /\ Top.level = "M"
    <3>1. i + 1 \in 2 .. Depth /\ (i + 1) - 1 = i /\ i \in 1 .. Depth /\ i # Depth
      BY <2>4
    <3>2. frames[i + 1].level = "M" /\ i + 1 = Depth /\ ~nmie
      BY <1>2, <2>8, <3>1 DEF Nests
    <3>3. frames[i].table
      BY <1>2, <2>8, <3>1 DEF Nests
    <3> QED
      BY <3>1, <3>2, <3>3 DEF Top
  <2>9. Nests'
    <3>1. \A i \in 1 .. (Depth - 1) : FrameOK(frames[i])'
      <4>1. \A f : FrameOK(f) => FrameOK(f)'
        BY <2>2 DEF FrameOK, Inside
      <4> QED
        BY <2>4, <4>1
    <3>2. \A i \in 2 .. (Depth - 1) : frames'[i - 1].level # "M"
      <4> SUFFICES ASSUME NEW i \in 2 .. (Depth - 1), frames'[i - 1].level = "M" PROVE FALSE
        OBVIOUS
      <4>1. i - 1 \in 1 .. (Depth - 1) /\ i - 1 # Depth - 1
        BY <2>4
      <4> QED
        BY <2>4, <2>8, <4>1
    <3>3. \A i \in 1 .. (Depth - 1) : frames'[i].level = "M" => frames'[i].table = vec.m.table /\ frames'[i].table
      <4> SUFFICES ASSUME NEW i \in 1 .. (Depth - 1), frames'[i].level = "M"
                   PROVE  frames'[i].table = vec.m.table /\ frames'[i].table
        OBVIOUS
      <4>1. i \in 1 .. Depth /\ frames[i].level = "M" /\ frames'[i].table = frames[i].table
        BY <2>4
      <4>2. frames[i].table = vec.m.table
        BY <1>2, <4>1 DEF Nests
      <4>3. frames[i].table
        BY <2>8, <4>1
      <4> QED
        BY <4>1, <4>2, <4>3
    <3> QED
      BY <2>2, <2>4, <3>1, <3>2, <3>3 DEF Nests
  <2>10. Modes'
    <3>1. Depth' > 0 => mode' = ModeOf(Top'.level)
      <4> SUFFICES ASSUME Depth' > 0 PROVE mode' = ModeOf(Top'.level)
        OBVIOUS
      <4>1. Top' = frames'[Depth - 1] /\ Depth - 1 \in 1 .. (Depth - 1)
        BY <2>4 DEF Top
      <4>2. Top'.level = frames[Depth - 1].level
        BY <2>4, <4>1
      <4> QED
        BY <2>2, <2>4, <4>2
    <3>2. "MDT" \in mstatus' => mode' = "M"
      BY <2>2, <2>7
    <3>3. Depth' > 0 /\ Top'.level = "M" => "MDT" \in mstatus'
      <4> SUFFICES ASSUME Depth' > 0, Top'.level = "M" PROVE "MDT" \in mstatus'
        OBVIOUS
      <4>1. Top' = frames'[Depth - 1] /\ Depth - 1 \in 1 .. (Depth - 1)
        BY <2>4 DEF Top
      <4>2. frames[Depth - 1].level = "M"
        BY <2>4, <4>1
      <4>3. ~nmie /\ Top.level = "M"
        BY <2>8, <4>1, <4>2
      <4>4. "MDT" \in mstatus
        BY <1>1, <1>2, <4>3 DEF Modes
      <4> QED
        BY <2>2, <4>3, <4>4
    <3> QED
      BY <2>2, <3>1, <3>2, <3>3 DEF Modes
  <2>11. InTest'
    <3>1. k' \in 1 .. 2 * Len(Scripts[test])
      BY <1>2, <2>2, <2>3, <2>4 DEF InTest, Inside
    <3>2. ~nmie => vec.m.table
      BY <1>2 DEF Modes, Nests, Top
    <3>3. ~vec.m.table => "MDT" \notin mstatus' /\ ~SetsMDT(test)
      BY <1>2, <2>7, <3>2
    <3>4. Armed'
      BY <2>2, <3>3 DEF Armed, SetsMDT
    <3> QED
      BY <1>2, <2>2, <3>1, <3>4 DEF InTest, Inside
  <2> QED
    BY <1>2, <2>2, <2>6, <2>9, <2>10, <2>11 DEF TInv, Runs
<1> QED
  BY <1>3, <1>4

-----------------------------------------------------------------------------
(***************************************************************************)
(* The steps of a test.                                                    *)
(***************************************************************************)
AtStep(s) ==
  /\ status = "run" /\ Taken = {} /\ Depth = 0 /\ test # NoTest
  /\ s = Scripts[test][(k + 1) \div 2]

LEMMA StepState ==
  ASSUME CInv, TInv, NEW s, AtStep(s)
  PROVE  /\ test \in DOMAIN Scripts /\ status = "run" /\ Depth = 0 /\ test # NoTest
         /\ StackInv /\ VecInv /\ Typed /\ Nests /\ Modes /\ InTest
         /\ nmie
         /\ k \in 1 .. 2 * Len(Scripts[test]) /\ (k + 1) \div 2 \in DOMAIN Scripts[test]
         /\ s \in Steps /\ (s.op # "reset" => k + 2 \in 1 .. 2 * Len(Scripts[test]))
<1>1. test \in DOMAIN Scripts /\ status = "run" /\ Depth = 0 /\ test # NoTest
      /\ StackInv /\ VecInv /\ Typed /\ Nests /\ Modes /\ InTest
  BY DEF AtStep, CInv, TInv, Runs, Typed
<1>2. nmie
  BY <1>1 DEF Modes
<1>3. k \in 1 .. 2 * Len(Scripts[test])
  BY <1>1 DEF InTest
<1> QED
  BY <1>1, <1>2, <1>3, StepFacts DEF AtStep

\* Before its mtvec a test that sets MDT does nothing that traps.
LEMMA BeforeTable ==
  ASSUME CInv, TInv, NEW s, AtStep(s), ~vec.m.table, SetsMDT(test)
  PROVE  ~CanTrap(s) /\ real_priv = "M" /\ mode = "M" /\ mip = {}
<1>1. InTest /\ Modes /\ Depth = 0 /\ test \in DOMAIN Scripts
  BY StepState
<1>2. real_priv = "M" /\ mode = "M" /\ mip = {}
      /\ \A i \in DOMAIN Scripts[test] : Scripts[test][i].op = "mtvec" => k <= 2 * i
  BY <1>1 DEF InTest, Armed
<1>3. ASSUME CanTrap(s) PROVE FALSE
  <2> PICK j : j = (k + 1) \div 2
    OBVIOUS
  <2>1. j \in DOMAIN Scripts[test] /\ s = Scripts[test][j] /\ k \in 1 .. 2 * Len(Scripts[test])
    BY StepState DEF AtStep
  <2>2. PICK i \in 1 .. (j - 1) : Scripts[test][i].op = "mtvec"
    BY <1>1, <1>3, <2>1, ScriptsAssumption
  <2>3. DOMAIN Scripts[test] = 1 .. Len(Scripts[test]) /\ Len(Scripts[test]) \in Nat
    BY <1>1, TrapVectorsAssumption
  <2>4. i \in DOMAIN Scripts[test]
    BY <2>1, <2>2, <2>3
  <2>5. k <= 2 * i
    BY <1>2, <2>2, <2>4
  <2> QED
    BY <2>1, <2>3, <2>2, <2>5
<1> QED
  BY <1>2, <1>3

\* A step that goes on to the next
LEMMA MoveTypes ==
  ASSUME CInv, TInv, NEW s, AtStep(s), MoveOn, s.op # "reset", Typed',
         "MDT" \in mstatus' => mode' = "M",
         Inside(epc'.m), Inside(epc'.s),
         ~vec'.m.table =>
           /\ ~vec.m.table /\ s.op # "mtvec"
           /\ "MDT" \in mstatus' => "MDT" \in mstatus \/ SetsMDT(test)
           /\ SetsMDT(test) => mode' = "M" /\ real_priv' = "M" /\ mip' = {}
  PROVE  TInv'
<1>1. /\ test \in DOMAIN Scripts /\ Depth = 0 /\ test # NoTest /\ nmie
      /\ StackInv /\ Nests /\ Modes /\ InTest
      /\ k \in 1 .. 2 * Len(Scripts[test]) /\ (k + 1) \div 2 \in DOMAIN Scripts[test]
      /\ k + 2 \in 1 .. 2 * Len(Scripts[test])
  BY StepState
<1>2. /\ k' = k + 2 /\ UNCHANGED <<dte, test, ran, nmie, frames, status>>
  BY DEF MoveOn
<1>3. Depth' = 0
  BY <1>1, <1>2 DEF Depth
<1>4. Nests'
  BY <1>3 DEF Nests
<1>5. Modes'
  BY <1>1, <1>2, <1>3 DEF Modes
<1>6. Armed'
  <2> SUFFICES ASSUME ~vec'.m.table
               PROVE  /\ "MDT" \in mstatus' => SetsMDT(test)
                      /\ SetsMDT(test) =>
                           /\ mode' = "M" /\ real_priv' = "M" /\ mip' = {}
                           /\ \A i \in DOMAIN Scripts[test] : Scripts[test][i].op = "mtvec" => k + 2 <= 2 * i
    BY <1>2, <1>3 DEF Armed, SetsMDT
  <2>1. ~vec.m.table /\ s.op # "mtvec"
    OBVIOUS
  <2>2. "MDT" \in mstatus' => SetsMDT(test)
    BY <1>1, <2>1 DEF InTest, Armed
  <2>3. ASSUME SetsMDT(test), NEW i \in DOMAIN Scripts[test], Scripts[test][i].op = "mtvec"
        PROVE  k + 2 <= 2 * i
    <3>1. k <= 2 * i
      BY <1>1, <2>1, <2>3 DEF InTest, Armed
    <3>2. i # (k + 1) \div 2
      BY <2>1, <2>3 DEF AtStep
    <3>3. DOMAIN Scripts[test] = 1 .. Len(Scripts[test]) /\ Len(Scripts[test]) \in Nat
      BY <1>1, TrapVectorsAssumption
    <3>4. i \in Int /\ k \in Int
      BY <1>1, <3>3
    <3> QED
      BY <3>1, <3>2, <3>4, Behind
  <2> QED
    BY <2>2, <2>3
<1>7. InTest'
  BY <1>1, <1>2, <1>6 DEF InTest, Inside
<1> QED
  BY <1>1, <1>2, <1>4, <1>5, <1>7 DEF TInv, Runs

LEMMA IllegalTypes ==
  ASSUME CInv, TInv, NEW s, AtStep(s), Illegal(s)
  PROVE  TInv'
<1>1. status = "run" /\ test # NoTest /\ Depth = 0
  BY StepState
<1>2. SetsMDT(test) => vec.m.table
  <2> SUFFICES ASSUME SetsMDT(test), ~vec.m.table PROVE FALSE
    OBVIOUS
  <2>1. ~CanTrap(s) /\ mode = "M"
    BY BeforeTable
  <2> QED
    BY <2>1 DEF Illegal, Forbidden, CanTrap
<1>3. Here \in Addresses /\ Inside(Here) /\ Raise("ILI", Here)
  BY <1>1, HereInside DEF Illegal
<1>4. "ILI" \in Causes /\ "ILI" \notin Ecalls
  BY DEF Causes, Ecalls
<1> QED
  BY <1>1, <1>2, <1>3, <1>4, TrapKeeps

LEMMA GotoTypes ==
  ASSUME CInv, TInv, NEW s, AtStep(s), goto_priv(s)
  PROVE  TInv'
<1>1. /\ test \in DOMAIN Scripts /\ status = "run" /\ Depth = 0 /\ test # NoTest
      /\ Typed /\ Modes /\ InTest /\ nmie /\ s \in Steps
      /\ k \in 1 .. 2 * Len(Scripts[test])
  BY StepState
<1>2. Here \in Addresses /\ Inside(Here)
  BY <1>1, HereInside
<1> PICK from : from = [d |-> 0, k |-> 2 * ((k + 1) \div 2) - 1]
  OBVIOUS
<1>3. from \in Addresses /\ Inside(from)
  <2> PICK j \in Int : j = (k + 1) \div 2
    BY <1>1
  <2>1. 2 * j <= k + 1 /\ k <= 2 * j
    BY <1>1
  <2>2. 2 * j - 1 \in 1 .. 2 * Len(Scripts[test])
    BY <1>1, <2>1, TrapVectorsAssumption
  <2> QED
    BY <2>2 DEF Addresses, Inside
\* an ecall
<1>4. CASE real_priv # "M" /\ \E c \in Ecalls : Raise(c, from)
  <2>1. PICK c \in Ecalls : Raise(c, from)
    BY <1>4
  <2>2. c \in Causes
    BY DEF Causes
  <2>3. SetsMDT(test) => vec.m.table
    BY <1>4, BeforeTable
  <2> QED
    BY <1>1, <1>3, <2>1, <2>2, <2>3, TrapKeeps
\* there already
<1>5. CASE /\ s.op = "goto" /\ s.to = real_priv /\ MoveOn
           /\ UNCHANGED <<curr_priv, real_priv, mode, mstatus, vec, deleg, cause, mie, mip, epc>>
  <2>1. UNCHANGED <<dte, test, nmie, frames, status>>
    BY <1>5 DEF MoveOn
  <2>2. Typed'
    BY <1>1, <1>5, <2>1 DEF Typed
  <2>3. ~vec.m.table /\ SetsMDT(test) => mode = "M" /\ real_priv = "M" /\ mip = {}
    BY BeforeTable
  <2> QED
    BY <1>1, <1>5, <2>1, <2>2, <2>3, MoveTypes DEF Modes, InTest
<1>6. CASE /\ s.op = "goto" /\ s.to # real_priv /\ MoveOn /\ lower_priv(s.to)
           /\ UNCHANGED <<curr_priv, vec, deleg, cause, mie, mip>>
  <2>1. UNCHANGED <<dte, test, nmie, frames, status>>
    BY <1>6 DEF MoveOn
  <2>2. next_instruction(Here) \in Addresses /\ Inside(next_instruction(Here))
    BY <1>1, <1>2, NextInside
  <2>3. s.to \in Levels
    BY <1>1, <1>6, StepTypes
  <2>4. /\ real_priv' = s.to /\ mode' = ModeOf(s.to)
        /\ epc' = [epc EXCEPT !.m = next_instruction(Here)]
        /\ mstatus' = mstatus \ ({"MIE", "MDT"} \union IF s.to = "HU" THEN {"SDT"} ELSE {})
    BY <1>6 DEF lower_priv
  <2>5. mode' \in {"U", "S", "M"}
    BY <2>3, <2>4 DEF ModeOf, Levels
  <2>6. /\ mstatus' \subseteq Bits /\ mstatus' = Legal(mstatus') /\ (~dte => "SDT" \notin mstatus')
        /\ "MDT" \notin mstatus'
    BY <1>1, <2>4 DEF Typed, Legal
  <2>7. epc' \in Epcs /\ Inside(epc'.m) /\ Inside(epc'.s)
    BY <1>1, <2>2, <2>4 DEF Typed, InTest, Epcs
  <2>8. Typed'
    BY <1>1, <1>6, <2>1, <2>3, <2>4, <2>5, <2>6, <2>7 DEF Typed, Epcs
  <2>9. ~vec.m.table /\ SetsMDT(test) => FALSE
    <3> SUFFICES ASSUME ~vec.m.table, SetsMDT(test) PROVE FALSE
      OBVIOUS
    <3>1. ~CanTrap(s) /\ real_priv = "M"
      BY BeforeTable
    <3> QED
      BY <1>6, <3>1 DEF CanTrap
  <2> QED
    BY <1>6, <2>1, <2>6, <2>7, <2>8, <2>9, MoveTypes
<1>7. \/ real_priv # "M" /\ \E c \in Ecalls : Raise(c, from)
      \/ /\ s.op = "goto" /\ s.to = real_priv /\ MoveOn
         /\ UNCHANGED <<curr_priv, real_priv, mode, mstatus, vec, deleg, cause, mie, mip, epc>>
      \/ /\ s.op = "goto" /\ s.to # real_priv /\ MoveOn /\ lower_priv(s.to)
         /\ UNCHANGED <<curr_priv, vec, deleg, cause, mie, mip>>
  BY DEF goto_priv, Ecalls
<1> QED
  BY <1>4, <1>5, <1>6, <1>7

LEMMA ArriveTypes ==
  ASSUME CInv, TInv, NEW s, AtStep(s), Arrive(s)
  PROVE  TInv'
<1>1. Typed /\ Modes /\ InTest /\ s \in Steps
  BY StepState
<1>2. /\ MoveOn /\ s.op = "arrive" /\ curr_priv' = s.to
      /\ UNCHANGED <<dte, test, nmie, frames, status, vec, deleg, real_priv, mode, cause, mstatus, mie, mip, epc>>
  BY DEF Arrive, MoveOn
<1>3. Typed'
  BY <1>1, <1>2, StepTypes DEF Typed
<1>4. ~vec.m.table /\ SetsMDT(test) => mode = "M" /\ real_priv = "M" /\ mip = {}
  BY BeforeTable
<1> QED
  BY <1>1, <1>2, <1>3, <1>4, MoveTypes DEF Modes, InTest

LEMMA WriteCsrTypes ==
  ASSUME CInv, TInv, NEW s, AtStep(s), WriteCsr(s)
  PROVE  TInv'
<1>1. /\ test \in DOMAIN Scripts /\ status = "run" /\ Depth = 0 /\ test # NoTest
      /\ VecInv /\ Typed /\ Modes /\ InTest /\ nmie /\ s \in Steps
  BY StepState
<1>2. /\ MoveOn /\ s.op # "reset" /\ s.op \notin Forbidden
      /\ UNCHANGED <<curr_priv, real_priv, mode, cause, epc, dte, test, nmie, frames, status>>
  BY DEF WriteCsr, MoveOn, level, privs, MCsrs, SCsrs
<1>3. /\ s.op = "mstatus" => s.bits \in SUBSET Bits
      /\ s.op \in {"enable", "pend", "spend", "deleg"} => s.int \in Ints
  BY <1>1, StepTypes
<1>4. mie' \subseteq Ints /\ mip' \subseteq Ints /\ deleg' \subseteq Ints \union {"ECU", "ILI"}
  <2>1. mie' \subseteq Ints
    BY <1>1, <1>3 DEF WriteCsr, Typed
  <2>2. mip' \subseteq Ints
    BY <1>1, <1>3 DEF WriteCsr, Typed
  <2>3. deleg' \subseteq Ints \union {"ECU", "ILI"}
    BY <1>1, <1>3 DEF WriteCsr, Typed
  <2> QED
    BY <2>1, <2>2, <2>3
<1>5. /\ mstatus' \subseteq Bits /\ mstatus' = Legal(mstatus') /\ (~dte => "SDT" \notin mstatus')
      /\ "MDT" \in mstatus' => "MDT" \in mstatus \/ (s.op = "mstatus" /\ "MDT" \in s.bits)
  <2>1. CASE s.op # "mstatus"
    BY <1>1, <2>1 DEF WriteCsr, Typed
  <2>2. CASE s.op = "mstatus"
    <3> PICK ms : ms = mstatus \union (s.bits \ IF dte THEN {} ELSE {"SDT"})
      OBVIOUS
    <3>1. mstatus' = Legal(ms)
      BY <2>2 DEF WriteCsr
    <3>2. ms \subseteq Bits /\ (~dte => "SDT" \notin ms) /\ ("MDT" \in ms => "MDT" \in mstatus \/ "MDT" \in s.bits)
      BY <1>1, <1>3, <2>2 DEF Typed
    <3> QED
      BY <2>2, <3>1, <3>2, LegalFacts
  <2> QED
    BY <2>1, <2>2
<1>6. Typed'
  BY <1>1, <1>2, <1>4, <1>5 DEF Typed
<1>7. "MDT" \in mstatus' => mode = "M"
  <2>1. s.op = "mstatus" => mode = "M"
    BY <1>2 DEF Forbidden, MCsrs
  <2> QED
    BY <1>1, <1>5, <2>1 DEF Modes
<1>8. s.op = "mstatus" /\ "MDT" \in s.bits => SetsMDT(test)
  <2>1. (k + 1) \div 2 \in DOMAIN Scripts[test] /\ s = Scripts[test][(k + 1) \div 2]
    BY StepState DEF AtStep
  <2> QED
    BY <2>1 DEF SetsMDT
<1>9. vec' = IF s.op = "mtvec" THEN [vec EXCEPT !.m = [table |-> TRUE, vectored |-> s.vectored]]
             ELSE IF s.op = "stvec" THEN [vec EXCEPT !.s = [table |-> TRUE, vectored |-> s.vectored]]
             ELSE vec
  BY DEF WriteCsr
<1>10. ~vec'.m.table => ~vec.m.table /\ s.op # "mtvec"
  BY <1>1, <1>9 DEF VecInv
<1>11. ASSUME ~vec.m.table, SetsMDT(test) PROVE mode = "M" /\ real_priv = "M" /\ mip' = {}
  <2>1. ~CanTrap(s) /\ mode = "M" /\ real_priv = "M" /\ mip = {}
    BY <1>11, BeforeTable
  <2>2. mip' = mip
    BY <2>1 DEF WriteCsr, CanTrap
  <2> QED
    BY <2>1, <2>2
<1> QED
  BY <1>1, <1>2, <1>5, <1>6, <1>7, <1>8, <1>10, <1>11, MoveTypes DEF InTest

\* What the harness does in its own variables
LEMMA HarnessStepTypes ==
  ASSUME CInv, TInv, NEW s, AtStep(s), s.op # "reset", MoveOn,
         UNCHANGED <<vec, deleg, level, mstatus, mie, mip, epc>>, s.op # "mtvec"
  PROVE  TInv'
<1>1. Typed /\ Modes /\ InTest
  BY StepState
<1>2. UNCHANGED <<dte, test, nmie, frames, status, vec, deleg, curr_priv, real_priv, mode, cause, mstatus, mie, mip, epc>>
  BY DEF MoveOn, level, privs
<1>3. Typed'
  BY <1>1, <1>2 DEF Typed
<1>4. ~vec.m.table /\ SetsMDT(test) => mode = "M" /\ real_priv = "M" /\ mip = {}
  BY BeforeTable
<1> QED
  BY <1>1, <1>2, <1>3, <1>4, MoveTypes DEF Modes, InTest

LEMMA ResetTypes ==
  ASSUME CInv, TInv, NEW s, AtStep(s), reset_state(s)
  PROVE  TInv'
<1>1. status = "run" /\ Depth = 0 /\ Typed /\ Modes /\ nmie
  BY StepState
<1>2. CASE mode # "M"
  <2>1. Stop("astray")
    BY <1>2 DEF reset_state
  <2> QED
    BY <2>1, StopTypes
<1>3. CASE mode = "M"
  <2>1. /\ mstatus' = {} /\ mie' = {} /\ mip' = {} /\ deleg' = {"ECU"}
        /\ epc' = [epc EXCEPT !.m = Nowhere, !.s = Nowhere]
        /\ cause' = [cause EXCEPT !.s = "none"]
        /\ test' = NoTest /\ k' = 2 /\ curr_priv' = "M" /\ real_priv = "M"
        /\ UNCHANGED <<dte, real_priv, mode, nmie, frames, status>>
    BY <1>3 DEF reset_state
  <2>2. epc' \in Epcs /\ epc'.m = Nowhere /\ epc'.s = Nowhere
    BY <1>1, <2>1, ConstantPlaces DEF Typed, Epcs
  <2>3. Typed'
    <3>1. {} = Legal({})
      BY DEF Legal
    <3> QED
      BY <1>1, <2>1, <2>2, <3>1 DEF Typed, Epcs, Levels
  <2>4. Depth' = 0
    BY <1>1, <2>1 DEF Depth
  <2>5. Nests' /\ Modes'
    BY <1>1, <2>1, <2>4 DEF Nests, Modes
  <2>6. Idle'
    BY <1>3, <2>1, <2>2, <2>4 DEF Idle
  <2> QED
    BY <2>1, <2>3, <2>5, <2>6 DEF TInv, Runs
<1> QED
  BY <1>2, <1>3

LEMMA TakeTypes ==
  ASSUME CInv, TInv, NEW s, AtStep(s), Take(s)
  PROVE  TInv'
<1>1. CASE goto_priv(s)
  BY <1>1, GotoTypes
<1>2. CASE Illegal(s)
  BY <1>2, IllegalTypes
<1>3. CASE WriteCsr(s)
  BY <1>3, WriteCsrTypes
<1>4. CASE Prepare(s)
  BY <1>4, HarnessStepTypes DEF Prepare
<1>5. CASE TestAssert(s)
  BY <1>5, HarnessStepTypes DEF TestAssert
<1>6. CASE reset_state(s)
  BY <1>6, ResetTypes
<1>7. CASE Arrive(s)
  BY <1>7, ArriveTypes
<1> QED
  BY <1>1, <1>2, <1>3, <1>4, <1>5, <1>6, <1>7 DEF Take

-----------------------------------------------------------------------------
LEMMA InterruptTypes ==
  ASSUME CInv, TInv, Interrupt
  PROVE  TInv'
<1>1. status = "run" /\ Nests /\ Modes /\ Typed /\ StackInv /\ (IF test = NoTest THEN Idle ELSE InTest)
  BY DEF Interrupt, TInv, Runs, CInv
<1>2. PICK i \in Taken : Raise(i, Here)
  BY DEF Interrupt
<1>3. i \in ToM \union ToS /\ i \in mip /\ i \in mie /\ i \in Ints
  BY <1>1, <1>2 DEF Taken, ToM, ToS, Typed
<1>4. test # NoTest
  BY <1>1, <1>3 DEF Idle
<1>5. Here \in Addresses /\ Inside(Here)
  BY <1>1, <1>4, HereInside
<1>6. i \in Causes /\ i \notin Ecalls
  BY <1>3 DEF Causes, Ecalls, Ints
<1>7. "MDT" \notin mstatus \/ mode # "M"
  <2> SUFFICES ASSUME "MDT" \in mstatus, mode = "M" PROVE FALSE
    OBVIOUS
  <2>1. "MIE" \notin mstatus
    BY <1>1 DEF Typed, Legal
  <2> QED
    BY <1>3, <2>1 DEF ToM, ToS
<1>8. ~(Depth > 0 /\ Top.level = "M")
  <2> SUFFICES ASSUME Depth > 0, Top.level = "M" PROVE FALSE
    OBVIOUS
  <2>1. "MDT" \in mstatus /\ mode = "M"
    BY <1>1 DEF Modes
  <2> QED
    BY <1>7, <2>1
<1>9. SetsMDT(test) => vec.m.table
  BY <1>1, <1>3, <1>4 DEF InTest, Armed
<1> QED
  BY <1>1, <1>2, <1>4, <1>5, <1>6, <1>8, <1>9, TrapKeeps

LEMMA MainTypes ==
  ASSUME CInv, TInv, main
  PROVE  TInv'
<1>1. Typed /\ Nests /\ Modes /\ Idle /\ status = "run"
  BY DEF main, TInv, Runs
<1>2. /\ test' \in DOMAIN Scripts
      /\ UNCHANGED <<dte, vec, deleg, k, curr_priv, real_priv, mode, mstatus, nmie, mie, mip, epc, cause, frames, status>>
  BY DEF main, hart, privs
<1>3. Typed'
  BY <1>1, <1>2 DEF Typed
<1>4. Depth' = 0
  BY <1>1, <1>2 DEF Depth, Idle
<1>5. Nests' /\ Modes'
  BY <1>1, <1>2, <1>4 DEF Nests, Modes, Idle
<1>6. test' # NoTest
  BY <1>2, TrapVectorsAssumption
<1>7. Scripts[test'] \in Seq(Steps) /\ Scripts[test'] # <<>>
  BY <1>2, TrapVectorsAssumption, ScriptsAssumption
<1>8. k' = 2 /\ k' \in 1 .. 2 * Len(Scripts[test'])
  <2>1. Len(Scripts[test']) \in Nat /\ Len(Scripts[test']) # 0
    BY <1>7
  <2> QED
    BY <1>1, <1>2, <2>1 DEF Idle
<1>9. nmie
  BY <1>1 DEF Modes, Idle
<1>10. Armed'
  <2>1. \A i \in DOMAIN Scripts[test'] : k' <= 2 * i
    BY <1>7, <1>8
  <2> QED
    BY <1>1, <1>2, <1>4, <2>1 DEF Armed, Idle
<1>11. InTest'
  BY <1>1, <1>2, <1>8, <1>9, <1>10 DEF InTest, Idle, Inside, Nowhere
<1> QED
  BY <1>3, <1>5, <1>6, <1>11 DEF TInv, Runs

LEMMA NextTypes == CInv /\ TInv /\ [Next]_vars => TInv'
<1> SUFFICES ASSUME CInv, TInv, [Next]_vars PROVE TInv'
  OBVIOUS
<1>1. CASE UNCHANGED vars
  <2>1. UNCHANGED <<dte, vec, deleg, test, k, curr_priv, real_priv, mode, mstatus, nmie, mie, mip, epc, cause, frames, status>>
    BY <1>1 DEF vars, hart, flow, privs
  <2> QED
    BY <2>1 DEF TInv, Runs, Typed, Nests, Modes, Idle, InTest, Armed, FrameOK, Inside, Depth, Top, SetsMDT
<1>2. CASE Interrupt
  BY <1>2, InterruptTypes
<1>3. CASE InHandler
  BY <1>3, EntryTypes, RaisesInterruptTypes, RaisesExceptionTypes, RaisesNothingTypes, AnnounceAgainTypes,
     HandlerTypes, ReadNmieTypes, AdvanceTypes, ReturnTypes DEF InHandler
<1>4. CASE \E s \in Upcoming : Take(s)
  <2>1. PICK s \in Upcoming : Take(s)
    BY <1>4
  <2>2. AtStep(s)
    BY DEF Upcoming, AtStep
  <2> QED
    BY <2>1, <2>2, TakeTypes
<1>5. CASE main
  BY <1>5, MainTypes
<1> QED
  BY <1>1, <1>2, <1>3, <1>4, <1>5 DEF Next

LEMMA InitTypes == Init => CInv /\ TInv
<1> SUFFICES ASSUME Init PROVE CInv /\ TInv
  OBVIOUS
<1>1. vec = DirectVec /\ DOMAIN vec = {"m", "s"}
  BY DEF Init, DirectVec
<1>2. VecInv
  BY <1>1 DEF VecInv, DirectVec
<1>3. CInv
  BY <1>2, InitStack DEF CInv
<1>4. Typed
  <2>1. epc \in Epcs
    BY ConstantPlaces DEF Init, Epcs
  <2>2. mstatus = Legal(mstatus)
    BY DEF Init, Legal
  <2>3. DOMAIN cause = {"m", "s"}
    BY DEF Init
  <2> QED
    BY <2>1, <2>2, <2>3 DEF Init, Typed, Epcs, Levels
<1>5. Depth = 0
  BY DEF Init, Depth
<1>6. Nests
  BY <1>5 DEF Nests
<1>7. Modes
  BY <1>5 DEF Init, Modes, ModeOf
<1>8. test = NoTest /\ Idle
  BY <1>5 DEF Init, Idle
<1> QED
  BY <1>3, <1>4, <1>6, <1>7, <1>8 DEF TInv, Runs

\* For every program of tests that write mtvec before they set MDT and trap, however
\* traps come: nothing but an RNMI, and only one, comes on top of an M handler, every
\* handler runs in its mode, and the return to the test finds an instruction of it.
THEOREM TrapsNest == Spec => []TInv
<1>1. CInv /\ TInv /\ [Next]_vars => CInv' /\ TInv'
  BY NextTypes, StepKeeps
<1> QED
  BY <1>1, InitTypes, PTL DEF Spec

\* Types; and until something goes astray the C code of a handler is in its mode, and the
\* stack pointer is where the traps being handled have left it.
THEOREM VectorTypes == Spec => []TypeOK
<1>1. CInv /\ TInv => TypeOK
  <2> SUFFICES ASSUME CInv, TInv PROVE TypeOK
    OBVIOUS
  <2>1. Typed /\ (status = "run" => Modes)
    BY DEF TInv, Runs
  <2>2. regs[2] = 0 - (Words + CFrame) * Depth /\ Depth \in Nat
    BY DepthNat DEF CInv, StackInv
  <2>3. regs[2] = -(Words + CFrame) * Depth
    BY <2>2 DEF Words, CFrame
  <2> QED
    BY <2>1, <2>3 DEF TypeOK, Typed, Modes
<1>2. CInv /\ TInv /\ [Next]_vars => CInv' /\ TInv'
  BY NextTypes, StepKeeps
<1> QED
  BY <1>1, <1>2, InitTypes, PTL DEF Spec
===============================================================================
