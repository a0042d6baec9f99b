--------------------------- MODULE PrivSwitchProofs ---------------------------
(***************************************************************************)
(* Proofs about PrivSwitch for every value of its constants.  Without any  *)
(* condition: the types, and how the calls nest, which makes two of the    *)
(* harness' errors dead code.  For a test that keeps to the supported      *)
(* switches: that test code always runs where the harness says it does.    *)
(***************************************************************************)
EXTENDS PrivSwitchInv, SequenceTheorems, TLAPS

-----------------------------------------------------------------------------
(***************************************************************************)
(* Lemmas about the control stack: what a call, a return and a change of   *)
(* the running frame's pc do to the frames.                                *)
(***************************************************************************)

LEMMA PrefixFacts ==
  ASSUME NEW S, NEW s \in Seq(S), NEW n \in Nat, n < Len(s)
  PROVE  /\ SubSeq(s, 1, n) \in Seq(S)
         /\ Len(SubSeq(s, 1, n)) = n
         /\ \A i \in 1..n : SubSeq(s, 1, n)[i] = s[i]
  OBVIOUS

LEMMA LenCases ==
  ASSUME NEW S, NEW s \in Seq(S), s # <<>>
  PROVE  (Len(s) = 1 \/ Len(s) > 1) /\ (Len(s) > 1 => Len(s) # 1)
<1>1. PICK n \in Nat : n = Len(s) /\ n > 0
  OBVIOUS
<1> QED
  BY <1>1

\* A return removes the running frame only.
LEMMA PopFacts ==
  ASSUME NEW S, NEW s \in Seq(S), s # <<>>
  PROVE  /\ Front(s) \in Seq(S)
         /\ Len(Front(s)) = Len(s) - 1
         /\ \A i \in 1..(Len(s) - 1) : Front(s)[i] = s[i]
         /\ Front(s) = <<>> <=> Len(s) = 1
         /\ Len(s) > 1 => Last(Front(s)) = s[Len(s) - 1]
<1>1. Len(s) \in Nat /\ Len(s) > 0
  OBVIOUS
<1> DEFINE n == Len(s) - 1
<1>2. n \in Nat /\ n < Len(s)
  BY <1>1
<1> HIDE DEF n
<1>3. /\ SubSeq(s, 1, n) \in Seq(S)
      /\ Len(SubSeq(s, 1, n)) = n
      /\ \A i \in 1..n : SubSeq(s, 1, n)[i] = s[i]
  BY <1>2, PrefixFacts
<1>4. Front(s) = SubSeq(s, 1, n)
  BY DEF Front, n
<1>5. SubSeq(s, 1, n) = <<>> <=> n = 0
  BY <1>2, <1>3
<1>6. n > 0 => Last(Front(s)) = s[n]
  BY <1>2, <1>3, <1>4 DEF Last
<1> QED
  BY <1>1, <1>2, <1>3, <1>4, <1>5, <1>6 DEF n

\* A call puts the new frame on top and leaves the waiting frames alone.
LEMMA PushFacts ==
  ASSUME NEW S, NEW s \in Seq(S), NEW f \in S
  PROVE  /\ Push(s, f) \in Seq(S)
         /\ Push(s, f) # <<>>
         /\ Len(Push(s, f)) = Len(s) + 1
         /\ \A i \in 1..Len(s) : Push(s, f)[i] = s[i]
         /\ Push(s, f)[Len(s) + 1] = f
         /\ Last(Push(s, f)) = f
  BY DEF Push, Last

\* A change of pc touches the running frame only.
LEMMA AtFacts ==
  ASSUME NEW S, NEW s \in Seq(S), s # <<>>, NEW pc, Goes(Last(s), pc) \in S
  PROVE  /\ At(s, pc) \in Seq(S)
         /\ At(s, pc) # <<>>
         /\ Len(At(s, pc)) = Len(s)
         /\ \A i \in 1..(Len(s) - 1) : At(s, pc)[i] = s[i]
         /\ At(s, pc)[Len(s)] = Goes(Last(s), pc)
         /\ Last(At(s, pc)) = Goes(Last(s), pc)
<1> DEFINE t == Front(s)
           g == Goes(Last(s), pc)
<1>1. /\ t \in Seq(S)
      /\ Len(t) = Len(s) - 1
      /\ \A i \in 1..(Len(s) - 1) : t[i] = s[i]
  BY PopFacts
<1>2. Len(s) \in Nat
  OBVIOUS
<1> HIDE DEF t
<1>3. At(s, pc) = Push(t, g)
  BY DEF At, Push, t
<1> HIDE DEF g
<1>4. g \in S
  BY DEF g
<1>5. /\ Push(t, g) \in Seq(S)
      /\ Push(t, g) # <<>>
      /\ Len(Push(t, g)) = Len(t) + 1
      /\ \A i \in 1..Len(t) : Push(t, g)[i] = t[i]
      /\ Push(t, g)[Len(t) + 1] = g
      /\ Last(Push(t, g)) = g
  BY <1>1, <1>4, PushFacts
<1>6. /\ At(s, pc) \in Seq(S)
      /\ At(s, pc) # <<>>
      /\ Len(At(s, pc)) = Len(s)
      /\ \A i \in 1..(Len(s) - 1) : At(s, pc)[i] = s[i]
      /\ At(s, pc)[Len(s)] = g
      /\ Last(At(s, pc)) = g
  BY <1>1, <1>2, <1>3, <1>5
<1> QED
  BY <1>6 DEF g

\* A call from the running frame, which waits at pc.
LEMMA CallFacts ==
  ASSUME NEW S, NEW s \in Seq(S), s # <<>>, NEW pc, Goes(Last(s), pc) \in S, NEW g \in S
  PROVE  LET t == Push(At(s, pc), g)
         IN  /\ t \in Seq(S)
             /\ t # <<>>
             /\ Len(t) = Len(s) + 1
             /\ \A i \in 1..(Len(s) - 1) : t[i] = s[i]
             /\ t[Len(s)] = Goes(Last(s), pc)
             /\ t[Len(s) + 1] = g
             /\ Last(t) = g
<1> DEFINE w == At(s, pc)
           h == Goes(Last(s), pc)
<1>1. /\ w \in Seq(S)
      /\ Len(w) = Len(s)
      /\ \A i \in 1..(Len(s) - 1) : w[i] = s[i]
      /\ w[Len(s)] = h
  BY AtFacts
<1>2. Len(s) \in Nat /\ Len(s) > 0
  OBVIOUS
<1> HIDE DEF w, h
<1>3. /\ Push(w, g) \in Seq(S)
      /\ Push(w, g) # <<>>
      /\ Len(Push(w, g)) = Len(w) + 1
      /\ \A i \in 1..Len(w) : Push(w, g)[i] = w[i]
      /\ Push(w, g)[Len(w) + 1] = g
      /\ Last(Push(w, g)) = g
  BY <1>1, PushFacts
<1>4. /\ Push(w, g) \in Seq(S)
      /\ Push(w, g) # <<>>
      /\ Len(Push(w, g)) = Len(s) + 1
      /\ \A i \in 1..(Len(s) - 1) : Push(w, g)[i] = s[i]
      /\ Push(w, g)[Len(s)] = h
      /\ Push(w, g)[Len(s) + 1] = g
      /\ Last(Push(w, g)) = g
  BY <1>1, <1>2, <1>3
<1> QED
  BY <1>4 DEF w, h

\* The frames of the model are frames.
LEMMA FrameFacts ==
  /\ \A t \in Priv : GotoFrame(t) \in Frames
  /\ \A l \in {"M", "S"}, c \in Causes : HandlerFrame(l, c) \in Frames
  /\ ResetFrame \in Frames
  /\ \A f \in Frames :
       /\ f.fn = "goto" => \A pc \in GotoPcs : Goes(f, pc) \in Frames
       /\ f.fn \in Handlers => \A pc \in HandlerPcs : Goes(f, pc) \in Frames
       /\ f.fn = "reset" => \A pc \in ResetPcs : Goes(f, pc) \in Frames
       /\ f.fn \in {"goto", "reset"} \union Handlers
       /\ f.fn = "goto" => f.to \in Priv /\ f.pc \in GotoPcs
       /\ f.fn \in Handlers => f.pc \in HandlerPcs /\ f.cause \in Causes
       /\ f.fn = "reset" => f.pc \in ResetPcs
  BY DEF Goes, GotoFrame, HandlerFrame, ResetFrame, Frames, Handlers, HandlerPcs, GotoPcs,
         ResetPcs, Priv, VU, M, Causes

-----------------------------------------------------------------------------
(***************************************************************************)
(* Types.                                                                  *)
(***************************************************************************)
LEMMA CallTypes ==
  ASSUME TypeOK, NEW s \in Seq(Frames), NEW f \in Frames, Call(s, f)
  PROVE  stack' \in Seq(Frames) /\ status' \in Statuses
<1>1. Push(s, f) \in Seq(Frames)
  BY PushFacts
<1>2. stack \in Seq(Frames) /\ status \in Statuses
  BY DEF TypeOK
<1> QED
  BY <1>1, <1>2 DEF Call, Statuses

LEMMA TrapTypes ==
  ASSUME TypeOK, NEW s \in Seq(Frames), NEW c \in Causes, Trap(c, s)
  PROVE  /\ stack' \in Seq(Frames)
         /\ mode' \in Modes
         /\ spp' \in {"U", "S"}
         /\ real' \in Priv
         /\ status' \in Statuses
<1>1. Level(c) \in {"M", "S"} /\ (Level(c) = "S" => mode \in {"U", "S"})
  BY DEF Level, TypeOK, Modes
<1>2. Push(s, HandlerFrame(Level(c), c)) \in Seq(Frames)
  BY <1>1, FrameFacts, PushFacts
<1>3. /\ stack \in Seq(Frames) /\ mode \in Modes /\ spp \in {"U", "S"}
      /\ real \in Priv /\ status \in Statuses
  BY DEF TypeOK
<1>4. M \in Priv /\ HS \in Priv /\ "stack exhausted" \in Statuses /\ {"M", "S"} \subseteq Modes
  BY DEF Priv, VU, HS, M, Statuses, Modes
<1>5. CASE Len(s) >= MaxDepth
  BY <1>3, <1>4, <1>5 DEF Trap
<1>6. CASE ~(Len(s) >= MaxDepth)
  BY <1>1, <1>2, <1>3, <1>4, <1>6 DEF Trap
<1> QED
  BY <1>5, <1>6

LEMMA EcallCauseType == TypeOK => EcallCause \in Ecalls /\ EcallCause \in Causes
  BY DEF EcallCause, TypeOK, Modes, Ecalls, Causes

\* The running frame can go on at any pc of its function.
LEMMA RunningTypes ==
  ASSUME TypeOK, NEW fn, NEW pc, Running(fn, pc)
  PROVE  /\ stack \in Seq(Frames) /\ stack # <<>>
         /\ Last(stack) \in Frames /\ Last(stack).fn = fn
         /\ Front(stack) \in Seq(Frames)
         /\ fn = "goto" => /\ Target \in Priv
                          /\ \A q \in GotoPcs : At(stack, q) \in Seq(Frames)
         /\ fn \in Handlers => /\ Cause \in Causes
                              /\ \A q \in HandlerPcs : At(stack, q) \in Seq(Frames)
         /\ fn = "reset" => \A q \in ResetPcs : At(stack, q) \in Seq(Frames)
<1>1. stack \in Seq(Frames) /\ stack # <<>> /\ Last(stack).fn = fn
  BY DEF TypeOK, Running
<1>2. Last(stack) \in Frames
  BY <1>1 DEF Last
<1>3. Front(stack) \in Seq(Frames)
  BY <1>1, PopFacts
<1>4. \A q : Goes(Last(stack), q) \in Frames => At(stack, q) \in Seq(Frames)
  BY <1>1, AtFacts
<1> QED
  BY <1>1, <1>2, <1>3, <1>4, FrameFacts DEF Target, Cause

\* An exception that interrupted a goto resumes it after its ecall.
LEMMA ResumeTypes ==
  ASSUME NEW s \in Seq(Frames), NEW advance
  PROVE  Resume(s, advance) \in Seq(Frames)
<1>1. CASE s # <<>> /\ advance /\ Last(s).pc = "ecall"
  <2>1. Last(s) \in Frames
    BY <1>1 DEF Last
  <2>2. Last(s).fn = "goto"
    BY <1>1, <2>1, FrameFacts DEF HandlerPcs, ResetPcs
  <2>3. Goes(Last(s), "ret") \in Frames
    BY <2>1, <2>2, FrameFacts DEF GotoPcs
  <2> QED
    BY <1>1, <2>3, AtFacts DEF Resume
<1>2. CASE ~(s # <<>> /\ advance /\ Last(s).pc = "ecall")
  BY <1>2 DEF Resume
<1> QED
  BY <1>1, <1>2

\* What the harness' own steps leave typed, one case per action.
LEMMA GotoKeepsTypes == TypeOK /\ Goto => TypeOK'
<1> SUFFICES ASSUME TypeOK, Goto PROVE TypeOK'
  OBVIOUS
<1>1. CASE GotoUserToUser
  <2>1. At(stack, "toM") \in Seq(Frames) /\ GotoFrame(M) \in Frames
    BY <1>1, RunningTypes, FrameFacts DEF GotoUserToUser, GotoPcs, Handlers, ResetPcs, Priv, VU, M
  <2>2. stack' \in Seq(Frames) /\ status' \in Statuses
    BY <1>1, <2>1, CallTypes DEF GotoUserToUser
  <2> QED
    BY <1>1, <2>2 DEF GotoUserToUser, TypeOK
<1>2. CASE GotoArrived
  <2>1. Front(stack) \in Seq(Frames) /\ Target \in Priv
    BY <1>2, RunningTypes DEF GotoArrived, Deciding
  <2> QED
    BY <1>2, <2>1 DEF GotoArrived, TypeOK
<1>3. CASE GotoRaiseViaHS
  <2>1. At(stack, "viaHS") \in Seq(Frames) /\ GotoFrame(HS) \in Frames
    BY <1>3, RunningTypes, FrameFacts DEF GotoRaiseViaHS, Deciding, GotoPcs, Priv, VU, HS, M
  <2>2. stack' \in Seq(Frames) /\ status' \in Statuses
    BY <1>3, <2>1, CallTypes DEF GotoRaiseViaHS
  <2> QED
    BY <1>3, <2>2 DEF GotoRaiseViaHS, TypeOK
<1>4. CASE GotoSecondHop
  <2>1. At(stack, "fromHS") \in Seq(Frames) /\ GotoFrame(M) \in Frames
    BY <1>4, RunningTypes, FrameFacts DEF GotoSecondHop, GotoPcs, Priv, VU, M
  <2>2. stack' \in Seq(Frames) /\ status' \in Statuses
    BY <1>4, <2>1, CallTypes DEF GotoSecondHop
  <2> QED
    BY <1>4, <2>2 DEF GotoSecondHop, TypeOK
<1>5. CASE GotoEcall
  <2>1. At(stack, "ecall") \in Seq(Frames) /\ Target \in Priv
    BY <1>5, RunningTypes DEF GotoEcall, Deciding, GotoPcs
  <2>2. /\ stack' \in Seq(Frames) /\ mode' \in Modes /\ spp' \in {"U", "S"}
        /\ real' \in Priv /\ status' \in Statuses
    BY <1>5, <2>1, TrapTypes, EcallCauseType DEF GotoEcall
  <2> QED
    BY <1>5, <2>1, <2>2 DEF GotoEcall, TypeOK
<1>6. CASE GotoLowerNothing
  <2>1. Front(stack) \in Seq(Frames)
    BY <1>6, RunningTypes DEF GotoLowerNothing, Lowering, Deciding
  <2> QED
    BY <1>6, <2>1 DEF GotoLowerNothing, TypeOK
<1>7. CASE GotoLowerRefused
  <2>1. LowerRefusal(Target) \in Statuses
    BY <1>7 DEF GotoLowerRefused, LowerRefusal, Statuses
  <2> QED
    BY <1>7, <2>1 DEF GotoLowerRefused, Stop, TypeOK
<1>8. CASE GotoLower
  <2>1. At(stack, "window") \in Seq(Frames) /\ Target \in Priv
    BY <1>8, RunningTypes DEF GotoLower, Lowering, Deciding, GotoPcs
  <2>2. mode' \in Modes /\ spp' \in {"U", "S"}
    BY <1>8 DEF GotoLower, TypeOK, HartMode, PrevPriv, Modes
  <2> QED
    BY <1>8, <2>1, <2>2 DEF GotoLower, TypeOK
<1>9. CASE GotoLowered
  <2>1. Front(stack) \in Seq(Frames) /\ Target \in Priv
    BY <1>9, RunningTypes DEF GotoLowered
  <2> QED
    BY <1>9, <2>1 DEF GotoLowered, TypeOK
<1>10. CASE GotoReturn
  <2>1. Front(stack) \in Seq(Frames)
    BY <1>10, RunningTypes DEF GotoReturn
  <2> QED
    BY <1>10, <2>1 DEF GotoReturn, TypeOK
<1> QED
  BY <1>1, <1>2, <1>3, <1>4, <1>5, <1>6, <1>7, <1>8, <1>9, <1>10 DEF Goto

LEMMA HandlerKeepsTypes == TypeOK /\ Handler => TypeOK'
<1> SUFFICES ASSUME TypeOK, Handler PROVE TypeOK'
  OBVIOUS
<1>1. CASE HandlerServesGoto
  <2>1. At(stack, "h1") \in Seq(Frames)
    BY <1>1, RunningTypes DEF HandlerServesGoto, Handling, HandlerPcs
  <2>2. GotoFrame(arg) \in Frames
    BY <1>1, FrameFacts DEF HandlerServesGoto, TypeOK
  <2>3. stack' \in Seq(Frames) /\ status' \in Statuses
    BY <1>1, <2>1, <2>2, CallTypes DEF HandlerServesGoto
  <2> QED
    BY <1>1, <2>3 DEF HandlerServesGoto, TypeOK
<1>2. CASE HandlerRejects
  BY <1>2 DEF HandlerRejects, Stop, Statuses, TypeOK
<1>3. CASE HandlerAccepts
  <2>1. At(stack, "h1") \in Seq(Frames)
    BY <1>3, RunningTypes DEF HandlerAccepts, Handling, HandlerPcs
  <2> QED
    BY <1>3, <2>1 DEF HandlerAccepts, TypeOK
<1>4. CASE HandlerFails
  <2>1. PICK h \in Handlers : HandlerRefusal(h) # "none" /\ Stop(HandlerRefusal(h))
    BY <1>4 DEF HandlerFails
  <2>2. HandlerRefusal(h) \in Statuses
    BY <2>1 DEF HandlerRefusal, Statuses
  <2> QED
    BY <2>1, <2>2 DEF Stop, TypeOK
<1>5. CASE HandlerReturns
  <2>1. PICK h \in Handlers :
          /\ Running(h, "h1")
          /\ excpt' = [testing |-> FALSE, triggered |-> TRUE,
                       priv |-> IF h = "mhandler" THEN M ELSE HS,
                       cause |-> Cause, faultInst |-> FALSE]
          /\ armed' = (armed /\ ~(Cause \in Faults))
          /\ real' = curr
          /\ mode' = ReturnMode
          /\ spp' = IF real = M THEN spp ELSE "U"
          /\ stack' = Resume(Front(stack), Advances)
          /\ UNCHANGED <<medeleg, curr, arg, status>>
    BY <1>5 DEF HandlerReturns
  <2>2. Cause \in Causes /\ Front(stack) \in Seq(Frames)
    BY <2>1, RunningTypes
  <2>3. mode' \in Modes /\ spp' \in {"U", "S"} /\ real' \in Priv /\ armed' \in BOOLEAN
    BY <2>1 DEF TypeOK, ReturnMode, HartMode, Modes
  <2>4. excpt' \in [testing : BOOLEAN, triggered : BOOLEAN, priv : Priv,
                    cause : Causes \union {"none"}, faultInst : BOOLEAN]
    BY <2>1, <2>2 DEF Priv, VU, HS, M
  <2>5. stack' \in Seq(Frames)
    BY <2>1, <2>2, ResumeTypes
  <2> QED
    BY <2>1, <2>3, <2>4, <2>5 DEF TypeOK
<1>6. CASE HandlerReturnsWild
  BY <1>6 DEF HandlerReturnsWild, Stop, Statuses, TypeOK
<1> QED
  BY <1>1, <1>2, <1>3, <1>4, <1>5, <1>6 DEF Handler

LEMMA ResetKeepsTypes == TypeOK /\ Reset => TypeOK'
<1> SUFFICES ASSUME TypeOK, Reset PROVE TypeOK'
  OBVIOUS
<1>1. CASE ResetGoto
  <2>1. At(stack, "r1") \in Seq(Frames) /\ GotoFrame(M) \in Frames
    BY <1>1, RunningTypes, FrameFacts DEF ResetGoto, ResetPcs, Priv, VU, M
  <2>2. stack' \in Seq(Frames) /\ status' \in Statuses
    BY <1>1, <2>1, CallTypes DEF ResetGoto
  <2> QED
    BY <1>1, <2>2 DEF ResetGoto, TypeOK
<1>2. CASE ResetFails
  BY <1>2 DEF ResetFails, Stop, Statuses, TypeOK
<1>3. CASE ResetCsrs
  <2>1. Front(stack) \in Seq(Frames)
    BY <1>3, RunningTypes DEF ResetCsrs
  <2> QED
    BY <1>3, <2>1 DEF ResetCsrs, TypeOK, Causes, Ecalls
<1> QED
  BY <1>1, <1>2, <1>3 DEF Reset

LEMMA TestKeepsTypes == TypeOK /\ Test => TypeOK'
<1> SUFFICES ASSUME TypeOK, Test PROVE TypeOK'
  OBVIOUS
<1> DEFINE Records == [testing : BOOLEAN, triggered : BOOLEAN, priv : Priv,
                       cause : Causes \union {"none"}, faultInst : BOOLEAN]
<1>0. excpt \in Records /\ stack \in Seq(Frames)
  BY DEF TypeOK
<1>1. CASE TestGoto
  <2>1. PICK t \in Priv : Call(stack, GotoFrame(t))
    BY <1>1 DEF TestGoto
  <2>2. stack' \in Seq(Frames) /\ status' \in Statuses
    BY <1>0, <2>1, FrameFacts, CallTypes
  <2> QED
    BY <1>1, <2>2 DEF TestGoto, TypeOK
<1>2. CASE TestGotoDirect
  <2>1. <<Goes(GotoFrame(M), "ecall")>> \in Seq(Frames) /\ M \in Priv
    BY FrameFacts DEF GotoFrame, Goes, GotoPcs, Frames, Priv, VU, M
  <2>2. /\ stack' \in Seq(Frames) /\ mode' \in Modes /\ spp' \in {"U", "S"}
        /\ real' \in Priv /\ status' \in Statuses
    BY <1>2, <2>1, TrapTypes, EcallCauseType DEF TestGotoDirect
  <2> QED
    BY <1>2, <2>1, <2>2 DEF TestGotoDirect, TypeOK
<1>3. CASE TestSetup
  <2>1. excpt' \in Records
    BY <1>0, <1>3 DEF TestSetup
  <2> QED
    BY <1>3, <2>1 DEF TestSetup, TypeOK
<1>4. CASE TestFault
  <2>1. PICK c \in Faults : /\ excpt' = [excpt EXCEPT !.faultInst = (c \in InstFaults)]
                            /\ Trap(c, stack)
    BY <1>4 DEF TestFault
  <2>2. c \in Causes
    BY ConstantsAssumption DEF ConstantsAssumption, Causes, InstFaults
  <2>3. /\ stack' \in Seq(Frames) /\ mode' \in Modes /\ spp' \in {"U", "S"}
        /\ real' \in Priv /\ status' \in Statuses
    BY <1>0, <2>1, <2>2, TrapTypes
  <2>4. (c \in InstFaults) \in BOOLEAN
    OBVIOUS
  <2>5. \A b \in BOOLEAN : [excpt EXCEPT !.faultInst = b] \in Records
    BY <1>0
  <2>6. excpt' \in Records
    BY <2>1, <2>4, <2>5
  <2> QED
    BY <1>4, <2>3, <2>6 DEF TestFault, TypeOK
<1>5. CASE TestBareEcall
  <2>1. /\ stack' \in Seq(Frames) /\ mode' \in Modes /\ spp' \in {"U", "S"}
        /\ real' \in Priv /\ status' \in Statuses
    BY <1>0, <1>5, TrapTypes, EcallCauseType DEF TestBareEcall
  <2> QED
    BY <1>5, <2>1 DEF TestBareEcall, TypeOK
<1>6. CASE TestDelegates
  <2>1. medeleg' \in SUBSET Causes
    BY <1>6, ConstantsAssumption DEF TestDelegates, ConstantsAssumption
  <2> QED
    BY <1>6, <2>1 DEF TestDelegates, TypeOK
<1>7. CASE TestReset
  <2>1. stack' \in Seq(Frames) /\ status' \in Statuses
    BY <1>0, <1>7, FrameFacts, CallTypes DEF TestReset
  <2> QED
    BY <1>7, <2>1 DEF TestReset, TypeOK
<1>8. CASE TestAsserts
  BY <1>8 DEF TestAsserts, TypeOK
<1> QED
  BY <1>1, <1>2, <1>3, <1>4, <1>5, <1>6, <1>7, <1>8 DEF Test

LEMMA InterruptKeepsTypes == TypeOK /\ TakeInterrupt => TypeOK'
<1> SUFFICES ASSUME TypeOK, TakeInterrupt PROVE TypeOK'
  OBVIOUS
<1>1. PICK c \in Irqs : Trap(c, stack)
  BY DEF TakeInterrupt
<1>2. c \in Causes /\ stack \in Seq(Frames)
  BY ConstantsAssumption DEF ConstantsAssumption, Causes, TypeOK
<1>3. /\ stack' \in Seq(Frames) /\ mode' \in Modes /\ spp' \in {"U", "S"}
      /\ real' \in Priv /\ status' \in Statuses
  BY <1>1, <1>2, TrapTypes
<1> QED
  BY <1>3 DEF TakeInterrupt, TypeOK

LEMMA InitTypes == Init => TypeOK
<1> SUFFICES ASSUME Init PROVE TypeOK
  OBVIOUS
<1>1. stack \in Seq(Frames)
  BY DEF Init
<1>2. excpt \in [testing : BOOLEAN, triggered : BOOLEAN, priv : Priv,
                 cause : Causes \union {"none"}, faultInst : BOOLEAN]
  BY DEF Init, Priv, VU, M
<1>3. M \in Priv /\ medeleg \in SUBSET Causes
  BY DEF Init, Priv, VU, M, Causes, Ecalls
<1> QED
  BY <1>1, <1>2, <1>3 DEF Init, TypeOK, Modes, None, Statuses

LEMMA StepKeepsTypes == TypeOK /\ [Next]_vars => TypeOK'
<1> SUFFICES ASSUME TypeOK, [Next]_vars PROVE TypeOK'
  OBVIOUS
<1>1. CASE Stopped \/ UNCHANGED vars
  BY <1>1 DEF Stopped, vars, TypeOK
<1> QED
  BY <1>1, GotoKeepsTypes, HandlerKeepsTypes, ResetKeepsTypes, TestKeepsTypes,
     InterruptKeepsTypes DEF Next, Harness

\* The types hold of every execution, whatever levels a test switches between,
\* delegates to or is interrupted at: no path of goto_priv, the handlers or
\* reset_state leaves curr_priv, real_priv, ecall_args or the mode undefined.
THEOREM TypeCorrect == Spec => []TypeOK
<1> QED
  BY InitTypes, StepKeepsTypes, PTL DEF Spec

-----------------------------------------------------------------------------
(***************************************************************************)
(* What a return, a change of pc, a call and a new ecall_args do to the    *)
(* shape of the stack.                                                     *)
(***************************************************************************)
LEMMA ShapePop ==
  ASSUME NEW s \in Seq(Frames), s # <<>>, NEW a, Shape(s, a)
  PROVE  Shape(Front(s), a)
<1> DEFINE t == Front(s)
<1>1. /\ Len(t) = Len(s) - 1
      /\ \A i \in 1..(Len(s) - 1) : t[i] = s[i]
      /\ Len(s) \in Nat
  BY PopFacts
<1> HIDE DEF t
<1>2. \A i \in 1..(Len(t) - 1) : Link(t[i], t[i+1], a)
  BY <1>1 DEF Shape
<1>3. \A i \in 2..Len(t) : t[i].fn # "reset" /\ t[i].pc # "toM"
  BY <1>1 DEF Shape
<1>4. Len(t) > 1 /\ t[1].fn \in Handlers => t[1].fn = "mhandler" /\ a = M
  BY <1>1 DEF Shape
<1>5. Shape(t, a)
  BY <1>2, <1>3, <1>4 DEF Shape
<1> QED
  BY <1>5 DEF t

\* Link looks at the upper frame's pc only under a frame at fromHS.
LEMMA LinkAt ==
  ASSUME NEW f, NEW g, NEW a, NEW pc, Link(f, g, a),
         f.pc = "fromHS" => pc \notin {"viaHS", "fromHS"}
  PROVE  Link(f, Goes(g, pc), a)
  BY DEF Link, Goes

LEMMA ShapeAt ==
  ASSUME NEW s \in Seq(Frames), s # <<>>, NEW a, Shape(s, a),
         NEW pc, Goes(Last(s), pc) \in Frames, pc \notin {"toM", "viaHS", "fromHS"}
  PROVE  Shape(At(s, pc), a)
<1> DEFINE t == At(s, pc)
           g == Goes(Last(s), pc)
<1>1. /\ Len(t) = Len(s)
      /\ \A i \in 1..(Len(s) - 1) : t[i] = s[i]
      /\ t[Len(s)] = g
      /\ Len(s) \in Nat /\ Len(s) > 0
  BY AtFacts
<1>2. g.fn = s[Len(s)].fn /\ g.pc = pc
  BY DEF Goes, Last
<1>3. Len(s) > 1 => Link(s[Len(s) - 1], g, a)
  <2>1. Len(s) > 1 => Link(s[Len(s) - 1], s[Len(s)], a)
    BY <1>1 DEF Shape
  <2> QED
    BY <2>1, LinkAt DEF Last
<1> HIDE DEF t, g
<1>4. \A i \in 1..(Len(t) - 1) : Link(t[i], t[i+1], a)
  <2> SUFFICES ASSUME NEW i \in 1..(Len(t) - 1) PROVE Link(t[i], t[i+1], a)
    OBVIOUS
  <2>1. CASE i = Len(s) - 1
    BY <1>1, <1>3, <2>1
  <2>2. CASE i < Len(s) - 1
    BY <1>1, <2>2 DEF Shape
  <2> QED
    BY <1>1, <2>1, <2>2
<1>5. \A i \in 2..Len(t) : t[i].fn # "reset" /\ t[i].pc # "toM"
  BY <1>1, <1>2 DEF Shape
<1>6. Len(t) > 1 /\ t[1].fn \in Handlers => t[1].fn = "mhandler" /\ a = M
  BY <1>1 DEF Shape
<1>7. Shape(t, a)
  BY <1>4, <1>5, <1>6 DEF Shape
<1> QED
  BY <1>7 DEF t

LEMMA ShapeCall ==
  ASSUME NEW s \in Seq(Frames), s # <<>>, NEW a, Shape(s, a),
         NEW pc, Goes(Last(s), pc) \in Frames,
         NEW g \in Frames, Link(Goes(Last(s), pc), g, a),
         g.fn # "reset", g.pc # "toM",
         pc = "toM" => Len(s) = 1,
         pc \in {"viaHS", "fromHS"} /\ Len(s) > 1 => s[Len(s) - 1].pc # "fromHS",
         Len(s) = 1 /\ Last(s).fn \in Handlers => Last(s).fn = "mhandler" /\ a = M
  PROVE  Shape(Push(At(s, pc), g), a)
<1> DEFINE t == Push(At(s, pc), g)
           h == Goes(Last(s), pc)
<1>1. /\ Len(t) = Len(s) + 1
      /\ \A i \in 1..(Len(s) - 1) : t[i] = s[i]
      /\ t[Len(s)] = h
      /\ t[Len(s) + 1] = g
  BY CallFacts
<1>2. /\ h.fn = s[Len(s)].fn /\ h.pc = pc
      /\ Len(s) \in Nat /\ Len(s) > 0
  BY DEF Goes, Last
<1>3. Len(s) > 1 => Link(s[Len(s) - 1], h, a)
  <2>1. Len(s) > 1 => Link(s[Len(s) - 1], s[Len(s)], a)
    BY <1>2 DEF Shape
  <2> QED
    BY <2>1, LinkAt DEF Last
<1>4. Link(h, g, a)
  OBVIOUS
<1>5. Len(s) = 1 /\ h.fn \in Handlers => h.fn = "mhandler" /\ a = M
  BY <1>2 DEF Last
<1> HIDE DEF t, h
<1>6. \A i \in 1..(Len(t) - 1) : Link(t[i], t[i+1], a)
  <2> SUFFICES ASSUME NEW i \in 1..(Len(t) - 1) PROVE Link(t[i], t[i+1], a)
    OBVIOUS
  <2>1. CASE i = Len(s)
    BY <1>1, <1>4, <2>1
  <2>2. CASE i = Len(s) - 1
    BY <1>1, <1>2, <1>3, <2>2
  <2>3. CASE i < Len(s) - 1
    BY <1>1, <1>2, <2>3 DEF Shape
  <2> QED
    BY <1>1, <1>2, <2>1, <2>2, <2>3
<1>7. \A i \in 2..Len(t) : t[i].fn # "reset" /\ t[i].pc # "toM"
  <2> SUFFICES ASSUME NEW i \in 2..Len(t) PROVE t[i].fn # "reset" /\ t[i].pc # "toM"
    OBVIOUS
  <2>1. CASE i = Len(s) + 1
    BY <1>1, <2>1
  <2>2. CASE i = Len(s)
    BY <1>1, <1>2, <2>2 DEF Shape
  <2>3. CASE i < Len(s)
    BY <1>1, <1>2, <2>3 DEF Shape
  <2> QED
    BY <1>1, <1>2, <2>1, <2>2, <2>3
<1>8. Len(t) > 1 /\ t[1].fn \in Handlers => t[1].fn = "mhandler" /\ a = M
  <2>0. Len(s) = 1 \/ Len(s) > 1
    <3>1. PICK n \in Nat : n = Len(s)
      BY <1>2
    <3> QED
      BY <1>2, <3>1
  <2>1. CASE Len(s) = 1
    <3>1. t[1] = h
      BY <1>1, <2>1
    <3> QED
      BY <1>5, <2>1, <3>1
  <2>2. CASE Len(s) > 1
    BY <1>1, <2>2 DEF Shape
  <2> QED
    BY <2>0, <2>1, <2>2
<1>9. Shape(t, a)
  BY <1>6, <1>7, <1>8 DEF Shape
<1> QED
  BY <1>9 DEF t

\* ecall_args can change while no frame waits for what it asks.
LEMMA ShapeArg ==
  ASSUME NEW s \in Seq(Frames), NEW a, NEW b, Shape(s, a),
         \/ a = b
         \/ \A i \in 1..(Len(s) - 1) : s[i].fn \notin Handlers /\ s[i].pc # "ecall"
  PROVE  Shape(s, b)
<1>1. CASE a = b
  BY <1>1
<1>2. CASE \A i \in 1..(Len(s) - 1) : s[i].fn \notin Handlers /\ s[i].pc # "ecall"
  <2>1. \A i \in 1..(Len(s) - 1) : Link(s[i], s[i+1], b)
    BY <1>2 DEF Shape, Link
  <2>2. Len(s) > 1 => s[1].fn \notin Handlers
    BY <1>2
  <2> QED
    BY <2>1, <2>2 DEF Shape
<1> QED
  BY <1>1, <1>2

-----------------------------------------------------------------------------
(***************************************************************************)
(* The running frame.                                                      *)
(***************************************************************************)
\* Who may be below the running frame when it is a goto.
LEMMA GotoBelow ==
  ASSUME NEW s \in Seq(Frames), NEW a, Shape(s, a), Len(s) > 1, Last(s).fn = "goto"
  PROVE  LET p == s[Len(s) - 1]
             t == Last(s).to
         IN  /\ p \in Frames
             /\ \/ p.fn = "goto" /\ p.pc = "toM" /\ IsUser(p.to) /\ t = M /\ Len(s) = 2
                \/ p.fn = "goto" /\ p.pc = "viaHS" /\ p.to = M /\ t = HS
                \/ /\ p.fn = "goto" /\ p.pc = "fromHS" /\ p.to = M /\ t = M
                   /\ Last(s).pc \notin {"viaHS", "fromHS"}
                \/ p.fn \in Handlers /\ p.pc = "h1" /\ p.cause \in Ecalls /\ t = a
                \/ p.fn = "reset" /\ p.pc = "r1" /\ t = M /\ Len(s) = 2
<1>1. Len(s) \in Nat
  OBVIOUS
<1>2. s[Len(s) - 1] \in Frames /\ Last(s) = s[Len(s)]
  BY <1>1 DEF Last
<1>3. Link(s[Len(s) - 1], Last(s), a)
  BY <1>1, <1>2 DEF Shape
<1>4. Len(s) = 2 \/ (s[Len(s) - 1].fn # "reset" /\ s[Len(s) - 1].pc # "toM")
  <2>1. Len(s) = 2 \/ Len(s) - 1 \in 2..Len(s)
    <3>1. PICK n \in Nat : n = Len(s)
      BY <1>1
    <3> QED
      BY <3>1
  <2>2. \A i \in 2..Len(s) : s[i].fn # "reset" /\ s[i].pc # "toM"
    BY DEF Shape
  <2> QED
    BY <2>1, <2>2
<1> QED
  BY <1>1, <1>2, <1>3, <1>4 DEF Link, Handlers

\* A handler above another frame serves an ecall of that frame.
LEMMA HandlerBelow ==
  ASSUME NEW s \in Seq(Frames), NEW a, Shape(s, a), NEW i \in 2..Len(s), s[i].fn \in Handlers
  PROVE  /\ s[i-1] \in Frames
         /\ s[i-1].fn = "goto" /\ s[i-1].pc = "ecall" /\ s[i-1].to = a
         /\ s[i].cause \in {"ECU", "ECS"}
<1>1. Link(s[i-1], s[i], a) /\ s[i-1] \in Frames
  BY DEF Shape
<1> QED
  BY <1>1 DEF Link, Handlers

\* A goto that ends where it was asked to go gives the frame below what that
\* frame waits for.
LEMMA ReturnTop ==
  ASSUME TypeOK, RunInv, stack # <<>>, Last(stack).fn = "goto",
         stack' = Front(stack), arg' = arg,
         curr' = Last(stack).to, real' = Last(stack).to
  PROVE  TopInv'
<1> PICK n, t, p : n = Len(stack) /\ t = Last(stack).to /\ p = stack[n - 1]
  OBVIOUS
<1>1. /\ stack \in Seq(Frames) /\ n \in Nat /\ n > 0
      /\ Shape(stack, arg)
  BY DEF TypeOK, RunInv
<1>2. /\ Len(stack') = n - 1
      /\ stack' = <<>> <=> n = 1
      /\ n > 1 => Last(stack') = p
  BY <1>1, PopFacts
<1>3. curr' = t /\ real' = t
  OBVIOUS
<1>4. CASE n = 1
  BY <1>2, <1>3, <1>4 DEF TopInv
<1>5. CASE n > 1
  <2>1. /\ p \in Frames
        /\ \/ p.fn = "goto" /\ p.pc = "toM" /\ IsUser(p.to) /\ t = M /\ n = 2
           \/ p.fn = "goto" /\ p.pc = "viaHS" /\ p.to = M /\ t = HS
           \/ p.fn = "goto" /\ p.pc = "fromHS" /\ p.to = M /\ t = M
           \/ p.fn \in Handlers /\ p.pc = "h1" /\ p.cause \in Ecalls /\ t = arg
           \/ p.fn = "reset" /\ p.pc = "r1" /\ t = M /\ n = 2
    BY <1>1, <1>5, GotoBelow
  <2>2. stack' # <<>> /\ Last(stack') = p
    BY <1>2, <1>5
  <2>3. CASE p.fn = "goto"
    <3>1. GotoTop(p)'
      BY <1>3, <2>1, <2>3 DEF GotoTop, Handlers, Arrived
    <3> QED
      BY <2>2, <2>3, <3>1 DEF TopInv, Handlers
  <2>4. CASE p.fn \in Handlers
    <3>1. p.pc = "h1" /\ p.cause \in Ecalls /\ t = arg
      BY <2>1, <2>4 DEF Handlers
    <3>2. n > 2 => p.cause \in {"ECU", "ECS"}
      <4>1. n > 2 => n - 1 \in 2..Len(stack) /\ stack[n - 1].fn \in Handlers
        BY <1>1, <2>4
      <4> QED
        BY <1>1, <4>1, HandlerBelow
    <3>3. n = 2 => p.fn = "mhandler" /\ arg = M
      BY <1>1, <2>4 DEF Shape
    <3>4. Arrived(arg)'
      BY <1>3, <3>1 DEF Arrived
    <3>5. /\ n - 1 > 1 => p.cause \in {"ECU", "ECS"}
          /\ n - 1 = 1 => p.fn = "mhandler" /\ curr' = M
      BY <1>1, <1>3, <3>1, <3>2, <3>3
    <3>6. arg \in Priv
      <4>1. Last(stack) \in Frames
        BY <1>1 DEF Last
      <4> QED
        BY <3>1, <4>1, FrameFacts
    <3>7. arg # None
      BY <3>6 DEF None, Priv, VU, M
    <3>8. HandlerTop(p)'
      BY <1>2, <3>1, <3>4, <3>5, <3>7 DEF HandlerTop
    <3> QED
      BY <2>2, <2>4, <3>8 DEF TopInv, Handlers
  <2>5. CASE p.fn = "reset"
    <3>1. ResetTop(p)'
      BY <1>3, <2>1, <2>5 DEF ResetTop, Handlers, Arrived
    <3> QED
      BY <2>2, <2>5, <3>1 DEF TopInv, Handlers
  <2> QED
    BY <2>1, <2>3, <2>4, <2>5
<1> QED
  BY <1>1, <1>4, <1>5

\* A call of goto_priv finds the state it expects when its caller does.
LEMMA CallTop ==
  ASSUME TypeOK, stack # <<>>, NEW pc, Goes(Last(stack), pc) \in Frames, NEW t \in Priv,
         stack' = Push(At(stack, pc), GotoFrame(t)),
         Switchable(t)',
         Last(stack).fn \in Handlers => real' \in {HS, M} /\ pc = "h1",
         pc = "viaHS" /\ UnderHandler(1) => real' = HS,
         pc = "fromHS" => curr' = HS /\ real' = HS
  PROVE  TopInv'
<1> PICK n, f, g : n \in Nat /\ n = Len(stack) /\ f = Last(stack) /\ g = GotoFrame(t)
  BY DEF TypeOK
<1>1. g \in Frames /\ g.fn = "goto" /\ g.pc = "g0" /\ g.to = t
  BY FrameFacts DEF GotoFrame
<1>2. /\ stack' # <<>> /\ Last(stack') = g
      /\ Len(stack') = n + 1
      /\ stack'[n] = Goes(f, pc)
      /\ \A i \in 1..(n - 1) : stack'[i] = stack[i]
  <2>1. stack \in Seq(Frames)
    BY DEF TypeOK
  <2> DEFINE s == Push(At(stack, pc), g)
  <2>2. s # <<>>
    BY <1>1, <2>1, CallFacts
  <2>3. Len(s) = Len(stack) + 1
    BY <1>1, <2>1, CallFacts
  <2>4. \A i \in 1..(Len(stack) - 1) : s[i] = stack[i]
    BY <1>1, <2>1, CallFacts
  <2>5. s[Len(stack)] = Goes(Last(stack), pc)
    BY <1>1, <2>1, CallFacts
  <2>6. Last(s) = g
    BY <1>1, <2>1, CallFacts
  <2> QED
    BY <2>2, <2>3, <2>4, <2>5, <2>6
<1>3. n > 0
  BY DEF TypeOK
<1>4. UnderHandler(1)' => f.fn \in Handlers
  BY <1>2 DEF UnderHandler, Goes
<1>5. UnderVia' => pc = "viaHS"
  BY <1>2 DEF UnderVia, Goes
<1>6. UnderFrom' => pc = "fromHS"
  BY <1>2 DEF UnderFrom, Goes
<1>7. UnderHandler(2)' => UnderHandler(1)
  <2>1. UnderHandler(2)' => n + 1 > 2 /\ stack'[n - 1].fn \in Handlers
    BY <1>2 DEF UnderHandler
  <2>2. n + 1 > 2 => stack'[n - 1] = stack[n - 1]
    BY <1>2
  <2>3. n + 1 > 2 => n > 1
    OBVIOUS
  <2> QED
    BY <2>1, <2>2, <2>3 DEF UnderHandler
<1>8. AboutToSwitch(t)'
  BY <1>4, <1>5, <1>6, <1>7 DEF AboutToSwitch
<1>9. GotoTop(g)'
  BY <1>1, <1>8 DEF GotoTop
<1> QED
  BY <1>1, <1>2, <1>9 DEF TopInv, Handlers

\* What is known of a running goto.
LEMMA RunningGoto ==
  ASSUME TypeOK, RunInv, NEW pc, Running("goto", pc)
  PROVE  /\ stack \in Seq(Frames) /\ stack # <<>>
         /\ Last(stack) \in Frames /\ Last(stack).fn = "goto" /\ Last(stack).pc = pc
         /\ Target \in Priv
         /\ \A q \in GotoPcs : Goes(Last(stack), q) \in Frames
         /\ Shape(stack, arg)
         /\ GotoTop(Last(stack))
         /\ pc = "g0" => AboutToSwitch(Target)
         /\ mode = HartMode(real)
<1>1. /\ stack \in Seq(Frames) /\ stack # <<>>
      /\ Last(stack) \in Frames /\ Last(stack).fn = "goto" /\ Last(stack).pc = pc
      /\ Target \in Priv
  BY RunningTypes DEF Running
<1>2. \A q \in GotoPcs : Goes(Last(stack), q) \in Frames
  BY <1>1, FrameFacts
<1>3. GotoTop(Last(stack)) /\ Shape(stack, arg) /\ mode = HartMode(real)
  BY <1>1 DEF RunInv, TopInv
<1>4. pc = "g0" => AboutToSwitch(Target)
  BY <1>1, <1>3 DEF GotoTop, Target
<1> QED
  BY <1>1, <1>2, <1>3, <1>4

-----------------------------------------------------------------------------
(***************************************************************************)
(* goto_priv keeps the invariant, one lemma per action.                    *)
(***************************************************************************)
\* A switch between user levels is never nested in another.
LEMMA UserToUserKeeps ==
  ASSUME TypeOK, RunInv, GotoUserToUser, status' = "run"
  PROVE  RunInv'
<1>1. /\ stack \in Seq(Frames) /\ stack # <<>> /\ Last(stack).fn = "goto"
      /\ Last(stack).pc = "g0"
      /\ Target \in Priv /\ Goes(Last(stack), "toM") \in Frames
      /\ Shape(stack, arg) /\ AboutToSwitch(Target)
  BY RunningGoto DEF GotoUserToUser, GotoPcs
<1>2. stack' = Push(At(stack, "toM"), GotoFrame(M)) /\ IsUser(Target) /\ IsUser(curr)
  BY DEF GotoUserToUser, Call, Statuses
<1>3. curr = real
  BY <1>1, <1>2 DEF AboutToSwitch, Switchable, IsUser, VU, HU, HS, M
<1>4. Len(stack) = 1
  <2> SUFFICES ASSUME Len(stack) > 1 PROVE FALSE
    BY <1>1, LenCases
  <2>1. stack[Len(stack) - 1].fn \in Handlers
    BY <1>1, <1>2, GotoBelow DEF Target, IsUser, VU, HU, HS, M
  <2>2. real \in {HS, M}
    BY <1>1, <2>1 DEF AboutToSwitch, UnderHandler
  <2> QED
    BY <1>2, <1>3, <2>2 DEF IsUser, VU, HU, HS, M
<1>5. Shape(stack', arg')
  <2>1. GotoFrame(M) \in Frames /\ Goes(Last(stack), "toM").fn = "goto"
    BY <1>1, FrameFacts DEF Priv, VU, M, Goes
  <2>2. Link(Goes(Last(stack), "toM"), GotoFrame(M), arg)
    BY <1>1, <1>2 DEF Link, Goes, GotoFrame, Target
  <2>3. GotoFrame(M).fn # "reset" /\ GotoFrame(M).pc # "toM" /\ Last(stack).fn \notin Handlers
    BY <1>1 DEF GotoFrame, Handlers
  <2>4. Shape(Push(At(stack, "toM"), GotoFrame(M)), arg)
    BY <1>1, <1>4, <2>1, <2>2, <2>3, ShapeCall
  <2> QED
    BY <1>2, <2>4 DEF GotoUserToUser
<1>6. TopInv'
  <2>1. Switchable(M)'
    BY <1>2, <1>3 DEF GotoUserToUser, Switchable, Unsupported, IsUser, VU, HU, VS, HS, M
  <2>2. M \in Priv /\ Last(stack).fn \notin Handlers
    BY <1>1 DEF Priv, VU, M, Handlers
  <2> QED
    BY <1>1, <1>2, <2>1, <2>2, CallTop
<1> QED
  BY <1>5, <1>6 DEF GotoUserToUser, RunInv, DelegInv, ArgInv, HartMode

\* Control reaches the decision at toM only on the way to a user level from M.
LEMMA DecidingFacts ==
  ASSUME TypeOK, RunInv, Deciding
  PROVE  /\ stack \in Seq(Frames) /\ stack # <<>>
         /\ Last(stack) \in Frames /\ Last(stack).fn = "goto"
         /\ Last(stack).pc \in {"g0", "toM"}
         /\ Target \in Priv
         /\ \A q \in GotoPcs : Goes(Last(stack), q) \in Frames
         /\ Shape(stack, arg)
         /\ mode = HartMode(real)
         /\ \/ /\ Last(stack).pc = "g0" /\ AboutToSwitch(Target)
               /\ ~(IsUser(Target) /\ IsUser(curr))
            \/ Last(stack).pc = "toM" /\ Arrived(M) /\ IsUser(Target)
<1>1. CASE Running("goto", "g0") /\ ~(IsUser(Target) /\ IsUser(curr))
  BY <1>1, RunningGoto
<1>2. CASE Running("goto", "toM")
  <2>1. GotoTop(Last(stack)) /\ Last(stack).pc = "toM"
    BY <1>2, RunningGoto
  <2> QED
    BY <1>2, <2>1, RunningGoto DEF GotoTop, Target
<1> QED
  BY <1>1, <1>2 DEF Deciding

LEMMA ArrivedKeeps ==
  ASSUME TypeOK, RunInv, GotoArrived, status' = "run"
  PROVE  RunInv'
<1>1. /\ real = Target /\ curr' = Target /\ stack' = Front(stack)
      /\ UNCHANGED <<mode, spp, medeleg, real, arg, excpt, armed, status>>
  BY DEF GotoArrived
<1>2. /\ stack \in Seq(Frames) /\ stack # <<>> /\ Last(stack).fn = "goto"
      /\ Shape(stack, arg) /\ Switchable(Target)
  <2>1. Last(stack).pc # "toM"
    BY <1>1, DecidingFacts DEF GotoArrived, Arrived, IsUser, VU, HU, M
  <2> QED
    BY <2>1, DecidingFacts DEF GotoArrived, AboutToSwitch
<1>3. Shape(stack', arg')
  BY <1>1, <1>2, ShapePop
<1>4. TopInv'
  BY <1>1, <1>2, ReturnTop DEF Target
<1>5. ArgInv'
  BY <1>1, <1>2 DEF RunInv, ArgInv, Switchable, HS, M
<1> QED
  BY <1>1, <1>3, <1>4, <1>5 DEF RunInv, DelegInv, HartMode

LEMMA RaiseViaHSKeeps ==
  ASSUME TypeOK, RunInv, GotoRaiseViaHS, status' = "run"
  PROVE  RunInv'
<1>1. /\ stack \in Seq(Frames) /\ stack # <<>> /\ Last(stack).fn = "goto"
      /\ Goes(Last(stack), "viaHS") \in Frames
      /\ Shape(stack, arg) /\ AboutToSwitch(M)
  BY DecidingFacts DEF GotoRaiseViaHS, GotoPcs, Arrived, HU, M
<1>2. /\ stack' = Push(At(stack, "viaHS"), GotoFrame(HS))
      /\ real # M /\ curr = HU /\ Target = M
      /\ UNCHANGED <<mode, spp, medeleg, curr, real, arg, excpt, armed>>
  BY DEF GotoRaiseViaHS, Call
<1>3. Len(stack) > 1 => stack[Len(stack) - 1].pc # "fromHS"
  BY <1>1, <1>2 DEF AboutToSwitch, UnderFrom, HU, HS
<1>4. Shape(stack', arg')
  <2>1. GotoFrame(HS) \in Frames
    BY FrameFacts DEF Priv, VU, HS, M
  <2>2. Link(Goes(Last(stack), "viaHS"), GotoFrame(HS), arg)
    BY <1>1, <1>2 DEF Link, Goes, GotoFrame, Target
  <2>3. GotoFrame(HS).fn # "reset" /\ GotoFrame(HS).pc # "toM" /\ Last(stack).fn \notin Handlers
    BY <1>1 DEF GotoFrame, Handlers
  <2>4. Shape(Push(At(stack, "viaHS"), GotoFrame(HS)), arg)
    BY <1>1, <1>3, <2>1, <2>2, <2>3, ShapeCall
  <2> QED
    BY <1>2, <2>4
<1>5. TopInv'
  <2>1. Switchable(HS)'
    BY <1>1, <1>2 DEF AboutToSwitch, Switchable, Unsupported, IsUser, VU, HU, VS, HS, M
  <2>2. HS \in Priv /\ Last(stack).fn \notin Handlers
    BY <1>1 DEF Priv, VU, HS, M, Handlers
  <2>3. UnderHandler(1) => real' = HS
    BY <1>1, <1>2 DEF AboutToSwitch
  <2> QED
    BY <1>1, <1>2, <2>1, <2>2, <2>3, CallTop
<1> QED
  BY <1>2, <1>4, <1>5 DEF RunInv, DelegInv, ArgInv, HartMode

LEMMA SecondHopKeeps ==
  ASSUME TypeOK, RunInv, GotoSecondHop, status' = "run"
  PROVE  RunInv'
<1>1. /\ stack \in Seq(Frames) /\ stack # <<>> /\ Last(stack).fn = "goto"
      /\ Last(stack).pc = "viaHS" /\ Goes(Last(stack), "fromHS") \in Frames
      /\ Shape(stack, arg) /\ GotoTop(Last(stack))
  BY RunningGoto DEF GotoSecondHop, GotoPcs
<1>2. /\ stack' = Push(At(stack, "fromHS"), GotoFrame(M))
      /\ UNCHANGED <<mode, spp, medeleg, curr, real, arg, excpt, armed>>
  BY DEF GotoSecondHop, Call
<1>3. Arrived(HS) /\ Last(stack).to = M
  BY <1>1 DEF GotoTop
<1>4. Len(stack) > 1 => stack[Len(stack) - 1].pc # "fromHS"
  BY <1>1, GotoBelow DEF Handlers
<1>5. Shape(stack', arg')
  <2>1. GotoFrame(M) \in Frames
    BY FrameFacts DEF Priv, VU, M
  <2>2. Link(Goes(Last(stack), "fromHS"), GotoFrame(M), arg)
    BY <1>1, <1>3 DEF Link, Goes, GotoFrame
  <2>3. GotoFrame(M).fn # "reset" /\ GotoFrame(M).pc # "toM" /\ Last(stack).fn \notin Handlers
    BY <1>1 DEF GotoFrame, Handlers
  <2>4. Shape(Push(At(stack, "fromHS"), GotoFrame(M)), arg)
    BY <1>1, <1>4, <2>1, <2>2, <2>3, ShapeCall
  <2> QED
    BY <1>2, <2>4
<1>6. TopInv'
  <2>1. Switchable(M)'
    BY <1>2, <1>3 DEF Arrived, Switchable, Unsupported, VU, HU, VS, HS, M
  <2>2. M \in Priv /\ Last(stack).fn \notin Handlers
    BY <1>1 DEF Priv, VU, M, Handlers
  <2>3. curr' = HS /\ real' = HS
    BY <1>2, <1>3 DEF Arrived
  <2> QED
    BY <1>1, <1>2, <2>1, <2>2, <2>3, CallTop
<1> QED
  BY <1>2, <1>5, <1>6 DEF RunInv, DelegInv, ArgInv, HartMode

\* An ecall overwrites ecall_args only while no frame below waits for them, or
\* with what they already ask.
LEMMA WaitingAgree ==
  ASSUME TypeOK, RunInv, stack # <<>>, Last(stack).fn = "goto", AboutToSwitch(Target),
         real # Target
  PROVE  \/ Target = arg
         \/ \A i \in 1..(Len(stack) - 1) : stack[i].fn \notin Handlers /\ stack[i].pc # "ecall"
<1> PICK n, t, p : n \in Nat /\ n = Len(stack) /\ t = Target /\ p = stack[n - 1]
  BY DEF TypeOK
<1> SUFFICES ASSUME t # arg
             PROVE  \A i \in 1..(n - 1) : stack[i].fn \notin Handlers /\ stack[i].pc # "ecall"
  OBVIOUS
<1>1. stack \in Seq(Frames) /\ Shape(stack, arg)
  BY DEF TypeOK, RunInv
<1>2. CASE n <= 1
  BY <1>2
<1>3. CASE n > 1
  <2>1. /\ p \in Frames
        /\ \/ p.fn = "goto" /\ p.pc = "toM" /\ n = 2
           \/ p.fn = "goto" /\ p.pc = "viaHS" /\ p.to = M /\ t = HS
           \/ p.fn = "goto" /\ p.pc = "fromHS" /\ p.to = M /\ t = M
           \/ p.fn = "reset" /\ p.pc = "r1" /\ n = 2
    BY <1>1, <1>3, GotoBelow DEF Target
  <2>2. CASE n = 2
    BY <2>1, <2>2 DEF Handlers
  <2>3. CASE n > 2
    <3>0. n # 2
      <4>1. \A m \in Nat : m > 2 => m # 2
        OBVIOUS
      <4> QED
        BY <2>3, <4>1
    <3>1. p.fn = "goto" /\ p.pc \in {"viaHS", "fromHS"} /\ p.to = M
      BY <2>1, <3>0
    <3> PICK q : q = stack[n - 2]
      OBVIOUS
    <3>2. q \in Frames /\ Link(q, p, arg)
      <4>1. n - 2 \in 1..(Len(stack) - 1) /\ n - 2 + 1 = n - 1
        BY <2>3
      <4> QED
        BY <1>1, <4>1 DEF Shape
    <3>3. q.fn \notin Handlers
      <4>1. SUFFICES ASSUME q.fn \in Handlers PROVE FALSE
        OBVIOUS
      <4>2. arg = M
        BY <3>1, <3>2, <4>1 DEF Link, Handlers
      <4>3. p.pc = "viaHS" /\ t = HS
        BY <2>1, <2>3, <4>2
      <4>4. UnderVia /\ UnderHandler(2)
        BY <2>3, <4>1, <4>3 DEF UnderVia, UnderHandler
      <4> QED
        BY <4>3, <4>4 DEF AboutToSwitch
    <3>4. q.fn = "reset" \/ q.pc = "toM"
      BY <3>1, <3>2, <3>3 DEF Link, Handlers, HS, M
    <3>5. q.pc # "ecall"
      BY <3>2, <3>4, FrameFacts DEF ResetPcs
    <3>6. n = 3
      <4>1. n - 2 \in 2..Len(stack) => q.fn # "reset" /\ q.pc # "toM"
        BY <1>1 DEF Shape
      <4> QED
        BY <2>3, <3>4, <4>1
    <3> QED
      BY <3>1, <3>3, <3>5, <3>6 DEF Handlers
  <2> QED
    BY <1>3, <2>2, <2>3
<1> QED
  BY <1>2, <1>3

\* The ecall of a supported switch is an S-mode one, taken to M for a switch to
\* M, or a U-mode one, taken to S.
LEMMA EcallLevel ==
  ASSUME TypeOK, RunInv, GotoEcall
  PROVE  \/ /\ EcallCause = "ECS" /\ Level("ECS") = "M" /\ Target = M
         \/ /\ EcallCause = "ECU" /\ Level("ECU") = "S"
            /\ IsUser(curr) /\ Target \in {HS, M}
<1>1. /\ real # Target /\ Target > curr /\ ~(Target = M /\ curr = HU)
      /\ Target \in Priv /\ curr \in Priv /\ real \in Priv /\ mode = HartMode(real)
      /\ "ECU" \in medeleg /\ "ECS" \notin medeleg
  BY DecidingFacts DEF GotoEcall, TypeOK, RunInv, DelegInv
<1>2. /\ Switchable(Target)
      /\ ~(IsUser(Target) /\ IsUser(curr))
  BY <1>1, DecidingFacts DEF GotoEcall, AboutToSwitch, Arrived, IsUser, VU, HU, M
<1>3. \/ real = HS /\ Target = M
      \/ real = VS /\ Target = M
      \/ IsUser(real) /\ IsUser(curr) /\ Target \in {HS, M}
  BY <1>1, <1>2 DEF Switchable, Unsupported, IsUser, Priv, VU, HU, VS, HS, M
<1>4. (mode = "S" /\ Target = M) \/ (mode = "U" /\ IsUser(curr) /\ Target \in {HS, M})
  BY <1>1, <1>3 DEF HartMode, IsUser, VU, HU, VS, HS, M
<1> QED
  BY <1>1, <1>4 DEF EcallCause, Level

LEMMA EcallKeeps ==
  ASSUME TypeOK, RunInv, GotoEcall, status' = "run"
  PROVE  RunInv'
<1> PICK c, h, t : c = EcallCause /\ h = HandlerFrame(Level(c), c) /\ t = Target
  OBVIOUS
<1>1. /\ stack \in Seq(Frames) /\ stack # <<>> /\ Last(stack).fn = "goto"
      /\ Last(stack).pc = "g0"
      /\ Goes(Last(stack), "ecall") \in Frames
      /\ Shape(stack, arg) /\ AboutToSwitch(t)
      /\ t > curr /\ real # t /\ t \in Priv
  BY DecidingFacts DEF GotoEcall, GotoPcs, Arrived, IsUser, VU, HU, M, TypeOK, Priv
<1>2. /\ stack' = Push(At(stack, "ecall"), h)
      /\ mode' = Level(c)
      /\ real' = IF Level(c) = "M" THEN M ELSE HS
      /\ arg' = t /\ UNCHANGED <<medeleg, curr>>
  BY DEF GotoEcall, Trap
<1>3. \/ c = "ECS" /\ Level(c) = "M" /\ t = M
      \/ c = "ECU" /\ Level(c) = "S" /\ IsUser(curr) /\ t \in {HS, M}
  BY EcallLevel
<1>4. /\ h \in Frames /\ h.pc = "h0" /\ h.cause = c /\ c \in {"ECU", "ECS"}
      /\ h.fn = IF Level(c) = "M" THEN "mhandler" ELSE "hshandler"
  BY <1>3, FrameFacts DEF HandlerFrame, Causes, Ecalls
<1>5. Shape(stack, t)
  BY <1>1, WaitingAgree, ShapeArg
<1>6. Shape(stack', arg')
  <2>1. h.fn \in Handlers /\ Last(stack).fn \notin Handlers
    BY <1>1, <1>4 DEF Handlers
  <2>2. Link(Goes(Last(stack), "ecall"), h, t)
    <3>1. h.fn = "mhandler" => t = M
      BY <1>3, <1>4
    <3> QED
      BY <1>1, <1>4, <2>1, <3>1 DEF Link, Goes, Target
  <2>3. h.fn # "reset" /\ h.pc # "toM"
    BY <1>4
  <2>4. Shape(Push(At(stack, "ecall"), h), t)
    BY <1>1, <1>4, <1>5, <2>1, <2>2, <2>3, ShapeCall
  <2> QED
    BY <1>2, <2>4
<1>7. TopInv'
  <2>1. stack' # <<>> /\ Last(stack') = h /\ Len(stack') = Len(stack) + 1
    BY <1>1, <1>2, <1>4, CallFacts
  <2>2. Len(stack') # 1
    <3>1. Len(stack) \in Nat /\ Len(stack) > 0
      BY <1>1
    <3> QED
      BY <2>1, <3>1
  <2>3. real' = LevelOf(h)
    BY <1>2, <1>4 DEF LevelOf
  <2>4. \/ h.fn = "mhandler" /\ arg' = M
        \/ h.fn = "hshandler" /\ IsUser(curr') /\ arg' \in {HS, M}
    BY <1>2, <1>3, <1>4
  <2>5. HandlerTop(h)'
    BY <1>4, <2>2, <2>3, <2>4 DEF HandlerTop
  <2>6. h.fn \in Handlers /\ h.fn # "goto" /\ h.fn # "reset"
    BY <1>4 DEF Handlers
  <2> QED
    BY <2>1, <2>5, <2>6 DEF TopInv
<1>8. ArgInv'
  BY <1>1, <1>2, <1>3 DEF ArgInv, TypeOK, Priv, VU, HS, M
<1>9. mode' = HartMode(real')
  BY <1>2, <1>3 DEF HartMode, VS, HS, M
<1> QED
  BY <1>2, <1>6, <1>7, <1>8, <1>9 DEF RunInv, DelegInv, HartMode

LEMMA LowerNothingNever ==
  ASSUME TypeOK, RunInv, GotoLowerNothing
  PROVE  FALSE
<1>1. real # Target /\ Target = curr
  BY DEF GotoLowerNothing, Lowering
<1>2. \/ Switchable(Target)
      \/ Arrived(M) /\ IsUser(Target)
  BY DecidingFacts DEF GotoLowerNothing, Lowering, AboutToSwitch
<1> QED
  BY <1>1, <1>2 DEF Switchable, Arrived, IsUser, VU, HU, HS, M

LEMMA LowerKeeps ==
  ASSUME TypeOK, RunInv, GotoLower, status' = "run"
  PROVE  RunInv'
<1>1. /\ stack \in Seq(Frames) /\ stack # <<>> /\ Last(stack).fn = "goto"
      /\ Goes(Last(stack), "window") \in Frames
      /\ Shape(stack, arg) /\ Target \in Priv
      /\ mode = HartMode(real)
      /\ Switchable(Target) \/ (Arrived(M) /\ IsUser(Target))
  BY DecidingFacts DEF GotoLower, Lowering, GotoPcs, AboutToSwitch
<1>2. /\ real # Target /\ Target <= curr /\ Target # curr /\ LowerRefusal(Target) = "none"
      /\ real' = Target
      /\ mode' = IF curr = M THEN HartMode(Target) ELSE PrevPriv(Target)
      /\ stack' = At(stack, "window")
      /\ UNCHANGED <<medeleg, curr, arg>>
  BY DEF GotoLower, Lowering
<1>3. curr \in Priv /\ ~(curr = VS /\ Target = HU) /\ curr \notin {VU, HU}
  BY <1>2 DEF LowerRefusal, TypeOK
<1>4. Target # M
  BY <1>1, <1>2, <1>3 DEF Priv, VU, M
<1>5. mode' = HartMode(Target)
  BY <1>1, <1>2, <1>3 DEF HartMode, PrevPriv, Priv, VU, HU, VS, HS, M
<1>6. Shape(stack', arg')
  BY <1>1, <1>2, ShapeAt
<1>7. TopInv'
  <2> PICK g : g = Goes(Last(stack), "window")
    OBVIOUS
  <2>1. stack' # <<>> /\ Last(stack') = g
    BY <1>1, <1>2, AtFacts
  <2>2. g.fn = "goto" /\ g.pc = "window" /\ g.to = Target
    BY <1>1 DEF Goes, Target
  <2>3. GotoTop(g)'
    BY <1>2, <1>4, <2>2 DEF GotoTop
  <2> QED
    BY <2>1, <2>2, <2>3 DEF TopInv, Handlers
<1> QED
  BY <1>2, <1>5, <1>6, <1>7 DEF RunInv, DelegInv, ArgInv, HartMode

\* The two returns to a caller that leave curr_priv at the level asked for.
LEMMA LoweredKeeps ==
  ASSUME TypeOK, RunInv, GotoLowered, status' = "run"
  PROVE  RunInv'
<1>1. /\ stack \in Seq(Frames) /\ stack # <<>> /\ Last(stack).fn = "goto"
      /\ Shape(stack, arg) /\ real = Target /\ Target # M
  BY RunningGoto DEF GotoLowered, GotoTop, Target
<1>2. /\ curr' = Target /\ stack' = Front(stack)
      /\ UNCHANGED <<mode, spp, medeleg, real, arg, excpt, armed, status>>
  BY DEF GotoLowered
<1>3. Shape(stack', arg')
  BY <1>1, <1>2, ShapePop
<1>4. TopInv'
  BY <1>1, <1>2, ReturnTop DEF Target
<1> QED
  BY <1>1, <1>2, <1>3, <1>4 DEF RunInv, DelegInv, ArgInv, HartMode

LEMMA ReturnKeeps ==
  ASSUME TypeOK, RunInv, GotoReturn, status' = "run"
  PROVE  RunInv'
<1>1. /\ stack \in Seq(Frames) /\ stack # <<>> /\ Last(stack).fn = "goto"
      /\ Shape(stack, arg) /\ Arrived(Last(stack).to)
  <2>1. CASE Running("goto", "fromHS")
    BY <2>1, RunningGoto DEF GotoTop
  <2>2. CASE Running("goto", "ret")
    BY <2>2, RunningGoto DEF GotoTop
  <2> QED
    BY <2>1, <2>2 DEF GotoReturn
<1>2. /\ stack' = Front(stack)
      /\ UNCHANGED <<mode, spp, medeleg, curr, real, arg, excpt, armed, status>>
  BY DEF GotoReturn
<1>3. Shape(stack', arg')
  BY <1>1, <1>2, ShapePop
<1>4. TopInv'
  BY <1>1, <1>2, ReturnTop DEF Arrived
<1> QED
  BY <1>2, <1>3, <1>4 DEF RunInv, DelegInv, ArgInv, HartMode

-----------------------------------------------------------------------------
(***************************************************************************)
(* The handlers keep the invariant.                                        *)
(***************************************************************************)
LEMMA RunningHandler ==
  ASSUME TypeOK, RunInv, NEW h \in Handlers, NEW pc, Running(h, pc)
  PROVE  /\ stack \in Seq(Frames) /\ stack # <<>>
         /\ Last(stack) \in Frames /\ Last(stack).fn = h /\ Last(stack).pc = pc
         /\ Cause \in Causes
         /\ \A q \in HandlerPcs : Goes(Last(stack), q) \in Frames
         /\ Shape(stack, arg)
         /\ HandlerTop(Last(stack))
         /\ mode = HartMode(real)
         /\ Len(stack) = 1 \/ Len(stack) > 1
<1>1. /\ stack \in Seq(Frames) /\ stack # <<>>
      /\ Last(stack) \in Frames /\ Last(stack).fn = h /\ Last(stack).pc = pc
      /\ Cause \in Causes
  BY RunningTypes DEF Running
<1>2. \A q \in HandlerPcs : Goes(Last(stack), q) \in Frames
  BY <1>1, FrameFacts
<1>3. HandlerTop(Last(stack)) /\ Shape(stack, arg) /\ mode = HartMode(real)
  BY <1>1 DEF RunInv, TopInv
<1> QED
  BY <1>1, <1>2, <1>3, LenCases

\* The handler of an ecall is where goto_priv can go on to the level asked for.
LEMMA ServesGotoKeeps ==
  ASSUME TypeOK, RunInv, HandlerServesGoto, status' = "run"
  PROVE  RunInv'
<1> PICK f : f = Last(stack)
  OBVIOUS
<1>1. PICK h \in Handlers : Running(h, "h0")
  BY DEF HandlerServesGoto, Handling
<1>2. /\ stack \in Seq(Frames) /\ stack # <<>> /\ f.fn = h /\ f.pc = "h0"
      /\ Goes(f, "h1") \in Frames
      /\ Shape(stack, arg) /\ HandlerTop(f) /\ mode = HartMode(real)
      /\ Len(stack) = 1 \/ Len(stack) > 1
  BY <1>1, RunningHandler DEF HandlerPcs
<1>3. /\ stack' = Push(At(stack, "h1"), GotoFrame(arg))
      /\ f.cause \in Ecalls /\ arg # None
      /\ UNCHANGED <<mode, spp, medeleg, curr, real, arg, excpt, armed>>
  BY DEF HandlerServesGoto, Call, Cause
<1>4. arg \in Priv /\ (curr = M => arg = M) /\ arg \in {HS, M}
  BY <1>3 DEF TypeOK, RunInv, ArgInv
<1>5. Len(stack) = 1 => f.fn = "mhandler" /\ curr = M /\ real = M /\ arg = M
  BY <1>2, <1>3, <1>4 DEF HandlerTop, LevelOf
<1>6. Len(stack) > 1 => \/ real = M /\ arg = M
                        \/ real = HS /\ IsUser(curr) /\ arg \in {HS, M}
  BY <1>2 DEF HandlerTop, LevelOf
<1>7. Shape(stack', arg')
  <2>1. GotoFrame(arg) \in Frames
    BY <1>4, FrameFacts
  <2>2. Link(Goes(f, "h1"), GotoFrame(arg), arg)
    BY <1>2, <1>3 DEF Link, Goes, GotoFrame
  <2>3. GotoFrame(arg).fn # "reset" /\ GotoFrame(arg).pc # "toM"
    BY DEF GotoFrame
  <2>4. Len(stack) = 1 /\ Last(stack).fn \in Handlers => Last(stack).fn = "mhandler" /\ arg = M
    BY <1>5
  <2>5. Shape(Push(At(stack, "h1"), GotoFrame(arg)), arg)
    BY <1>2, <2>1, <2>2, <2>3, <2>4, ShapeCall
  <2> QED
    BY <1>3, <2>5
<1>8. TopInv'
  <2>1. Switchable(arg)'
    BY <1>2, <1>3, <1>5, <1>6 DEF Switchable
  <2>2. real' \in {HS, M}
    BY <1>2, <1>3, <1>5, <1>6
  <2> PICK t \in Priv : t = arg
    BY <1>4
  <2>3. Switchable(t)' /\ stack' = Push(At(stack, "h1"), GotoFrame(t))
    BY <1>3, <2>1 DEF Switchable
  <2> QED
    BY <1>2, <2>2, <2>3, CallTop
<1> QED
  BY <1>2, <1>3, <1>7, <1>8 DEF RunInv, DelegInv, ArgInv, HartMode

\* Only an exception that stopped a test directly can be accepted as tested.
LEMMA AcceptsKeeps ==
  ASSUME TypeOK, RunInv, HandlerAccepts, status' = "run"
  PROVE  RunInv'
<1> PICK f : f = Last(stack)
  OBVIOUS
<1>1. PICK h \in Handlers : Running(h, "h0")
  BY DEF HandlerAccepts, Handling
<1>2. /\ stack \in Seq(Frames) /\ stack # <<>> /\ f.fn = h /\ f.pc = "h0"
      /\ Goes(f, "h1") \in Frames
      /\ Shape(stack, arg) /\ HandlerTop(f) /\ mode = HartMode(real)
      /\ Len(stack) = 1 \/ Len(stack) > 1
  BY <1>1, RunningHandler DEF HandlerPcs
<1>3. /\ stack' = At(stack, "h1")
      /\ ~(f.cause \in Ecalls /\ arg # None)
      /\ UNCHANGED <<mode, spp, medeleg, curr, real, arg, excpt, armed>>
  BY DEF HandlerAccepts, Cause
<1>4. Len(stack) = 1
  <2>1. Len(stack) > 1 => f.cause \in Ecalls /\ arg \in {HS, M}
    BY <1>2 DEF HandlerTop, Ecalls
  <2> QED
    BY <1>2, <1>3, <2>1 DEF None, HS, M
<1>5. Shape(stack', arg')
  BY <1>2, <1>3, ShapeAt
<1>6. TopInv'
  <2> PICK g : g = Goes(f, "h1")
    OBVIOUS
  <2>1. stack' # <<>> /\ Last(stack') = g /\ Len(stack') = 1
    BY <1>2, <1>3, <1>4, AtFacts
  <2>2. g.fn = f.fn /\ g.pc = "h1" /\ g.cause = f.cause
    BY DEF Goes
  <2>3. HandlerTop(g)'
    BY <1>2, <1>3, <1>4, <2>1, <2>2 DEF HandlerTop, LevelOf, Arrived
  <2> QED
    BY <1>2, <2>1, <2>2, <2>3 DEF TopInv, Handlers
<1> QED
  BY <1>2, <1>3, <1>5, <1>6 DEF RunInv, DelegInv, ArgInv, HartMode

\* The xret that ends a handler goes to the level curr_priv names, and, when the
\* exception was a switch's ecall, that is the level the switch asked for.
LEMMA ReturnsKeeps ==
  ASSUME TypeOK, RunInv, HandlerReturns, status' = "run"
  PROVE  RunInv'
<1> PICK f, p : f = Last(stack) /\ p = stack[Len(stack) - 1]
  OBVIOUS
<1>1. PICK h \in Handlers :
        /\ Running(h, "h1")
        /\ real' = curr
        /\ mode' = ReturnMode
        /\ stack' = Resume(Front(stack), Advances)
        /\ UNCHANGED <<medeleg, curr, arg, status>>
  BY DEF HandlerReturns
<1>2. /\ stack \in Seq(Frames) /\ stack # <<>> /\ f.fn = h /\ f.pc = "h1"
      /\ Shape(stack, arg) /\ HandlerTop(f) /\ mode = HartMode(real)
      /\ Len(stack) = 1 \/ Len(stack) > 1
  BY <1>1, RunningHandler
<1>3. /\ Front(stack) \in Seq(Frames)
      /\ Front(stack) = <<>> <=> Len(stack) = 1
      /\ Len(stack) > 1 => Last(Front(stack)) = p
      /\ Shape(Front(stack), arg)
  BY <1>2, PopFacts, ShapePop
<1>4. CASE Len(stack) = 1
  <2>1. stack' = <<>>
    BY <1>1, <1>3, <1>4 DEF Resume
  <2>2. mode' = HartMode(real')
    <3>1. real = M => mode' = HartMode(curr)
      BY <1>1 DEF ReturnMode
    <3>2. CASE real # M
      <4>1. ~(f.cause \in Ecalls /\ arg # None)
        <5>1. f.cause \in Ecalls /\ arg # None => real = arg /\ curr = M
          BY <1>2, <1>4 DEF HandlerTop, Arrived
        <5>2. curr = M => arg \in {None, M}
          BY DEF RunInv, ArgInv
        <5> QED
          BY <3>2, <5>1, <5>2
      <4>2. real = LevelOf(f)
        BY <1>2, <4>1 DEF HandlerTop
      <4>3. real = HS /\ f.fn = "hshandler"
        BY <1>2, <3>2, <4>2 DEF LevelOf, Handlers
      <4>4. curr # M
        BY <1>2, <1>4, <4>3 DEF HandlerTop
      <4> QED
        BY <1>1, <4>3, <4>4 DEF ReturnMode, HartMode, TypeOK, Priv, VU, HS, VS, M
    <3> QED
      BY <1>1, <3>1, <3>2
  <2>3. Shape(stack', arg')
    BY <1>1, <1>3, <1>4, <2>1
  <2>4. TopInv'
    BY <1>1, <2>1 DEF TopInv
  <2> QED
    BY <1>1, <2>2, <2>3, <2>4 DEF RunInv, DelegInv, ArgInv
<1>5. CASE Len(stack) > 1
  <2>1. /\ p \in Frames /\ p.fn = "goto" /\ p.pc = "ecall" /\ p.to = arg
        /\ f.cause \in {"ECU", "ECS"}
    <3>1. PICK n \in Nat : n = Len(stack)
      BY <1>2
    <3>2. n \in 2..Len(stack) /\ stack[n] = f
      BY <1>5, <3>1 DEF Last
    <3> QED
      BY <1>2, <3>1, <3>2, HandlerBelow
  <2>2. arg \in Priv /\ arg # None
    BY <2>1, FrameFacts DEF None, Priv, VU, M
  <2>3. Arrived(arg) /\ arg \in {HS, M}
    BY <1>2, <2>1, <2>2 DEF HandlerTop, Ecalls, RunInv, ArgInv
  <2>4. Advances
    BY <2>1, <2>3 DEF Advances, Cause, Interrupts, Arrived
  <2>5. Front(stack) # <<>> /\ Last(Front(stack)) = p /\ stack' = At(Front(stack), "ret")
    <3>1. Front(stack) # <<>>
      BY <1>2, <1>3, <1>5, LenCases
    <3> QED
      BY <1>1, <1>3, <1>5, <2>1, <2>4, <3>1 DEF Resume
  <2> PICK g : g = Goes(p, "ret")
    OBVIOUS
  <2>6. g \in Frames /\ g.fn = "goto" /\ g.pc = "ret" /\ g.to = arg
    BY <2>1, FrameFacts DEF Goes, GotoPcs
  <2>7. Shape(stack', arg')
    BY <1>1, <1>3, <1>5, <2>5, <2>6, ShapeAt
  <2>8. stack' # <<>> /\ Last(stack') = g
    BY <1>3, <1>5, <2>5, <2>6, AtFacts
  <2>9. TopInv'
    <3>1. curr' = arg /\ real' = arg
      BY <1>1, <2>3 DEF Arrived
    <3>2. GotoTop(g)'
      BY <2>6, <3>1 DEF GotoTop, Arrived
    <3> QED
      BY <2>6, <2>8, <3>2 DEF TopInv, Handlers
  <2>10. mode' = HartMode(real')
    BY <1>1, <2>3 DEF ReturnMode, HartMode, Arrived, VS, HS, M
  <2> QED
    BY <1>1, <2>7, <2>9, <2>10 DEF RunInv, DelegInv, ArgInv
<1> QED
  BY <1>2, <1>4, <1>5

-----------------------------------------------------------------------------
(***************************************************************************)
(* reset_state, the test and the interrupts keep the invariant.            *)
(***************************************************************************)
LEMMA RunningReset ==
  ASSUME TypeOK, RunInv, NEW pc, Running("reset", pc)
  PROVE  /\ stack \in Seq(Frames) /\ stack # <<>> /\ Len(stack) = 1
         /\ Last(stack).fn = "reset" /\ Last(stack).pc = pc
         /\ \A q \in ResetPcs : Goes(Last(stack), q) \in Frames
         /\ Shape(stack, arg)
         /\ ResetTop(Last(stack))
         /\ mode = HartMode(real)
<1>1. /\ stack \in Seq(Frames) /\ stack # <<>>
      /\ Last(stack) \in Frames /\ Last(stack).fn = "reset" /\ Last(stack).pc = pc
  BY RunningTypes DEF Running
<1>2. \A q \in ResetPcs : Goes(Last(stack), q) \in Frames
  BY <1>1, FrameFacts
<1>3. ResetTop(Last(stack)) /\ Shape(stack, arg) /\ mode = HartMode(real)
  BY <1>1 DEF RunInv, TopInv, Handlers
<1>4. Len(stack) = 1
  <2>1. PICK n \in Nat : n = Len(stack) /\ n > 0
    BY <1>1
  <2>2. n \in 2..Len(stack) => stack[n].fn # "reset"
    BY <1>3 DEF Shape
  <2> QED
    BY <1>1, <2>1, <2>2 DEF Last
<1> QED
  BY <1>1, <1>2, <1>3, <1>4

LEMMA ResetGotoKeeps ==
  ASSUME TypeOK, RunInv, ResetGoto, status' = "run"
  PROVE  RunInv'
<1>1. /\ stack \in Seq(Frames) /\ stack # <<>> /\ Len(stack) = 1
      /\ Last(stack).fn = "reset" /\ Goes(Last(stack), "r1") \in Frames
      /\ Shape(stack, arg) /\ curr = real
  BY RunningReset DEF ResetGoto, ResetPcs, ResetTop
<1>2. /\ stack' = Push(At(stack, "r1"), GotoFrame(M))
      /\ UNCHANGED <<mode, spp, medeleg, curr, real, arg, excpt, armed>>
  BY DEF ResetGoto, Call
<1>3. Shape(stack', arg')
  <2>1. GotoFrame(M) \in Frames
    BY FrameFacts DEF Priv, VU, M
  <2>2. Link(Goes(Last(stack), "r1"), GotoFrame(M), arg)
    BY <1>1 DEF Link, Goes, GotoFrame
  <2>3. GotoFrame(M).fn # "reset" /\ GotoFrame(M).pc # "toM" /\ Last(stack).fn \notin Handlers
    BY <1>1 DEF GotoFrame, Handlers
  <2>4. Shape(Push(At(stack, "r1"), GotoFrame(M)), arg)
    BY <1>1, <2>1, <2>2, <2>3, ShapeCall
  <2> QED
    BY <1>2, <2>4
<1>4. TopInv'
  <2>1. Switchable(M)'
    BY <1>1, <1>2 DEF Switchable, Unsupported, VU, HU, VS, HS, M
  <2>2. M \in Priv /\ Last(stack).fn \notin Handlers
    BY <1>1 DEF Priv, VU, M, Handlers
  <2> QED
    BY <1>1, <1>2, <2>1, <2>2, CallTop
<1> QED
  BY <1>2, <1>3, <1>4 DEF RunInv, DelegInv, ArgInv, HartMode

LEMMA ResetCsrsKeeps ==
  ASSUME TypeOK, RunInv, ResetCsrs, status' = "run"
  PROVE  RunInv'
<1>1. /\ stack \in Seq(Frames) /\ stack # <<>> /\ Len(stack) = 1
      /\ Shape(stack, arg) /\ curr = M /\ real = M
  BY RunningReset DEF ResetCsrs, ResetTop, Arrived
<1>2. /\ stack' = Front(stack) /\ medeleg' = {"ECU"}
      /\ UNCHANGED <<mode, curr, real, arg, excpt, armed, status>>
  BY DEF ResetCsrs
<1>3. stack' = <<>>
  BY <1>1, <1>2, PopFacts
<1>4. Shape(stack', arg')
  BY <1>1, <1>2, ShapePop
<1> QED
  BY <1>1, <1>2, <1>3, <1>4 DEF RunInv, TopInv, DelegInv, ArgInv, HartMode

\* A single frame has the shape of a stack.
LEMMA OneFrame ==
  ASSUME NEW f \in Frames, NEW a
  PROVE  /\ Push(<<>>, f) # <<>> /\ Len(Push(<<>>, f)) = 1 /\ Last(Push(<<>>, f)) = f
         /\ Shape(Push(<<>>, f), a)
<1>1. Push(<<>>, f) # <<>> /\ Len(Push(<<>>, f)) = 1 /\ Last(Push(<<>>, f)) = f
  <2>1. <<>> \in Seq(Frames) /\ Len(<<>>) = 0
    OBVIOUS
  <2>2. Push(<<>>, f) # <<>> /\ Last(Push(<<>>, f)) = f
    BY <2>1, PushFacts
  <2>3. Len(Push(<<>>, f)) = Len(<<>>) + 1
    BY <2>1, PushFacts
  <2> QED
    BY <2>1, <2>2, <2>3
<1>2. \A s : Len(s) = 1 => Shape(s, a)
  <2>1. 1..(1 - 1) = {} /\ 2..1 = {} /\ ~(1 > 1)
    OBVIOUS
  <2> SUFFICES ASSUME NEW s, Len(s) = 1 PROVE Shape(s, a)
    OBVIOUS
  <2>2. \A i \in 1..(Len(s) - 1) : FALSE
    BY <2>1
  <2>3. \A i \in 2..Len(s) : FALSE
    BY <2>1
  <2>4. ~(Len(s) > 1)
    BY <2>1
  <2> QED
    BY <2>2, <2>3, <2>4 DEF Shape
<1> QED
  BY <1>1, <1>2

LEMMA TwoFrames ==
  ASSUME NEW S, NEW s \in Seq(S), NEW h \in S
  PROVE  Len(s) = 1 =>
           /\ Push(s, h) # <<>> /\ Len(Push(s, h)) = 2 /\ Last(Push(s, h)) = h
           /\ Push(s, h)[1] = s[1] /\ Push(s, h)[2] = h
<1> DEFINE t == Push(s, h)
<1>1. /\ t # <<>>
      /\ Len(t) = Len(s) + 1
      /\ \A i \in 1..Len(s) : t[i] = s[i]
      /\ t[Len(s) + 1] = h
      /\ Last(t) = h
  BY PushFacts
<1> HIDE DEF t
<1>2. Len(s) = 1 => Len(t) = 2 /\ t[1] = s[1] /\ t[2] = h
  BY <1>1
<1> QED
  BY <1>1, <1>2 DEF t

\* An exception or interrupt that stops the test itself.
LEMMA FirstTrap ==
  ASSUME TypeOK, RunInv, stack = <<>>, NEW c \in Causes, Trap(c, stack),
         c \in Ecalls => c = "ECM" /\ curr = M,
         UNCHANGED <<medeleg, curr, arg>>, status' = "run"
  PROVE  RunInv'
<1> PICK h : h = HandlerFrame(Level(c), c)
  OBVIOUS
<1>1. /\ stack' = Push(<<>>, h)
      /\ mode' = Level(c)
      /\ real' = IF Level(c) = "M" THEN M ELSE HS
  BY DEF Trap
<1>2. Level(c) = "M" \/ (Level(c) = "S" /\ mode # "M")
  BY DEF Level
<1>3. /\ h \in Frames /\ h.pc = "h0" /\ h.cause = c
      /\ h.fn = IF Level(c) = "M" THEN "mhandler" ELSE "hshandler"
  BY <1>2, FrameFacts DEF HandlerFrame
<1>4. curr = real /\ mode = HartMode(real)
  BY DEF RunInv, TopInv
<1>5. /\ stack' # <<>> /\ Len(stack') = 1 /\ Last(stack') = h
      /\ Shape(stack', arg')
  BY <1>1, <1>3, OneFrame
<1>6. TopInv'
  <2>1. h.fn = "hshandler" => curr' # M
    BY <1>2, <1>3, <1>4 DEF HartMode
  <2>2. c \in Ecalls => h.fn = "mhandler" /\ curr' = M
    BY <1>3, <2>1
  <2>3. real' = LevelOf(h)
    BY <1>1, <1>2, <1>3 DEF LevelOf
  <2>4. HandlerTop(h)'
    BY <1>3, <1>5, <2>1, <2>2, <2>3 DEF HandlerTop
  <2>5. h.fn \in Handlers /\ h.fn # "goto" /\ h.fn # "reset"
    BY <1>3 DEF Handlers
  <2> QED
    BY <1>5, <2>4, <2>5 DEF TopInv
<1>7. mode' = HartMode(real')
  BY <1>1, <1>2 DEF HartMode, VS, HS, M
<1> QED
  BY <1>5, <1>6, <1>7 DEF RunInv, DelegInv, ArgInv

LEMMA TestGotoKeeps ==
  ASSUME Respected, TypeOK, RunInv, TestGoto, status' = "run"
  PROVE  RunInv'
<1>1. PICK t \in Priv : <<curr, t>> \in Switches /\ Call(stack, GotoFrame(t))
  BY DEF TestGoto
<1> PICK g : g = GotoFrame(t)
  OBVIOUS
<1>2. /\ stack = <<>> /\ curr = real
      /\ UNCHANGED <<mode, spp, medeleg, curr, real, arg, excpt, armed>>
  BY DEF TestGoto, MaySwitch, InTest, RunInv, TopInv
<1>3. g \in Frames /\ g.fn = "goto" /\ g.pc = "g0" /\ g.to = t
  BY FrameFacts DEF GotoFrame
<1>4. stack' = Push(<<>>, g)
  BY <1>1, <1>2 DEF Call
<1>5. /\ stack' # <<>> /\ Len(stack') = 1 /\ Last(stack') = g
      /\ Shape(stack', arg')
  BY <1>3, <1>4, OneFrame
<1>6. Switchable(t)'
  BY <1>1, <1>2 DEF Respected, Switchable
<1>7. ~UnderHandler(1)' /\ ~UnderVia' /\ ~UnderFrom'
  BY <1>5 DEF UnderHandler, UnderVia, UnderFrom
<1>8. GotoTop(g)'
  BY <1>3, <1>6, <1>7 DEF GotoTop, AboutToSwitch
<1>9. TopInv'
  BY <1>3, <1>5, <1>8 DEF TopInv, Handlers
<1> QED
  BY <1>2, <1>5, <1>9 DEF RunInv, DelegInv, ArgInv, HartMode

\* goto_priv_u_to_m_direct: the ecall waits below the S-level handler.
LEMMA TestGotoDirectKeeps ==
  ASSUME TypeOK, RunInv, TestGotoDirect, status' = "run"
  PROVE  RunInv'
<1> PICK f, h : f = Goes(GotoFrame(M), "ecall") /\ h = HandlerFrame("S", "ECU")
  OBVIOUS
<1>1. /\ stack = <<>> /\ curr = HU /\ real = HU /\ arg' = M
      /\ Trap(EcallCause, <<f>>) /\ UNCHANGED <<medeleg, curr>>
  BY DEF TestGotoDirect, MaySwitch, InTest, RunInv, TopInv
<1>2. mode = "U" /\ EcallCause = "ECU" /\ Level("ECU") = "S"
  BY <1>1 DEF RunInv, DelegInv, HartMode, EcallCause, Level, HU, VS, HS, M
<1>3. /\ stack' = Push(<<f>>, h) /\ mode' = "S" /\ real' = HS
  BY <1>1, <1>2 DEF Trap
<1>4. /\ f \in Frames /\ f.fn = "goto" /\ f.pc = "ecall" /\ f.to = M
  BY DEF Goes, GotoFrame, Frames, GotoPcs, Priv, VU, M
<1>5. /\ h \in Frames /\ h.fn = "hshandler" /\ h.pc = "h0" /\ h.cause = "ECU"
  BY FrameFacts DEF HandlerFrame, Causes, Ecalls
<1>7. stack' # <<>> /\ Len(stack') = 2 /\ Last(stack') = h /\ stack'[1] = f /\ stack'[2] = h
  <2> DEFINE r == <<f>>
  <2>1. r \in Seq(Frames) /\ Len(r) = 1 /\ r[1] = f
    BY <1>4
  <2>2. stack' = Push(r, h)
    BY <1>3
  <2> HIDE DEF r
  <2> QED
    BY <1>5, <2>1, <2>2, TwoFrames
<1>8. Shape(stack', arg')
  <2>1. Link(f, h, M)
    BY <1>4, <1>5 DEF Link, Handlers
  <2>2. f.fn \notin Handlers
    BY <1>4 DEF Handlers
  <2> PICK s : s = stack'
    OBVIOUS
  <2>3. \A i \in 1..(Len(s) - 1) : Link(s[i], s[i+1], M)
    BY <1>7, <2>1
  <2>4. \A i \in 2..Len(s) : s[i].fn # "reset" /\ s[i].pc # "toM"
    BY <1>5, <1>7
  <2> QED
    BY <1>1, <1>7, <2>2, <2>3, <2>4 DEF Shape
<1>9. TopInv'
  <2>1. HandlerTop(h)'
    BY <1>1, <1>3, <1>5, <1>7 DEF HandlerTop, LevelOf, IsUser
  <2> QED
    BY <1>5, <1>7, <2>1 DEF TopInv, Handlers
<1>10. ArgInv'
  BY <1>1 DEF ArgInv, HU, M
<1> QED
  BY <1>1, <1>3, <1>8, <1>9, <1>10 DEF RunInv, DelegInv, HartMode, VS, HS, M

\* The invariant is about these six variables only.
LEMMA SameKeeps ==
  ASSUME RunInv, UNCHANGED <<stack, mode, medeleg, curr, real, arg>>
  PROVE  RunInv'
  BY DEF RunInv, DelegInv, ArgInv, TopInv, GotoTop, AboutToSwitch, Switchable, UnderHandler,
         UnderVia, UnderFrom, Arrived, HandlerTop, ResetTop, HartMode

LEMMA TestKeeps ==
  ASSUME Respected, TypeOK, RunInv, status = "run", Test, status' = "run"
  PROVE  RunInv'
<1>1. CASE TestGoto
  BY <1>1, TestGotoKeeps
<1>2. CASE TestGotoDirect
  BY <1>2, TestGotoDirectKeeps
<1>3. CASE TestSetup \/ TestAsserts
  <2>1. UNCHANGED <<stack, mode, medeleg, curr, real, arg>>
    BY <1>3 DEF TestSetup, TestAsserts
  <2> QED
    BY <2>1, SameKeeps
<1>4. CASE TestFault
  <2>1. PICK c \in Faults : Trap(c, stack)
    BY <1>4 DEF TestFault
  <2>2. c \in Causes /\ c \notin Ecalls
    BY ConstantsAssumption DEF ConstantsAssumption, Causes, InstFaults, Ecalls
  <2>3. stack = <<>> /\ UNCHANGED <<medeleg, curr, arg>>
    BY <1>4 DEF TestFault, InTest
  <2> QED
    BY <2>1, <2>2, <2>3, FirstTrap
<1>5. CASE TestBareEcall
  <2>1. /\ stack = <<>> /\ curr = M /\ real = M
        /\ Trap(EcallCause, stack) /\ UNCHANGED <<medeleg, curr, arg>>
    BY <1>5 DEF TestBareEcall, InTest, Respected, RunInv, TopInv
  <2>2. EcallCause = "ECM"
    BY <2>1 DEF RunInv, HartMode, EcallCause
  <2>3. "ECM" \in Causes
    BY DEF Causes, Ecalls
  <2> QED
    BY <2>1, <2>2, <2>3, FirstTrap
<1>6. CASE TestDelegates
  <2>1. DelegInv'
    BY <1>6 DEF TestDelegates, Respected, DelegInv
  <2> QED
    BY <1>6, <2>1 DEF TestDelegates, RunInv, ArgInv, TopInv, GotoTop, AboutToSwitch, Switchable,
       UnderHandler, UnderVia, UnderFrom, Arrived, HandlerTop, ResetTop, InTest, HartMode
<1>7. CASE TestReset
  <2>1. /\ stack = <<>> /\ curr = real /\ stack' = Push(<<>>, ResetFrame)
        /\ UNCHANGED <<mode, spp, medeleg, curr, real, arg, excpt>>
    BY <1>7 DEF TestReset, InTest, RunInv, TopInv, Call
  <2>2. /\ stack' # <<>> /\ Len(stack') = 1 /\ Last(stack') = ResetFrame
        /\ Shape(stack', arg')
    BY <2>1, FrameFacts, OneFrame
  <2>3. TopInv'
    BY <2>1, <2>2 DEF TopInv, ResetTop, ResetFrame, Handlers
  <2> QED
    BY <2>1, <2>2, <2>3 DEF RunInv, DelegInv, ArgInv, HartMode
<1> QED
  BY <1>1, <1>2, <1>3, <1>4, <1>5, <1>6, <1>7 DEF Test

LEMMA InterruptKeeps ==
  ASSUME Respected, TypeOK, RunInv, TakeInterrupt, status' = "run"
  PROVE  RunInv'
<1>1. PICK c \in Irqs : Trap(c, stack)
  BY DEF TakeInterrupt
<1>2. c \in Causes /\ c \notin Ecalls
  BY ConstantsAssumption DEF ConstantsAssumption, Causes, Interrupts, Ecalls
<1>3. stack = <<>> /\ UNCHANGED <<medeleg, curr, arg>>
  BY DEF TakeInterrupt, IrqPoint, Respected
<1> QED
  BY <1>1, <1>2, <1>3, FirstTrap

-----------------------------------------------------------------------------
(***************************************************************************)
(* The theorems.                                                           *)
(***************************************************************************)
LEMMA InitInv == Init => IInv
<1> SUFFICES ASSUME Init PROVE IInv
  OBVIOUS
<1>1. TypeOK
  BY InitTypes
<1>2. /\ stack = <<>> /\ mode = "M" /\ medeleg = {"ECU"} /\ curr = M /\ real = M /\ arg = None
  BY DEF Init
<1>3. Shape(stack, arg)
  BY <1>2 DEF Shape
<1> QED
  BY <1>1, <1>2, <1>3 DEF IInv, RunInv, DelegInv, ArgInv, TopInv, HartMode

\* Nothing but Stopped happens to a program that has stopped.
LEMMA StepsRun ==
  ASSUME Goto \/ Handler \/ Reset \/ Test \/ TakeInterrupt
  PROVE  status = "run"
  BY DEF Goto, Handler, Reset, Test, TakeInterrupt, MaySwitch, InTest,
     GotoUserToUser, GotoArrived, GotoRaiseViaHS, GotoSecondHop, GotoEcall, GotoLowerNothing,
     GotoLowerRefused, GotoLower, GotoLowered, GotoReturn, Lowering, Deciding, Handling,
     HandlerServesGoto, HandlerRejects, HandlerAccepts, HandlerFails, HandlerReturns,
     HandlerReturnsWild, ResetGoto, ResetFails, ResetCsrs, Running, TestGoto,
     TestGotoDirect, TestSetup, TestFault, TestBareEcall, TestDelegates, TestReset,
     TestAsserts

\* Every step of a program that respects the conditions keeps the invariant.
LEMMA StepKeeps == Respected /\ IInv /\ [Next]_vars => IInv'
<1> SUFFICES ASSUME Respected, IInv, [Next]_vars PROVE IInv'
  OBVIOUS
<1>1. TypeOK /\ TypeOK'
  BY StepKeepsTypes DEF IInv
<1> SUFFICES ASSUME status' = "run" PROVE RunInv'
  BY <1>1 DEF IInv
<1>2. CASE UNCHANGED vars \/ Stopped
  <2>1. UNCHANGED <<stack, mode, medeleg, curr, real, arg>> /\ status = "run"
    BY <1>2 DEF vars, Stopped
  <2> QED
    BY <2>1, SameKeeps DEF IInv
<1>3. CASE Next /\ ~Stopped
  <2>1. status = "run" /\ RunInv
    <3>1. status = "run"
      BY <1>3, StepsRun DEF Next, Harness
    <3> QED
      BY <3>1 DEF IInv
  <2>2. CASE Goto
    <3>1. ~GotoLowerRefused
      BY DEF GotoLowerRefused, LowerRefusal, Stop
    <3> QED
      BY <1>1, <2>1, <2>2, <3>1, UserToUserKeeps, ArrivedKeeps, RaiseViaHSKeeps, SecondHopKeeps,
         EcallKeeps, LowerNothingNever, LowerKeeps, LoweredKeeps, ReturnKeeps DEF Goto
  <2>3. CASE Handler
    <3>1. ~HandlerRejects /\ ~HandlerFails /\ ~HandlerReturnsWild
      BY DEF HandlerRejects, HandlerFails, HandlerReturnsWild, HandlerRefusal, Stop
    <3> QED
      BY <1>1, <2>1, <2>3, <3>1, ServesGotoKeeps, AcceptsKeeps, ReturnsKeeps DEF Handler
  <2>4. CASE Reset
    <3>1. ~ResetFails
      BY DEF ResetFails, Stop
    <3> QED
      BY <1>1, <2>1, <2>4, <3>1, ResetGotoKeeps, ResetCsrsKeeps DEF Reset
  <2>5. CASE Test
    BY <1>1, <2>1, <2>5, TestKeeps
  <2>6. CASE TakeInterrupt
    BY <1>1, <2>1, <2>6, InterruptKeeps
  <2> QED
    BY <1>3, <2>2, <2>3, <2>4, <2>5, <2>6 DEF Next, Harness
<1> QED
  BY <1>2, <1>3

\* The invariant holds of every execution.
THEOREM Invariance == Respected => (Spec => []IInv)
<1> SUFFICES ASSUME Respected PROVE Spec => []IInv
  OBVIOUS
<1>1. IInv /\ [Next]_vars => IInv'
  BY StepKeeps
<1> QED
  BY <1>1, InitInv, PTL DEF Spec

\* Whatever sequence of supported switches, faults, delegations, interrupts and
\* resets a test goes through, when its code runs curr_priv and real_priv agree
\* and the hart is in their mode.
THEOREM TestLevel == Respected => (Spec => []TestRunsWhereItThinks)
<1> SUFFICES ASSUME Respected PROVE Spec => []TestRunsWhereItThinks
  OBVIOUS
<1>1. IInv => TestRunsWhereItThinks
  BY DEF IInv, RunInv, TopInv, TestRunsWhereItThinks, InTest
<1>2. Spec => []IInv
  BY Invariance
<1> QED
  BY <1>1, <1>2, PTL

\* real_priv names the level the hart runs at, inside the handlers too.
THEOREM RealLevel == Respected => (Spec => []RealIsMode)
<1> SUFFICES ASSUME Respected PROVE Spec => []RealIsMode
  OBVIOUS
<1>1. IInv => RealIsMode
  BY DEF IInv, RunInv, RealIsMode
<1>2. Spec => []IInv
  BY Invariance
<1> QED
  BY <1>1, <1>2, PTL

-----------------------------------------------------------------------------
(***************************************************************************)
(* The errors that are dead code.                                          *)
(***************************************************************************)
LEMMA LowerRefusedNever ==
  ASSUME TypeOK, RunInv, GotoLowerRefused
  PROVE  FALSE
<1>1. /\ Deciding /\ real # Target /\ Target <= curr /\ Target # curr
      /\ LowerRefusal(Target) # "none"
  BY DEF GotoLowerRefused, Lowering
<1>2. Target \in Priv /\ curr \in Priv /\ real \in Priv /\ mode = HartMode(real)
  BY <1>1, DecidingFacts DEF TypeOK
<1>3. \/ Switchable(Target) /\ ~(IsUser(Target) /\ IsUser(curr))
      \/ Arrived(M) /\ IsUser(Target)
  BY <1>1, DecidingFacts DEF AboutToSwitch
<1>4. ~(Target > curr) /\ ~(curr \in {VU, HU})
  BY <1>1, <1>2, <1>3 DEF Priv, VU, HU, VS, HS, M, Switchable, Arrived, IsUser
<1>5. curr = real
  BY <1>1, <1>3, <1>4 DEF Switchable, Arrived, IsUser
<1>6. ~(curr = VS /\ Target = HU)
  BY <1>3, <1>5 DEF Switchable, Arrived, Unsupported, IsUser, VU, HU, VS, HS, M
<1>7. ~(Rank(mode) < Rank(HartMode(curr)))
  BY <1>2, <1>5 DEF Rank, HartMode, Priv, VU, HU, VS, HS, M
<1> QED
  BY <1>1, <1>4, <1>6, <1>7 DEF LowerRefusal

\* Only a trap, a call or an ERROR changes status, and only goto_priv and the direct
\* switch set ecall_args.
LEMMA StatusAndArg ==
  ASSUME Next, ~GotoLowerRefused
  PROVE  /\ status' \in {status, "stack exhausted", "harness illegal instruction", "unknown ecall",
                         "untested exception", "no return address", "wild return"}
         /\ arg' # arg => status = "run" /\ (GotoEcall \/ arg' = M)
<1>1. CASE Goto /\ ~GotoLowerRefused
  BY <1>1 DEF Goto, GotoUserToUser, GotoArrived, GotoRaiseViaHS, GotoSecondHop, GotoEcall,
     GotoLowerNothing, GotoLower, GotoLowered, GotoReturn, Call, Trap, Deciding, Running
<1>2. CASE Handler
  BY <1>2 DEF Handler, HandlerServesGoto, HandlerRejects, HandlerAccepts, HandlerFails,
     HandlerReturns, HandlerReturnsWild, HandlerRefusal, Call, Stop
<1>3. CASE Reset
  BY <1>3 DEF Reset, ResetGoto, ResetFails, ResetCsrs, Call, Stop
<1>4. CASE Test
  BY <1>4 DEF Test, TestGoto, TestGotoDirect, TestSetup, TestFault, TestBareEcall, TestDelegates,
     TestReset, TestAsserts, Call, Trap, MaySwitch, InTest
<1>5. CASE TakeInterrupt
  BY <1>5 DEF TakeInterrupt, Trap
<1>6. CASE Stopped
  BY <1>6 DEF Stopped, vars
<1> QED
  BY <1>1, <1>2, <1>3, <1>4, <1>5, <1>6 DEF Next, Harness

-----------------------------------------------------------------------------
(***************************************************************************)
(* How the calls nest in any test at all: CourseInv is inductive without   *)
(* a condition on the switches, delegations and interrupts.                *)
(***************************************************************************)
LEMMA CourseEmpty ==
  ASSUME NEW c, NEW a
  PROVE  Course(<<>>, c, a)
<1>1. Len(<<>>) = 0 /\ 1..0 = {} /\ 1..(0 - 1) = {}
  OBVIOUS
<1> QED
  BY <1>1 DEF Course

\* A call of the test itself finds nothing to agree with.
LEMMA CourseOne ==
  ASSUME NEW f \in Frames, f.pc \in {"g0", "r0", "h0"}, NEW c, NEW a
  PROVE  Course(Push(<<>>, f), c, a)
<1> PICK s : s = Push(<<>>, f)
  OBVIOUS
<1>1. Len(s) = 1 /\ s[1] = f
  <2>1. <<>> \in Seq(Frames) /\ Len(<<>>) = 0
    OBVIOUS
  <2>2. Len(Push(<<>>, f)) = Len(<<>>) + 1 /\ Push(<<>>, f)[Len(<<>>) + 1] = f
    BY <2>1, PushFacts
  <2> QED
    BY <2>1, <2>2
<1>2. 1..(1 - 1) = {} /\ 1..1 = {1}
  OBVIOUS
<1>3. \A i \in 1..(Len(s) - 1) : Follows(s, i)
  BY <1>1, <1>2
<1>4. \A i \in 1..Len(s) : i = 1
  BY <1>1, <1>2
<1>5. \A i \in 1..Len(s) : Finds(s, i, c, a)
  <2>1. ~(1 > 1) /\ f.pc \notin {"toM", "fromHS", "ret"}
    OBVIOUS
  <2>2. Finds(s, 1, c, a)
    BY <1>1, <2>1 DEF Finds
  <2> QED
    BY <1>4, <2>2
<1> QED
  BY <1>1, <1>3, <1>4, <1>5 DEF Course

\* An interrupt may come on top of anything.
LEMMA CourseQuiet ==
  ASSUME NEW s \in Seq(Frames), NEW c, NEW a, Course(s, c, a),
         NEW g \in Frames, Quiet(g), g.cause \in Interrupts
  PROVE  Course(Push(s, g), c, a)
<1>a. Len(Push(s, g)) = Len(s) + 1
  BY Zenon, PushFacts
<1>b. \A i \in 1..Len(s) : Push(s, g)[i] = s[i]
  BY Zenon, PushFacts
<1>c. Push(s, g)[Len(s) + 1] = g
  BY Zenon, PushFacts
<1> PICK n \in Nat : n = Len(s)
  OBVIOUS
<1> PICK t : t = Push(s, g)
  OBVIOUS
<1>1. Len(t) = n + 1 /\ (\A i \in 1..n : t[i] = s[i]) /\ t[n + 1] = g
  BY <1>a, <1>b, <1>c
<1>2. g.fn \in Handlers /\ g.pc \in HandlerPcs /\ g.fn # "reset"
  BY FrameFacts DEF Quiet, Handlers
<1>3. \A i \in 1..(Len(t) - 1) : Follows(t, i)
  <2> TAKE i \in 1..(Len(t) - 1)
  <2>1. CASE i = n
    BY <1>1, <2>1 DEF Follows
  <2>2. CASE i < n
    <3>1. Follows(s, i) /\ t[i] = s[i] /\ t[i + 1] = s[i + 1] /\ (i > 1 => t[i - 1] = s[i - 1])
      BY <1>1, <2>2 DEF Course
    <3> QED
      BY <3>1 DEF Follows
  <2> QED
    BY <1>1, <2>1, <2>2
<1>4. \A i \in 1..Len(t) :
        /\ i > 1 => t[i].fn # "reset"
        /\ t[i].pc \in {"viaHS", "fromHS"} => t[i].to = M
  BY <1>1, <1>2 DEF Course, HandlerPcs
<1>5. \A i, j \in 1..Len(t) : i < j /\ Quiet(t[i]) => Quiet(t[j])
  <2> TAKE i, j \in 1..Len(t)
  <2>1. CASE j = n + 1
    BY <1>1, <2>1
  <2>2. CASE j # n + 1 /\ i < j
    <3>1. i \in 1..n /\ j \in 1..n /\ t[i] = s[i] /\ t[j] = s[j]
      BY <1>1, <2>2
    <3> QED
      BY <3>1 DEF Course
  <2> QED
    BY <2>1, <2>2
<1>6. \A i \in 1..Len(t) :
        ~Quiet(t[i]) /\ (i < Len(t) => Quiet(t[i + 1])) => Finds(t, i, c, a)
  <2> SUFFICES ASSUME NEW i \in 1..Len(t), ~Quiet(t[i]), i < Len(t) => Quiet(t[i + 1])
               PROVE  Finds(t, i, c, a)
    OBVIOUS
  <2>1. i \in 1..n /\ t[i] = s[i] /\ (i < n => t[i + 1] = s[i + 1]) /\ (i > 1 => t[i - 1] = s[i - 1])
    BY <1>1
  <2>2. Finds(s, i, c, a)
    BY <1>1, <2>1 DEF Course
  <2> QED
    BY <2>1, <2>2 DEF Finds
<1> QED
  BY <1>3, <1>4, <1>5, <1>6 DEF Course

\* A return to a frame that finds what it needs.  The handler of a fault or an
\* interrupt leaves the frame below as it was.
LEMMA CoursePop ==
  ASSUME NEW s \in Seq(Frames), s # <<>>, NEW c, NEW a, Course(s, c, a), NEW b,
         Quiet(Last(s)) => b = c,
         ~Quiet(Last(s)) /\ Len(s) > 1 => Finds(s, Len(s) - 1, b, a)
  PROVE  Course(Front(s), b, a)
<1> PICK n \in Nat : n = Len(s) /\ n > 0
  OBVIOUS
<1> PICK t : t = Front(s)
  OBVIOUS
<1>1. Len(t) = n - 1 /\ (\A i \in 1..(n - 1) : t[i] = s[i]) /\ Last(s) = s[n]
  BY PopFacts DEF Last
<1>2. \A i \in 1..(Len(t) - 1) : Follows(t, i)
  <2> TAKE i \in 1..(Len(t) - 1)
  <2>1. Follows(s, i) /\ t[i] = s[i] /\ t[i + 1] = s[i + 1] /\ (i > 1 => t[i - 1] = s[i - 1])
    BY <1>1 DEF Course
  <2> QED
    BY <2>1 DEF Follows
<1>3. \A i \in 1..Len(t) :
        /\ i > 1 => t[i].fn # "reset"
        /\ t[i].pc \in {"viaHS", "fromHS"} => t[i].to = M
  <2> TAKE i \in 1..Len(t)
  <2>1. i \in 1..n /\ t[i] = s[i]
    BY <1>1
  <2> QED
    BY <2>1 DEF Course
<1>4. \A i, j \in 1..Len(t) : i < j /\ Quiet(t[i]) => Quiet(t[j])
  BY <1>1 DEF Course
<1>5. \A i \in 1..Len(t) :
        ~Quiet(t[i]) /\ (i < Len(t) => Quiet(t[i + 1])) => Finds(t, i, b, a)
  <2> SUFFICES ASSUME NEW i \in 1..Len(t), ~Quiet(t[i]), i < Len(t) => Quiet(t[i + 1])
               PROVE  Finds(t, i, b, a)
    OBVIOUS
  <2>1. /\ i \in 1..n /\ i < n /\ t[i] = s[i] /\ (i > 1 => t[i - 1] = s[i - 1])
        /\ i < n - 1 => t[i + 1] = s[i + 1]
    BY <1>1
  <2>2. CASE Quiet(s[n])
    <3>1. i < n => Quiet(s[i + 1])
      <4>1. CASE i = n - 1
        BY <2>2, <4>1
      <4>2. CASE i < n - 1
        BY <1>1, <2>1, <4>2
      <4> QED
        BY <2>1, <4>1, <4>2
    <3>2. Finds(s, i, c, a)
      BY <2>1, <3>1 DEF Course
    <3> QED
      BY <1>1, <2>1, <2>2, <3>2 DEF Finds
  <2>3. CASE ~Quiet(s[n])
    <3>1. i = n - 1
      <4> SUFFICES ASSUME i < n - 1 PROVE FALSE
        BY <2>1
      <4>1. Quiet(s[i + 1]) /\ i + 1 \in 1..n /\ i + 1 < n /\ n \in 1..n
        BY <1>1, <2>1
      <4> QED
        BY <2>3, <4>1 DEF Course
    <3>2. Finds(s, i, b, a)
      BY <1>1, <2>1, <2>3, <3>1
    <3> QED
      BY <2>1, <3>2 DEF Finds
  <2> QED
    BY <2>2, <2>3
<1> QED
  BY <1>2, <1>3, <1>4, <1>5 DEF Course

\* The running frame goes on, at a pc where it finds what it needs.
LEMMA CourseAt ==
  ASSUME NEW s \in Seq(Frames), s # <<>>, NEW c, NEW a, Course(s, c, a), NEW b,
         NEW pc, Goes(Last(s), pc) \in Frames,
         pc \in {"viaHS", "fromHS"} => Last(s).to = M,
         Quiet(Last(s)) => b = c,
         ~Quiet(Last(s)) => Finds(At(s, pc), Len(s), b, a)
  PROVE  Course(At(s, pc), b, a)
<1> PICK n \in Nat : n = Len(s) /\ n > 0
  OBVIOUS
<1> PICK t : t = At(s, pc)
  OBVIOUS
<1> PICK f, g : f = Last(s) /\ g = Goes(f, pc)
  OBVIOUS
<1>1. Len(t) = n /\ (\A i \in 1..(n - 1) : t[i] = s[i]) /\ s[n] = f /\ t[n] = g
  BY AtFacts DEF Last
<1>2. g.fn = f.fn /\ g.to = f.to /\ g.cause = f.cause /\ g.pc = pc /\ (Quiet(g) <=> Quiet(f))
  BY DEF Goes, Quiet
<1>3. \A i \in 1..(Len(t) - 1) : Follows(t, i)
  <2> TAKE i \in 1..(Len(t) - 1)
  <2>1. /\ Follows(s, i) /\ t[i] = s[i] /\ (i > 1 => t[i - 1] = s[i - 1])
        /\ i + 1 < n => t[i + 1] = s[i + 1]
        /\ i + 1 < n \/ i + 1 = n
    BY <1>1 DEF Course
  <2>2. /\ t[i + 1].fn = s[i + 1].fn /\ t[i + 1].to = s[i + 1].to
        /\ t[i + 1].cause = s[i + 1].cause /\ (Quiet(t[i + 1]) <=> Quiet(s[i + 1]))
    BY <1>1, <1>2, <2>1
  <2> QED
    BY <2>1, <2>2 DEF Follows, MayCall
<1>4. \A i \in 1..Len(t) :
        /\ i > 1 => t[i].fn # "reset"
        /\ t[i].pc \in {"viaHS", "fromHS"} => t[i].to = M
  <2> TAKE i \in 1..Len(t)
  <2>1. CASE i = n
    BY <1>1, <1>2, <2>1 DEF Course
  <2>2. CASE i < n
    BY <1>1, <2>2 DEF Course
  <2> QED
    BY <1>1, <2>1, <2>2
<1>5. \A i \in 1..n : Quiet(t[i]) <=> Quiet(s[i])
  BY <1>1, <1>2
<1>6. \A i, j \in 1..Len(t) : i < j /\ Quiet(t[i]) => Quiet(t[j])
  BY <1>1, <1>5 DEF Course
<1>7. \A i \in 1..Len(t) :
        ~Quiet(t[i]) /\ (i < Len(t) => Quiet(t[i + 1])) => Finds(t, i, b, a)
  <2> SUFFICES ASSUME NEW i \in 1..Len(t), ~Quiet(t[i]), i < Len(t) => Quiet(t[i + 1])
               PROVE  Finds(t, i, b, a)
    OBVIOUS
  <2>1. CASE i = n
    BY <1>1, <1>2, <2>1
  <2>2. CASE i < n
    <3>1. /\ ~Quiet(s[i]) /\ Quiet(s[i + 1]) /\ i + 1 \in 1..n /\ t[i] = s[i]
          /\ i > 1 => t[i - 1] = s[i - 1]
      BY <1>1, <1>5, <2>2
    <3>2. Finds(s, i, c, a)
      BY <1>1, <2>2, <3>1 DEF Course
    <3>3. Quiet(s[n])
      <4>1. i + 1 = n \/ i + 1 < n
        BY <3>1
      <4> QED
        BY <3>1, <4>1 DEF Course
    <3> QED
      BY <1>1, <3>1, <3>2, <3>3 DEF Finds
  <2> QED
    BY <1>1, <2>1, <2>2
<1> QED
  BY <1>3, <1>4, <1>6, <1>7 DEF Course

LEMMA FramesAfterCall ==
  ASSUME NEW s \in Seq(Frames), s # <<>>, NEW pc, Goes(Last(s), pc) \in Frames, NEW g \in Frames,
         NEW n \in Nat, n = Len(s), NEW t, t = Push(At(s, pc), g)
  PROVE  /\ Len(t) = n + 1
         /\ \A i \in 1..(n - 1) : t[i] = s[i]
         /\ t[n] = Goes(Last(s), pc)
         /\ t[n + 1] = g
<1>1. Len(t) = Len(s) + 1
  BY CallFacts
<1>2. \A i \in 1..(Len(s) - 1) : t[i] = s[i]
  BY CallFacts
<1>3. t[Len(s)] = Goes(Last(s), pc)
  BY CallFacts
<1>4. t[Len(s) + 1] = g
  BY CallFacts
<1> QED
  BY <1>1, <1>2, <1>3, <1>4

\* A call of a frame that is to do what the running one waits for.
LEMMA CourseCall ==
  ASSUME NEW s \in Seq(Frames), s # <<>>, NEW c, NEW a, Course(s, c, a), NEW b,
         NEW pc, Goes(Last(s), pc) \in Frames, NEW g \in Frames,
         pc \in {"viaHS", "fromHS"} => Last(s).to = M,
         ~Quiet(Last(s)), ~Quiet(g), g.fn # "reset", g.pc \in {"g0", "h0"},
         MayCall(Goes(Last(s), pc), g),
         Last(s).fn \in Handlers /\ Len(s) > 1 => g.to = s[Len(s) - 1].to,
         g.fn \in Handlers => b = Last(s).to
  PROVE  Course(Push(At(s, pc), g), c, b)
<1> PICK n \in Nat : n = Len(s) /\ n > 0
  OBVIOUS
<1> PICK t : t = Push(At(s, pc), g)
  OBVIOUS
<1> PICK f, h : f = Last(s) /\ h = Goes(f, pc)
  OBVIOUS
<1>1. /\ Len(t) = n + 1 /\ (\A i \in 1..(n - 1) : t[i] = s[i]) /\ s[n] = f /\ t[n] = h
      /\ t[n + 1] = g
  <2>1. s[n] = f
    BY DEF Last
  <2>2. /\ Len(t) = n + 1
        /\ \A i \in 1..(n - 1) : t[i] = s[i]
        /\ t[n] = Goes(Last(s), pc)
        /\ t[n + 1] = g
    BY FramesAfterCall
  <2> QED
    BY <2>1, <2>2
<1>2. h.fn = f.fn /\ h.to = f.to /\ h.cause = f.cause /\ h.pc = pc /\ (Quiet(h) <=> Quiet(f))
  BY DEF Goes, Quiet
<1>3. \A i \in 1..(Len(t) - 1) : Follows(t, i)
  <2> TAKE i \in 1..(Len(t) - 1)
  <2>1. CASE i < n
    <3>1. /\ Follows(s, i) /\ t[i] = s[i] /\ (i > 1 => t[i - 1] = s[i - 1])
          /\ i + 1 < n => t[i + 1] = s[i + 1]
          /\ i + 1 < n \/ i + 1 = n
      BY <1>1, <2>1 DEF Course
    <3>2. /\ t[i + 1].fn = s[i + 1].fn /\ t[i + 1].to = s[i + 1].to
          /\ t[i + 1].cause = s[i + 1].cause /\ (Quiet(t[i + 1]) <=> Quiet(s[i + 1]))
      BY <1>1, <1>2, <3>1
    <3> QED
      BY <3>1, <3>2 DEF Follows, MayCall
  <2>2. CASE i = n
    <3>1. t[i] = h /\ t[i + 1] = g /\ (i > 1 => t[i - 1] = s[n - 1])
      BY <1>1, <2>2
    <3> QED
      BY <1>2, <2>2, <3>1 DEF Follows
  <2> QED
    BY <1>1, <2>1, <2>2
<1>4. \A i \in 1..Len(t) :
        /\ i > 1 => t[i].fn # "reset"
        /\ t[i].pc \in {"viaHS", "fromHS"} => t[i].to = M
  <2> TAKE i \in 1..Len(t)
  <2>1. CASE i = n
    BY <1>1, <1>2, <2>1 DEF Course
  <2>2. CASE i < n
    BY <1>1, <2>2 DEF Course
  <2>3. CASE i = n + 1
    BY <1>1, <2>3
  <2> QED
    BY <1>1, <2>1, <2>2, <2>3
<1>5. \A i \in 1..Len(t) : ~Quiet(t[i])
  <2> TAKE i \in 1..Len(t)
  <2>1. CASE i < n
    BY <1>1, <2>1 DEF Course
  <2> QED
    BY <1>1, <1>2, <2>1
<1>6. Finds(t, n + 1, c, b)
  BY <1>1, <1>2 DEF Finds
<1>7. \A i \in 1..Len(t) : i < Len(t) \/ i = n + 1
  BY <1>1
<1>8. \A i \in 1..(Len(t) - 1) : i + 1 \in 1..Len(t)
  BY <1>1
<1> QED
  BY <1>1, <1>3, <1>4, <1>5, <1>6, <1>7, <1>8 DEF Course

LEMMA CourseRunning ==
  ASSUME TypeOK, CourseInv, NEW fn, NEW pc, Running(fn, pc)
  PROVE  /\ stack \in Seq(Frames) /\ stack # <<>> /\ Course(stack, curr, arg)
         /\ Last(stack) \in Frames /\ Last(stack).fn = fn /\ Last(stack).pc = pc
         /\ \E n \in Nat :
              /\ n = Len(stack) /\ n > 0 /\ Last(stack) = stack[n]
              /\ ~Quiet(Last(stack)) => Finds(stack, n, curr, arg)
              /\ n > 1 => Follows(stack, n - 1) /\ stack[n - 1] \in Frames
              /\ fn = "reset" => n = 1
              /\ pc \in {"viaHS", "fromHS"} => Last(stack).to = M
<1>1. /\ stack \in Seq(Frames) /\ stack # <<>> /\ Course(stack, curr, arg)
      /\ Last(stack) \in Frames /\ Last(stack).fn = fn /\ Last(stack).pc = pc
  BY RunningTypes DEF Running, CourseInv
<1>2. PICK n \in Nat : n = Len(stack) /\ n > 0
  BY <1>1
<1>3. Last(stack) = stack[n] /\ n \in 1..Len(stack) /\ ~(n < Len(stack))
  BY <1>1, <1>2 DEF Last
<1>4. ~Quiet(Last(stack)) => Finds(stack, n, curr, arg)
  BY <1>1, <1>3 DEF Course
<1>5. n > 1 => Follows(stack, n - 1) /\ stack[n - 1] \in Frames
  BY <1>1, <1>2 DEF Course
<1>6. fn = "reset" => n = 1
  BY <1>1, <1>2, <1>3 DEF Course
<1>7. pc \in {"viaHS", "fromHS"} => Last(stack).to = M
  BY <1>1, <1>3 DEF Course
<1> QED
  BY <1>1, <1>2, <1>3, <1>4, <1>5, <1>6, <1>7

\* A goto_priv that returns with curr_priv at its target is what its caller waits for.
LEMMA CourseReturn ==
  ASSUME TypeOK, CourseInv, NEW pc, Running("goto", pc),
         stack' = Front(stack), arg' = arg, curr' = Target
  PROVE  CourseInv'
<1>1. /\ stack \in Seq(Frames) /\ stack # <<>> /\ Course(stack, curr, arg)
      /\ Last(stack) \in Frames /\ Last(stack).fn = "goto"
  BY CourseRunning
<1>2. PICK n \in Nat :
        /\ n = Len(stack) /\ n > 0 /\ Last(stack) = stack[n]
        /\ n > 1 => Follows(stack, n - 1) /\ stack[n - 1] \in Frames
  BY CourseRunning
<1>3. ~Quiet(Last(stack))
  BY <1>1 DEF Quiet, Handlers
<1>4. n > 1 => Finds(stack, n - 1, Target, arg)
  <2> SUFFICES ASSUME n > 1 PROVE Finds(stack, n - 1, Target, arg)
    OBVIOUS
  <2> PICK m \in Nat : m = n - 1 /\ m > 0
    BY <1>2
  <2> PICK f, g : f = stack[m] /\ g = Last(stack)
    OBVIOUS
  <2>1. m + 1 = n /\ stack[m + 1] = g /\ g.fn = "goto" /\ Target = g.to /\ f \in Frames
    BY <1>1, <1>2 DEF Target
  <2>2. /\ MayCall(f, g)
        /\ f.fn \in Handlers /\ m > 1 => g.to = stack[m - 1].to
    BY <1>2, <1>3, <2>1 DEF Follows
  <2>3. f.pc \in {"viaHS", "fromHS"} => f.to = M
    BY <1>1, <1>2 DEF Course
  <2>4. Finds(stack, m, Target, arg)
    BY <2>1, <2>2, <2>3 DEF Finds, MayCall, Handlers
  <2> QED
    BY <2>4
<1>5. Course(Front(stack), Target, arg)
  BY <1>1, <1>2, <1>3, <1>4, CoursePop
<1> QED
  BY <1>5 DEF CourseInv

\* A goto_priv that calls another, or the handler that calls one
LEMMA CourseCalls ==
  ASSUME TypeOK, CourseInv, NEW fn, NEW pc, Running(fn, pc), NEW q,
         Goes(Last(stack), q) \in Frames, NEW t \in Priv,
         ~Quiet(Last(stack)),
         q \in {"viaHS", "fromHS"} => Last(stack).to = M,
         MayCall(Goes(Last(stack), q), GotoFrame(t)),
         Last(stack).fn \in Handlers /\ Len(stack) > 1 => t = stack[Len(stack) - 1].to,
         Call(At(stack, q), GotoFrame(t)), curr' = curr, arg' = arg
  PROVE  CourseInv'
<1>1. stack \in Seq(Frames) /\ stack # <<>> /\ Course(stack, curr, arg)
  BY CourseRunning
<1>2. CASE stack' = stack
  BY <1>1, <1>2 DEF CourseInv
<1>3. CASE stack' = Push(At(stack, q), GotoFrame(t))
  <2> PICK g : g = GotoFrame(t)
    OBVIOUS
  <2>1. /\ g \in Frames /\ g.fn = "goto" /\ g.fn # "reset" /\ g.pc = "g0" /\ g.to = t
        /\ g.fn \notin Handlers
    BY FrameFacts DEF GotoFrame, Handlers
  <2>2. ~Quiet(g)
    BY <2>1 DEF Quiet
  <2>3. Course(Push(At(stack, q), g), curr, arg)
    BY <1>1, <2>1, <2>2, CourseCall
  <2> QED
    BY <1>3, <2>3 DEF CourseInv
<1> QED
  BY <1>2, <1>3 DEF Call

LEMMA GotoKeepsCourse == TypeOK /\ CourseInv /\ Goto => CourseInv'
<1> SUFFICES ASSUME TypeOK, CourseInv, Goto PROVE CourseInv'
  OBVIOUS
<1>1. \A pc : Running("goto", pc) =>
        /\ Last(stack).fn = "goto" /\ Target \in Priv /\ ~Quiet(Last(stack))
        /\ Last(stack).fn \notin Handlers
        /\ \A q \in GotoPcs : /\ Goes(Last(stack), q) \in Frames
                              /\ Goes(Last(stack), q).fn = "goto" /\ Goes(Last(stack), q).pc = q
                              /\ Goes(Last(stack), q).to = Target
  BY RunningTypes, FrameFacts DEF Quiet, Handlers, Goes, Target
<1>2. HS \in Priv /\ M \in Priv
  BY DEF Priv, VU, HS, M
<1>3. \A t : GotoFrame(t).fn = "goto" /\ GotoFrame(t).to = t
  BY DEF GotoFrame
<1>4. CASE GotoUserToUser
  <2>1. MayCall(Goes(Last(stack), "toM"), GotoFrame(M))
    BY <1>1, <1>3, <1>4 DEF GotoUserToUser, MayCall, GotoPcs
  <2>2. "toM" \in GotoPcs
    BY DEF GotoPcs
  <2> QED
    BY <1>1, <1>2, <1>4, <2>1, <2>2, CourseCalls DEF GotoUserToUser
<1>5. CASE GotoArrived
  <2>1. PICK pc : Running("goto", pc)
    BY <1>5 DEF GotoArrived, Deciding
  <2> QED
    BY <1>5, <2>1, CourseReturn DEF GotoArrived
<1>6. CASE GotoRaiseViaHS
  <2>1. PICK pc : Running("goto", pc)
    BY <1>6 DEF GotoRaiseViaHS, Deciding
  <2>2. "viaHS" \in GotoPcs /\ Target = M
    BY <1>6 DEF GotoPcs, GotoRaiseViaHS
  <2>3. MayCall(Goes(Last(stack), "viaHS"), GotoFrame(HS)) /\ Last(stack).to = M
    BY <1>1, <1>3, <2>1, <2>2 DEF MayCall, Target
  <2> QED
    BY <1>1, <1>2, <1>6, <2>1, <2>2, <2>3, CourseCalls DEF GotoRaiseViaHS
<1>7. CASE GotoSecondHop
  <2>1. Running("goto", "viaHS") /\ Last(stack).to = M
    BY <1>7, CourseRunning DEF GotoSecondHop
  <2>2. "fromHS" \in GotoPcs
    BY DEF GotoPcs
  <2>3. MayCall(Goes(Last(stack), "fromHS"), GotoFrame(M))
    BY <1>1, <1>3, <2>1, <2>2 DEF MayCall
  <2> QED
    BY <1>1, <1>2, <1>7, <2>1, <2>2, <2>3, CourseCalls DEF GotoSecondHop
<1>8. CASE GotoEcall
  <2> PICK c, l : c = EcallCause /\ l = Level(EcallCause)
    OBVIOUS
  <2> PICK h : h = HandlerFrame(l, c)
    OBVIOUS
  <2>1. PICK pc : Running("goto", pc)
    BY <1>8 DEF GotoEcall, Deciding
  <2>2. /\ stack \in Seq(Frames) /\ stack # <<>> /\ Course(stack, curr, arg)
        /\ arg' = Target /\ curr' = curr
    BY <1>8, <2>1, CourseRunning DEF GotoEcall
  <2>3. c \in Ecalls /\ c \in Causes /\ l \in {"M", "S"}
    BY EcallCauseType DEF Level
  <2>4. /\ h \in Frames /\ h.fn \in Handlers /\ h.fn # "reset" /\ h.pc = "h0" /\ h.cause = c
        /\ ~Quiet(h)
    BY <2>3, FrameFacts DEF HandlerFrame, Handlers, Quiet
  <2>5. CASE stack' = stack
    <3> PICK n \in Nat : n = Len(stack) /\ n > 0
      BY <2>2
    <3>1. stack[n] = Last(stack) /\ n \in 1..n
      BY <2>2 DEF Last
    <3>2. \A i \in 1..n : ~Quiet(stack[i])
      <4> TAKE i \in 1..n
      <4>1. CASE i < n
        BY <1>1, <2>1, <2>2, <3>1, <4>1 DEF Course
      <4> QED
        BY <1>1, <2>1, <3>1, <4>1
    <3>3. \A i \in 1..n : i < n => i + 1 \in 1..n
      OBVIOUS
    <3>4. \A i \in 1..n : ~(i < n) => i = n
      OBVIOUS
    <3>5. Finds(stack, n, curr, Target)
      <4>1. Finds(stack, n, curr, arg) /\ stack[n].fn = "goto" /\ stack[n].fn \notin Handlers
        BY <1>1, <2>1, <2>2, <3>1 DEF Course
      <4> QED
        BY <4>1 DEF Finds
    <3>6. Course(stack, curr, Target)
      BY <2>2, <3>2, <3>3, <3>4, <3>5 DEF Course
    <3> QED
      BY <2>2, <2>5, <3>6 DEF CourseInv
  <2>6. CASE stack' = Push(At(stack, "ecall"), h)
    <3>1. "ecall" \in GotoPcs
      BY DEF GotoPcs
    <3>2. MayCall(Goes(Last(stack), "ecall"), h) /\ Target = Last(stack).to
      BY <1>1, <2>1, <2>3, <2>4, <3>1 DEF MayCall, Target
    <3>3. Course(Push(At(stack, "ecall"), h), curr, Target)
      BY <1>1, <2>1, <2>2, <2>4, <3>1, <3>2, CourseCall
    <3> QED
      BY <2>2, <2>6, <3>3 DEF CourseInv
  <2> QED
    BY <1>8, <2>5, <2>6 DEF GotoEcall, Trap
<1>9. CASE GotoLowerNothing
  <2>1. PICK pc : Running("goto", pc)
    BY <1>9 DEF GotoLowerNothing, Lowering, Deciding
  <2> QED
    BY <1>9, <2>1, CourseReturn DEF GotoLowerNothing
<1>10. CASE GotoLowerRefused
  BY <1>10 DEF GotoLowerRefused, Stop, CourseInv
<1>11. CASE GotoLower
  <2>1. PICK pc : Running("goto", pc)
    BY <1>11 DEF GotoLower, Lowering, Deciding
  <2>2. /\ stack \in Seq(Frames) /\ stack # <<>> /\ Course(stack, curr, arg)
        /\ curr' = curr /\ arg' = arg /\ stack' = At(stack, "window")
    BY <1>11, <2>1, CourseRunning DEF GotoLower
  <2>3. "window" \in GotoPcs
    BY DEF GotoPcs
  <2>4. Finds(At(stack, "window"), Len(stack), curr, arg)
    <3>1. At(stack, "window")[Len(stack)] = Goes(Last(stack), "window")
      BY <1>1, <2>1, <2>2, <2>3, AtFacts
    <3> QED
      BY <1>1, <2>1, <2>3, <3>1 DEF Finds, Handlers
  <2>5. Course(At(stack, "window"), curr, arg)
    BY <1>1, <2>1, <2>2, <2>3, <2>4, CourseAt
  <2> QED
    BY <2>2, <2>5 DEF CourseInv
<1>12. CASE GotoLowered
  BY <1>12, CourseReturn DEF GotoLowered
<1>13. CASE GotoReturn
  <2>1. PICK pc \in {"fromHS", "ret"} : Running("goto", pc)
    BY <1>13 DEF GotoReturn
  <2>2. curr = Target
    <3>1. PICK n \in Nat : Last(stack) = stack[n] /\ Finds(stack, n, curr, arg)
      BY <1>1, <2>1, CourseRunning
    <3>2. Last(stack).fn = "goto" /\ Last(stack).pc \in {"fromHS", "ret"}
      BY <2>1 DEF Running
    <3> QED
      BY <3>1, <3>2 DEF Finds, Target
  <2> QED
    BY <1>13, <2>1, <2>2, CourseReturn DEF GotoReturn
<1> QED
  BY <1>4, <1>5, <1>6, <1>7, <1>8, <1>9, <1>10, <1>11, <1>12, <1>13 DEF Goto

LEMMA HandlerKeepsCourse == TypeOK /\ CourseInv /\ Handler => CourseInv'
<1> SUFFICES ASSUME TypeOK, CourseInv, Handler PROVE CourseInv'
  OBVIOUS
<1>1. CASE HandlerServesGoto
  <2>1. PICK h \in Handlers : Running(h, "h0") /\ Cause \in Ecalls /\ arg # None
    BY <1>1 DEF HandlerServesGoto, Handling
  <2>2. /\ Last(stack) \in Frames /\ Last(stack).fn = h /\ Last(stack).pc = "h0"
        /\ arg \in Priv /\ Last(stack).cause \in Ecalls
    BY <2>1, CourseRunning DEF TypeOK, Cause
  <2>3. PICK n \in Nat :
          n = Len(stack) /\ Last(stack) = stack[n]
          /\ (~Quiet(Last(stack)) => Finds(stack, n, curr, arg))
    BY <2>1, CourseRunning
  <2>4. ~Quiet(Last(stack)) /\ Goes(Last(stack), "h1") \in Frames
    BY <2>2, FrameFacts DEF Quiet, HandlerPcs
  <2>5. Len(stack) > 1 => arg = stack[Len(stack) - 1].to
    BY <2>2, <2>3, <2>4 DEF Finds
  <2>6. MayCall(Goes(Last(stack), "h1"), GotoFrame(arg))
    BY <2>2 DEF MayCall, Goes, GotoFrame
  <2> QED
    BY <1>1, <2>1, <2>2, <2>4, <2>5, <2>6, CourseCalls DEF HandlerServesGoto
<1>2. CASE HandlerRejects
  BY <1>2 DEF HandlerRejects, Stop, CourseInv
<1>3. CASE HandlerAccepts
  <2>1. PICK h \in Handlers :
          /\ Running(h, "h0") /\ ~(Cause \in Ecalls /\ arg # None)
          /\ stack' = At(stack, "h1") /\ curr' = curr /\ arg' = arg
    BY <1>3 DEF HandlerAccepts, Handling
  <2>2. /\ stack \in Seq(Frames) /\ stack # <<>> /\ Course(stack, curr, arg)
        /\ Last(stack) \in Frames /\ Last(stack).fn = h /\ Last(stack).pc = "h0"
    BY <2>1, CourseRunning
  <2>3. PICK n \in Nat :
          /\ n = Len(stack) /\ n > 0 /\ Last(stack) = stack[n]
          /\ ~Quiet(Last(stack)) => Finds(stack, n, curr, arg)
          /\ n > 1 => Follows(stack, n - 1) /\ stack[n - 1] \in Frames
    BY <2>1, CourseRunning
  <2>4. Goes(Last(stack), "h1") \in Frames
    BY <2>2, FrameFacts DEF HandlerPcs
  \* The handler of a goto_priv's ecall finds what that ecall asked for.
  <2>5. ~Quiet(Last(stack)) => n = 1
    <3> SUFFICES ASSUME ~Quiet(Last(stack)), n # 1 PROVE FALSE
      OBVIOUS
    <3> PICK m \in Nat : m = n - 1 /\ m > 0
      BY <2>3
    <3>1. arg = None /\ arg = stack[m].to
      BY <2>1, <2>2, <2>3 DEF Finds, Quiet, Cause
    <3>2. MayCall(stack[m], stack[n]) /\ stack[m] \in Frames
      BY <2>3 DEF Follows
    <3>3. stack[m].fn = "goto"
      BY <2>2, <2>3, <3>2 DEF MayCall, Handlers
    <3>4. stack[m].to \in Priv
      BY <3>2, <3>3, FrameFacts
    <3> QED
      BY <3>1, <3>4 DEF Priv, VU, M, None
  <2>6. ~Quiet(Last(stack)) => Finds(At(stack, "h1"), n, curr, arg)
    <3>1. At(stack, "h1")[n] = Goes(Last(stack), "h1")
      BY <2>2, <2>3, <2>4, AtFacts
    <3>2. Goes(Last(stack), "h1").fn # "goto" /\ ~(1 > 1)
      BY <2>2 DEF Goes, Handlers
    <3> QED
      BY <2>5, <3>1, <3>2 DEF Finds
  <2>7. Course(At(stack, "h1"), curr, arg)
    BY <2>2, <2>3, <2>4, <2>6, CourseAt
  <2> QED
    BY <2>1, <2>7 DEF CourseInv
<1>4. CASE HandlerFails
  BY <1>4 DEF HandlerFails, Stop, CourseInv
<1>5. CASE HandlerReturns
  <2>1. PICK h \in Handlers :
          Running(h, "h1") /\ stack' = Resume(Front(stack), Advances)
          /\ curr' = curr /\ arg' = arg
    BY <1>5 DEF HandlerReturns
  <2>2. /\ stack \in Seq(Frames) /\ stack # <<>> /\ Course(stack, curr, arg)
        /\ Last(stack) \in Frames /\ Last(stack).fn = h /\ Last(stack).pc = "h1"
    BY <2>1, CourseRunning
  <2>3. PICK n \in Nat :
          /\ n = Len(stack) /\ n > 0 /\ Last(stack) = stack[n]
          /\ ~Quiet(Last(stack)) => Finds(stack, n, curr, arg)
          /\ n > 1 => Follows(stack, n - 1) /\ stack[n - 1] \in Frames
    BY <2>1, CourseRunning
  <2> PICK t : t = Front(stack)
    OBVIOUS
  <2>4. /\ t \in Seq(Frames) /\ Len(t) = n - 1 /\ (t = <<>> <=> n = 1)
        /\ n > 1 => Last(t) = stack[n - 1]
    BY <2>2, <2>3, PopFacts
  \* Only a goto_priv is interrupted by its ecall, and the handler has served it.
  <2>5. ~Quiet(Last(stack)) /\ n > 1 =>
          /\ stack[n - 1].fn = "goto" /\ stack[n - 1].pc = "ecall"
          /\ curr = stack[n - 1].to
    <3> SUFFICES ASSUME ~Quiet(Last(stack)), n > 1
                 PROVE  /\ stack[n - 1].fn = "goto" /\ stack[n - 1].pc = "ecall"
                        /\ curr = stack[n - 1].to
      OBVIOUS
    <3> PICK m \in Nat : m = n - 1 /\ m > 0
      BY <2>3
    <3>1. MayCall(stack[m], stack[n])
      BY <2>3 DEF Follows
    <3>2. stack[m].fn = "goto" /\ stack[m].pc = "ecall"
      BY <2>2, <2>3, <3>1 DEF MayCall, Handlers
    <3>3. curr = stack[m].to
      BY <2>2, <2>3 DEF Finds
    <3> QED
      BY <3>2, <3>3
  <2>6. Course(t, curr, arg)
    <3>1. ~Quiet(Last(stack)) /\ Len(stack) > 1 => Finds(stack, Len(stack) - 1, curr, arg)
      <4>1. stack[n - 1].fn = "goto" /\ stack[n - 1].pc = "ecall" => Finds(stack, n - 1, curr, arg)
        BY DEF Finds, Handlers
      <4> QED
        BY <2>3, <2>5, <4>1
    <3> QED
      BY <2>2, <3>1, CoursePop
  <2>7. CASE stack' = t
    BY <2>1, <2>6, <2>7 DEF CourseInv
  <2>8. CASE t # <<>> /\ Advances /\ Last(t).pc = "ecall" /\ stack' = At(t, "ret")
    <3>1. n > 1 /\ Last(t) = stack[n - 1]
      BY <2>3, <2>4, <2>8
    <3>2. ~Quiet(Last(stack))
      <4> SUFFICES ASSUME Quiet(Last(stack)) PROVE FALSE
        OBVIOUS
      <4> PICK m \in Nat : m = n - 1 /\ m > 0
        BY <3>1
      <4>1. Follows(stack, m) /\ m + 1 = n
        BY <2>3, <3>1
      <4>2. ~MayCall(stack[m], stack[n])
        BY <2>3 DEF MayCall, Quiet, Handlers
      <4>3. Last(stack).cause \in Interrupts
        BY <2>3, <4>1, <4>2 DEF Follows
      <4> QED
        BY <2>8, <4>3 DEF Advances, Cause
    <3>3. Last(t).fn = "goto" /\ curr = Last(t).to /\ Last(t) \in Frames
      BY <2>3, <2>5, <3>1, <3>2
    <3>4. ~Quiet(Last(t)) /\ Goes(Last(t), "ret") \in Frames
      BY <3>3, FrameFacts DEF Quiet, Handlers, GotoPcs
    <3>5. Finds(At(t, "ret"), Len(t), curr, arg)
      <4>1. At(t, "ret")[Len(t)] = Goes(Last(t), "ret")
        BY <2>4, <2>8, <3>4, AtFacts
      <4> QED
        BY <3>3, <4>1 DEF Finds, Goes, Handlers
    <3>6. Course(At(t, "ret"), curr, arg)
      BY <2>4, <2>6, <2>8, <3>4, <3>5, CourseAt
    <3> QED
      BY <2>1, <2>8, <3>6 DEF CourseInv
  <2> QED
    BY <2>1, <2>7, <2>8 DEF Resume
<1>6. CASE HandlerReturnsWild
  BY <1>6 DEF HandlerReturnsWild, Stop, CourseInv
<1> QED
  BY <1>1, <1>2, <1>3, <1>4, <1>5, <1>6 DEF Handler

LEMMA ResetKeepsCourse == TypeOK /\ CourseInv /\ Reset => CourseInv'
<1> SUFFICES ASSUME TypeOK, CourseInv, Reset PROVE CourseInv'
  OBVIOUS
<1>1. CASE ResetGoto
  <2>1. Running("reset", "r0")
    BY <1>1 DEF ResetGoto
  <2>2. Last(stack) \in Frames /\ Last(stack).fn = "reset"
    BY <2>1, CourseRunning
  <2>3. /\ Goes(Last(stack), "r1") \in Frames /\ M \in Priv /\ ~Quiet(Last(stack))
        /\ Last(stack).fn \notin Handlers
    BY <2>2, FrameFacts DEF ResetPcs, Priv, VU, M, Quiet, Handlers
  <2>4. MayCall(Goes(Last(stack), "r1"), GotoFrame(M))
    BY <2>2 DEF MayCall, Goes, GotoFrame
  <2> QED
    BY <1>1, <2>1, <2>3, <2>4, CourseCalls DEF ResetGoto
<1>2. CASE ResetFails
  BY <1>2 DEF ResetFails, Stop, CourseInv
<1>3. CASE ResetCsrs
  <2>1. /\ Running("reset", "r1") /\ stack' = Front(stack)
    BY <1>3 DEF ResetCsrs
  <2>2. stack \in Seq(Frames) /\ stack # <<>> /\ Len(stack) = 1
    BY <2>1, CourseRunning
  <2>3. stack' = <<>>
    BY <2>1, <2>2, PopFacts
  <2> QED
    BY <2>3, CourseEmpty DEF CourseInv
<1> QED
  BY <1>1, <1>2, <1>3 DEF Reset

LEMMA TestKeepsCourse == TypeOK /\ CourseInv /\ Test => CourseInv'
<1> SUFFICES ASSUME TypeOK, CourseInv, Test PROVE CourseInv'
  OBVIOUS
<1>1. stack = <<>>
  BY DEF Test, TestGoto, TestGotoDirect, TestSetup, TestFault, TestBareEcall, TestDelegates,
     TestReset, TestAsserts, MaySwitch, InTest
<1>2. ASSUME stack' = <<>> PROVE CourseInv'
  BY <1>2, CourseEmpty DEF CourseInv
<1>3. ASSUME NEW f \in Frames, f.pc \in {"g0", "r0", "h0"}, stack' = Push(<<>>, f)
      PROVE  CourseInv'
  BY <1>3, CourseOne DEF CourseInv
<1>4. ASSUME NEW c \in Causes, Trap(c, stack) PROVE CourseInv'
  <2> PICK h : h = HandlerFrame(Level(c), c)
    OBVIOUS
  <2>1. h \in Frames /\ h.pc = "h0"
    BY FrameFacts DEF Level, HandlerFrame
  <2> QED
    BY <1>1, <1>2, <1>3, <1>4, <2>1 DEF Trap
<1>5. CASE TestGoto
  <2>1. PICK t \in Priv : Call(stack, GotoFrame(t))
    BY <1>5 DEF TestGoto
  <2> PICK f : f = GotoFrame(t)
    OBVIOUS
  <2>2. f \in Frames /\ f.pc = "g0"
    BY FrameFacts DEF GotoFrame
  <2> QED
    BY <1>1, <1>2, <1>3, <2>1, <2>2 DEF Call
<1>6. CASE TestGotoDirect
  <2> PICK c, l : c = EcallCause /\ l = Level(EcallCause)
    OBVIOUS
  <2> PICK f, g, h : f = GotoFrame(M) /\ g = Goes(f, "ecall") /\ h = HandlerFrame(l, c)
    OBVIOUS
  <2>1. Trap(c, <<g>>) /\ arg' = M /\ curr' = curr
    BY <1>6 DEF TestGotoDirect
  <2>2. CASE stack' = stack
    BY <1>1, <1>2, <2>2
  <2>3. CASE stack' = Push(<<g>>, h)
    <3>1. /\ f \in Frames /\ f.fn = "goto" /\ f.pc = "g0" /\ f.to = M
          /\ g \in Frames /\ g.fn = "goto" /\ g.pc = "ecall" /\ ~Quiet(f)
      <4>1. f \in Frames /\ f.fn = "goto" /\ f.pc = "g0" /\ f.to = M
        BY FrameFacts DEF GotoFrame, Priv, VU, M
      <4>2. g \in Frames /\ g.fn = "goto" /\ g.pc = "ecall"
        BY <4>1, FrameFacts DEF Goes, GotoPcs
      <4> QED
        BY <4>1, <4>2 DEF Quiet, Handlers
    <3>2. c \in Ecalls /\ c \in Causes /\ l \in {"M", "S"}
      BY EcallCauseType DEF Level
    <3>3. /\ h \in Frames /\ h.fn \in Handlers /\ h.fn # "reset" /\ h.pc = "h0"
          /\ h.cause \in Ecalls /\ ~Quiet(h)
      BY <3>2, FrameFacts DEF HandlerFrame, Handlers, Quiet
    <3> PICK s : s = Push(<<>>, f)
      OBVIOUS
    <3>4. s \in Seq(Frames) /\ s # <<>> /\ Last(s) = f /\ Course(s, curr, None) /\ s = <<f>>
      BY <3>1, CourseOne DEF Push, Last
    <3>5. At(s, "ecall") = <<g>>
      <4>1. Len(s) = 1 /\ At(s, "ecall") \in Seq(Frames) /\ Len(At(s, "ecall")) = Len(s)
            /\ At(s, "ecall")[Len(s)] = g
        BY <3>1, <3>4, AtFacts
      <4> QED
        BY <4>1
    <3>6. MayCall(Goes(Last(s), "ecall"), h) /\ Last(s).fn \notin Handlers
      BY <3>1, <3>3, <3>4 DEF MayCall, Handlers
    <3>7. Course(Push(At(s, "ecall"), h), curr, M)
      BY <3>1, <3>3, <3>4, <3>6, CourseCall
    <3> QED
      BY <2>1, <2>3, <3>5, <3>7 DEF CourseInv
  <2> QED
    BY <2>1, <2>2, <2>3 DEF Trap
<1>7. CASE TestFault
  BY <1>4, <1>7, ConstantsAssumption DEF TestFault, ConstantsAssumption, Causes, InstFaults
<1>8. CASE TestBareEcall
  BY <1>4, <1>8, EcallCauseType DEF TestBareEcall
<1>9. CASE TestReset
  <2>1. ResetFrame \in Frames /\ ResetFrame.pc = "r0"
    BY FrameFacts DEF ResetFrame
  <2> QED
    BY <1>1, <1>2, <1>3, <1>9, <2>1 DEF TestReset, Call
<1>10. CASE TestSetup \/ TestDelegates \/ TestAsserts
  BY <1>1, <1>2, <1>10 DEF TestSetup, TestDelegates, TestAsserts
<1> QED
  BY <1>5, <1>6, <1>7, <1>8, <1>9, <1>10 DEF Test

LEMMA InterruptKeepsCourse == TypeOK /\ CourseInv /\ TakeInterrupt => CourseInv'
<1> SUFFICES ASSUME TypeOK, CourseInv, TakeInterrupt PROVE CourseInv'
  OBVIOUS
<1>1. PICK c \in Irqs : Trap(c, stack) /\ UNCHANGED <<curr, arg>>
  BY DEF TakeInterrupt
<1>2. c \in Interrupts /\ c \in Causes /\ c \notin Ecalls
  BY ConstantsAssumption DEF ConstantsAssumption, Causes, Interrupts, Ecalls
<1> PICK h : h = HandlerFrame(Level(c), c)
  OBVIOUS
<1>3. h \in Frames /\ Quiet(h) /\ h.cause \in Interrupts
  BY <1>2, FrameFacts DEF Level, HandlerFrame, Quiet, Handlers
<1>4. stack \in Seq(Frames) /\ Course(stack, curr, arg)
  BY DEF TypeOK, CourseInv
<1>5. Course(Push(stack, h), curr, arg)
  BY <1>3, <1>4, CourseQuiet
<1>6. stack' = stack \/ stack' = Push(stack, h)
  BY <1>1 DEF Trap
<1> QED
  BY <1>1, <1>4, <1>5, <1>6 DEF CourseInv

\* Every step of every program keeps the course of its calls.
LEMMA StepKeepsCourse == TypeOK /\ CourseInv /\ [Next]_vars => CourseInv'
<1> SUFFICES ASSUME TypeOK, CourseInv, [Next]_vars PROVE CourseInv'
  OBVIOUS
<1>1. CASE UNCHANGED vars \/ Stopped
  BY <1>1 DEF vars, Stopped, CourseInv
<1>2. CASE Goto \/ Handler \/ Reset \/ Test \/ TakeInterrupt
  BY <1>2, GotoKeepsCourse, HandlerKeepsCourse, ResetKeepsCourse, TestKeepsCourse,
     InterruptKeepsCourse
<1> QED
  BY <1>1, <1>2 DEF Next, Harness

\* Whatever a test switches to, delegates and is interrupted by, the calls of goto_priv
\* nest as the code makes them, and each finds what it waits for.
THEOREM CallsNest == Spec => []CourseInv
<1>1. Init => CourseInv
  BY CourseEmpty DEF Init, CourseInv
<1> QED
  BY <1>1, StepKeepsCourse, TypeCorrect, PTL DEF Spec

\* After the detour through M, and only there, goto_priv goes on to a user level from
\* a level that is none.
LEMMA DecidingCourse ==
  ASSUME TypeOK, CourseInv, Deciding
  PROVE  Target \in Priv /\ ~(IsUser(Target) /\ IsUser(curr))
<1>1. CASE Running("goto", "g0") /\ ~(IsUser(Target) /\ IsUser(curr))
  BY <1>1, RunningTypes
<1>2. CASE Running("goto", "toM")
  <2>1. PICK n \in Nat :
          Last(stack) = stack[n] /\ (~Quiet(Last(stack)) => Finds(stack, n, curr, arg))
    BY <1>2, CourseRunning
  <2>2. curr = M
    BY <1>2, <2>1 DEF Running, Finds, Quiet, Handlers
  <2> QED
    BY <1>2, <2>2, RunningTypes DEF IsUser, VU, HU, M
<1> QED
  BY <1>1, <1>2 DEF Deciding

\* The two errors need a switch to a higher level, or one out of a user level to a
\* lower one, which is another user level.
LEMMA LowerRefusedCourse ==
  ASSUME TypeOK, CourseInv, GotoLowerRefused
  PROVE  status' \in {"vs to hu", "harness illegal instruction"} /\ arg' = arg
<1>1. /\ Deciding /\ Target <= curr /\ Target # curr /\ arg' = arg
      /\ LowerRefusal(Target) # "none" /\ status' = LowerRefusal(Target)
  BY DEF GotoLowerRefused, Lowering, Stop
<1>2. Target \in Priv /\ curr \in Priv /\ ~(IsUser(Target) /\ IsUser(curr))
  BY <1>1, DecidingCourse DEF TypeOK
<1>3. ~(Target > curr) /\ curr \notin {VU, HU}
  BY <1>1, <1>2 DEF Priv, VU, HU, VS, HS, M, IsUser
<1> QED
  BY <1>1, <1>3 DEF LowerRefusal

LEMMA EcallAsksPrivilege ==
  ASSUME TypeOK, CourseInv, GotoEcall
  PROVE  arg' \notin {VU, HU}
<1>1. Deciding /\ Target > curr /\ arg' = Target
  BY DEF GotoEcall
<1>2. Target \in Priv /\ curr \in Priv /\ ~(IsUser(Target) /\ IsUser(curr))
  BY <1>1, DecidingCourse DEF TypeOK
<1> QED
  BY <1>1, <1>2 DEF Priv, VU, HU, VS, HS, M, IsUser

LEMMA DeadErrors ==
  ASSUME TypeOK, CourseInv, [Next]_vars, LowerErrorsUnreachable, EcallsAskForPrivilege
  PROVE  LowerErrorsUnreachable' /\ EcallsAskForPrivilege'
<1>1. CASE UNCHANGED vars
  BY <1>1 DEF vars, LowerErrorsUnreachable, EcallsAskForPrivilege
<1>2. CASE Next /\ GotoLowerRefused
  BY <1>2, LowerRefusedCourse DEF LowerErrorsUnreachable, EcallsAskForPrivilege
<1>3. CASE Next /\ ~GotoLowerRefused
  <2>1. LowerErrorsUnreachable'
    BY <1>3, StatusAndArg DEF LowerErrorsUnreachable
  <2>2. EcallsAskForPrivilege'
    <3>1. CASE arg' = arg
      BY <3>1 DEF EcallsAskForPrivilege
    <3>2. CASE arg' = M
      BY <3>2 DEF EcallsAskForPrivilege, VU, HU, M
    <3>3. CASE GotoEcall
      BY <3>3, EcallAsksPrivilege DEF EcallsAskForPrivilege
    <3> QED
      BY <1>3, <3>1, <3>2, <3>3, StatusAndArg
  <2> QED
    BY <2>1, <2>2
<1> QED
  BY <1>1, <1>2, <1>3

LEMMA InitDeadErrors == Init => LowerErrorsUnreachable /\ EcallsAskForPrivilege
  BY DEF Init, LowerErrorsUnreachable, EcallsAskForPrivilege, None, VU, HU

\* Two of lower_priv's ERROR branches are dead code under every test, also one that
\* switches where it must not, and however deep its interrupts and switches nest.
THEOREM LowerErrorsDead == Spec => []LowerErrorsUnreachable
<1> DEFINE Both == LowerErrorsUnreachable /\ EcallsAskForPrivilege
<1>1. Both /\ TypeOK /\ CourseInv /\ [Next]_vars => Both'
  BY DeadErrors
<1>2. Init => Both
  BY InitDeadErrors
<1>3. Both => LowerErrorsUnreachable
  OBVIOUS
<1> HIDE DEF Both
<1> QED
  BY <1>1, <1>2, <1>3, TypeCorrect, CallsNest, PTL DEF Spec

\* Nor does an ecall ever ask for a user level, so that a handler never has to drop the
\* privilege it runs with.
THEOREM EcallsAsk == Spec => []EcallsAskForPrivilege
<1> DEFINE Both == LowerErrorsUnreachable /\ EcallsAskForPrivilege
<1>1. Both /\ TypeOK /\ CourseInv /\ [Next]_vars => Both'
  BY DeadErrors
<1>2. Init => Both
  BY InitDeadErrors
<1>3. Both => EcallsAskForPrivilege
  OBVIOUS
<1> HIDE DEF Both
<1> QED
  BY <1>1, <1>2, <1>3, TypeCorrect, CallsNest, PTL DEF Spec
===============================================================================
