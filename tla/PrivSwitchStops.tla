---------------------------- MODULE PrivSwitchStops ----------------------------
(***************************************************************************)
(* Proofs about the ways PrivSwitch stops, for every value of its          *)
(* constants: how deep the harness' recursion goes, which of its ERROR     *)
(* branches are left, that none is without interrupts and with every       *)
(* announcement next to its fault, and that only a goto_priv of the test   *)
(* changes curr_priv.                                                      *)
(***************************************************************************)
EXTENDS PrivSwitchProofs

-----------------------------------------------------------------------------
(***************************************************************************)
(* The room on the stack.                                                  *)
(***************************************************************************)
\* A frame that waits is past its first pc.
LEMMA WaitingPc ==
  ASSUME NEW s \in Seq(Frames), NEW a, Shape(s, a), NEW i \in 1..(Len(s) - 1)
  PROVE  s[i] \in Frames /\ s[i].pc \in {"toM", "viaHS", "fromHS", "ecall", "h1", "r1"}
<1>1. Link(s[i], s[i+1], a) /\ s[i] \in Frames
  BY DEF Shape
<1> QED
  BY <1>1 DEF Link

\* A return leaves a waiting frame on top, or an ecall's frame behind its ecall.
LEMMA RoomPop ==
  ASSUME TypeOK, RunInv, RoomInv, stack # <<>>,
         stack' = Front(stack) \/ (\E b : stack' = Resume(Front(stack), b))
  PROVE  RoomInv'
<1> PICK s, t : s = stack /\ t = Front(stack)
  OBVIOUS
<1>1. /\ s \in Seq(Frames) /\ s # <<>> /\ Shape(s, arg)
      /\ Len(s) \in Nat /\ Len(s) > 0
  BY DEF TypeOK, RunInv
<1>2. /\ t \in Seq(Frames) /\ Len(t) = Len(s) - 1
      /\ \A i \in 1..(Len(s) - 1) : t[i] = s[i]
      /\ t = <<>> <=> Len(s) = 1
      /\ Len(s) > 1 => Last(t) = s[Len(s) - 1]
  BY <1>1, PopFacts
<1>3. /\ Len(s) <= MaxNesting
      /\ \A i \in 1..Len(s) : s[i].pc = "viaHS" => i <= 3
  BY <1>1 DEF RoomInv
<1>4. t # <<>> => Last(t).pc \notin {"g0", "h0"} /\ Last(t) \in Frames
  <2>1. Len(s) > 1 => Len(s) - 1 \in 1..(Len(s) - 1)
    BY <1>1
  <2> QED
    BY <1>1, <1>2, <2>1, WaitingPc, LenCases
<1>5. /\ Len(t) <= MaxNesting
      /\ \A i \in 1..Len(t) : t[i].pc = "viaHS" => i <= 3
  BY <1>1, <1>2, <1>3 DEF MaxNesting
<1>6. CASE stack' = t
  <2>1. DOMAIN t = 1..Len(t)
    BY <1>2
  <2>2. stack' # <<>> => Last(stack').pc \notin {"g0", "h0"}
    BY <1>4, <1>6
  <2>3. Len(stack') <= MaxNesting /\ \A i \in DOMAIN stack' : stack'[i].pc = "viaHS" => i <= 3
    BY <1>5, <1>6, <2>1
  <2> QED
    BY <2>2, <2>3 DEF RoomInv, MaxNesting
<1>7. CASE t # <<>> /\ Last(t).pc = "ecall" /\ stack' = At(t, "ret")
  <2>1. Goes(Last(t), "ret") \in Frames /\ Goes(Last(t), "ret").pc = "ret"
    BY <1>4, <1>7, FrameFacts DEF Goes, GotoPcs, HandlerPcs, ResetPcs
  <2> PICK g : g = Goes(Last(t), "ret")
    OBVIOUS
  <2> PICK w : w = At(t, "ret")
    OBVIOUS
  <2>2. /\ w \in Seq(Frames) /\ Len(w) = Len(t) /\ Last(w) = g /\ w[Len(t)] = g
        /\ \A i \in 1..(Len(t) - 1) : w[i] = t[i]
    BY <1>2, <1>7, <2>1, AtFacts
  <2>3. \A i \in DOMAIN w : w[i].pc = "viaHS" => i <= 3
    <3>1. DOMAIN w = 1..Len(t) /\ Len(t) \in Nat
      BY <1>2, <2>2
    <3> QED
      BY <1>5, <2>1, <2>2, <3>1
  <2> QED
    BY <1>5, <1>7, <2>1, <2>2, <2>3 DEF RoomInv, MaxNesting
<1> QED
  BY <1>6, <1>7 DEF Resume

\* The running frame goes on.
LEMMA RoomAt ==
  ASSUME TypeOK, RoomInv, stack # <<>>, NEW pc, Goes(Last(stack), pc) \in Frames,
         pc \notin {"g0", "h0", "viaHS"}, stack' = At(stack, pc)
  PROVE  RoomInv'
<1> PICK s, g, w : s = stack /\ g = Goes(Last(stack), pc) /\ w = At(stack, pc)
  OBVIOUS
<1>1. s \in Seq(Frames) /\ s # <<>> /\ Len(s) \in Nat /\ Len(s) > 0
  BY DEF TypeOK
<1>2. /\ w \in Seq(Frames) /\ w # <<>> /\ Len(w) = Len(s) /\ Last(w) = g /\ w[Len(s)] = g
      /\ \A i \in 1..(Len(s) - 1) : w[i] = s[i]
  BY <1>1, AtFacts
<1>3. /\ Len(s) <= MaxNesting
      /\ \A i \in 1..Len(s) : s[i].pc = "viaHS" => i <= 3
  BY <1>1 DEF RoomInv
<1>4. g.pc = pc
  BY DEF Goes
<1>5. \A i \in DOMAIN w : w[i].pc = "viaHS" => i <= 3
  <2>1. DOMAIN w = 1..Len(s)
    BY <1>1, <1>2
  <2> QED
    BY <1>1, <1>2, <1>3, <1>4, <2>1
<1> QED
  BY <1>2, <1>3, <1>4, <1>5 DEF RoomInv, MaxNesting

\* The running frame calls g.
LEMMA RoomCall ==
  ASSUME TypeOK, RoomInv, stack # <<>>, NEW pc, Goes(Last(stack), pc) \in Frames,
         NEW g \in Frames, stack' = Push(At(stack, pc), g),
         pc = "viaHS" => Len(stack) <= 3,
         Len(stack) + 1 <= MaxNesting,
         g.pc # "viaHS",
         g.fn = "goto" => Len(stack) + 1 + Above(g.to)' <= MaxNesting,
         g.fn \in Handlers => Len(stack) + 1 + 1 + Above(arg)' <= MaxNesting
  PROVE  RoomInv'
<1> PICK s, h, w : s = stack /\ h = Goes(Last(stack), pc) /\ w = Push(At(stack, pc), g)
  OBVIOUS
<1>1. s \in Seq(Frames) /\ s # <<>> /\ Len(s) \in Nat /\ Len(s) > 0
  BY DEF TypeOK
<1>2. /\ w \in Seq(Frames) /\ w # <<>> /\ Len(w) = Len(s) + 1 /\ Last(w) = g
      /\ w[Len(s)] = h /\ w[Len(s) + 1] = g
      /\ \A i \in 1..(Len(s) - 1) : w[i] = s[i]
  BY <1>1, CallFacts
<1>3. \A i \in 1..Len(s) : s[i].pc = "viaHS" => i <= 3
  BY <1>1 DEF RoomInv
<1>4. h.pc = pc
  BY DEF Goes
<1>5. \A i \in DOMAIN w : w[i].pc = "viaHS" => i <= 3
  <2>1. DOMAIN w = 1..(Len(s) + 1)
    BY <1>1, <1>2
  <2> QED
    BY <1>1, <1>2, <1>3, <1>4, <2>1
<1>6. stack' = w /\ stack' # <<>> /\ Last(stack') = g /\ Len(stack') = Len(s) + 1
  BY <1>2
<1> HIDE DEF Above
<1> QED
  BY <1>5, <1>6 DEF RoomInv

\* The test calls or is stopped.
LEMMA RoomFirst ==
  ASSUME TypeOK, NEW g \in Frames, stack' = Push(<<>>, g),
         g.pc # "viaHS",
         g.fn = "goto" => 1 + Above(g.to)' <= MaxNesting,
         g.fn \in Handlers /\ g.cause \in Ecalls /\ arg' # None => 1 + 1 + Above(arg)' <= MaxNesting
  PROVE  RoomInv'
<1> PICK w : w = Push(<<>>, g)
  OBVIOUS
<1>1. w # <<>> /\ Len(w) = 1 /\ Last(w) = g /\ w \in Seq(Frames) /\ w[1] = g
  <2>1. <<>> \in Seq(Frames) /\ Len(<<>>) = 0
    OBVIOUS
  <2> QED
    BY <2>1, OneFrame, PushFacts DEF Last
<1>2. DOMAIN w = {1}
  BY <1>1
<1>3. stack' # <<>> /\ Len(stack') = 1 /\ Last(stack') = g
      /\ \A i \in DOMAIN stack' : i = 1 /\ stack'[i] = g
  BY <1>1, <1>2
<1>4. /\ Len(stack') <= MaxNesting
      /\ \A i \in DOMAIN stack' : stack'[i].pc # "viaHS"
  BY <1>3 DEF MaxNesting
<1>5. (Last(stack).fn = "goto" => Len(stack) + Above(Last(stack).to) <= MaxNesting)'
  BY <1>3 DEF Above
<1>6. Last(stack').fn \in Handlers /\ arg' # None /\ Last(stack').cause \in Ecalls =>
        Len(stack') + 1 + Above(arg)' <= MaxNesting
  BY <1>3
<1> QED
  BY <1>3, <1>4, <1>5, <1>6 DEF RoomInv, Above

-----------------------------------------------------------------------------
(***************************************************************************)
(* The same for the handler of a bare ecall and for the return address of  *)
(* a faulting fetch.                                                       *)
(***************************************************************************)
\* Above the handler of a bare ecall only its goto_priv(M) runs, which has arrived.
LEMMA BareOnly ==
  ASSUME TypeOK, RunInv, BareInv, Len(stack) > 1, stack[1].fn \in Handlers
  PROVE  /\ Len(stack) = 2 /\ Last(stack).fn = "goto" /\ Last(stack).pc = "g0"
         /\ Target = M /\ real = M /\ curr = M
<1>1. /\ Len(stack) = 2 /\ stack[2].fn = "goto" /\ stack[2].pc = "g0" /\ Arrived(M)
      /\ stack \in Seq(Frames) /\ Shape(stack, arg)
  BY DEF BareInv, TypeOK, RunInv
<1>2. Last(stack) = stack[2]
  BY <1>1 DEF Last
<1>3. Link(stack[1], stack[2], arg) /\ arg = M
  BY <1>1 DEF Shape
<1>4. stack[2].to = M
  BY <1>1, <1>3 DEF Link, Handlers
<1> QED
  BY <1>1, <1>2, <1>4 DEF Target, Arrived

LEMMA NestPop ==
  ASSUME TypeOK, RunInv, NestInv, stack # <<>>,
         stack' = Front(stack) \/ (\E b : stack' = Resume(Front(stack), b))
  PROVE  NestInv'
<1> PICK s, t : s = stack /\ t = Front(stack)
  OBVIOUS
<1>1. /\ s \in Seq(Frames) /\ s # <<>> /\ Shape(s, arg)
      /\ Len(s) \in Nat /\ Len(s) > 0
  BY DEF TypeOK, RunInv
<1>2. /\ t \in Seq(Frames) /\ Len(t) = Len(s) - 1
      /\ \A i \in 1..(Len(s) - 1) : t[i] = s[i]
      /\ t = <<>> <=> Len(s) = 1
      /\ Len(s) > 1 => Last(t) = s[Len(s) - 1]
  BY <1>1, PopFacts
<1>3. RoomInv'
  BY RoomPop DEF NestInv
<1>4. t # <<>> => Last(t) \in Frames /\ (Last(t).fn \in Handlers => Last(t).cause \in Ecalls)
  <2>1. Len(s) > 1 => Len(s) - 1 \in 1..(Len(s) - 1) /\ Len(s) - 1 + 1 = Len(s)
    BY <1>1
  <2>2. Len(s) > 1 => Link(s[Len(s) - 1], s[Len(s)], arg) /\ s[Len(s) - 1] \in Frames
    BY <1>1, <2>1 DEF Shape
  <2>3. t # <<>> => Len(s) > 1 /\ Last(t) = s[Len(s) - 1]
    BY <1>1, <1>2, LenCases
  <2> QED
    BY <2>2, <2>3 DEF Link, Handlers
<1>5. \/ stack' = t
      \/ t # <<>> /\ Last(t).pc = "ecall" /\ stack' = At(t, "ret")
  BY DEF Resume
<1>6. Len(s) > 2 => s[1].fn \notin Handlers
  <2>1. PICK n \in Nat : n = Len(s)
    BY <1>1
  <2>2. n > 2 => n > 1 /\ n # 2
    OBVIOUS
  <2> QED
    BY <2>1, <2>2 DEF NestInv, BareInv
<1>7. CASE stack' = t
  <2>1. BareInv'
    <3>1. Len(t) > 1 => t[1].fn \notin Handlers
      BY <1>1, <1>2, <1>6
    <3> QED
      BY <1>7, <3>1 DEF BareInv
  <2>2. AddressInv'
    BY <1>4, <1>7 DEF AddressInv, Ecalls, InstFaults
  <2> QED
    BY <1>3, <2>1, <2>2 DEF NestInv
<1>8. CASE t # <<>> /\ Last(t).pc = "ecall" /\ stack' = At(t, "ret")
  <2> PICK g, w : g = Goes(Last(t), "ret") /\ w = At(t, "ret")
    OBVIOUS
  <2>1. g \in Frames /\ g.fn = "goto" /\ Last(t).fn = "goto"
    BY <1>4, <1>8, FrameFacts DEF Goes, GotoPcs, HandlerPcs, ResetPcs, Handlers
  <2>2. /\ w \in Seq(Frames) /\ Len(w) = Len(t) /\ Last(w) = g /\ w[Len(t)] = g
        /\ \A i \in 1..(Len(t) - 1) : w[i] = t[i]
    BY <1>2, <1>8, <2>1, AtFacts
  <2>3. BareInv'
    <3>1. Len(w) > 1 => w[1].fn \notin Handlers
      BY <1>1, <1>2, <1>6, <2>2
    <3> QED
      BY <1>8, <3>1 DEF BareInv
  <2>4. AddressInv'
    BY <1>8, <2>1, <2>2 DEF AddressInv, Handlers
  <2> QED
    BY <1>3, <2>3, <2>4 DEF NestInv
<1> QED
  BY <1>5, <1>7, <1>8

LEMMA NestAt ==
  ASSUME TypeOK, RunInv, NestInv, stack # <<>>, NEW pc, Goes(Last(stack), pc) \in Frames,
         pc \notin {"g0", "h0", "viaHS"}, stack' = At(stack, pc),
         Last(stack).fn = "goto" => ~(Target = M /\ real = M),
         UNCHANGED excpt
  PROVE  NestInv'
<1> PICK s, g, w : s = stack /\ g = Goes(Last(stack), pc) /\ w = At(stack, pc)
  OBVIOUS
<1>1. s \in Seq(Frames) /\ s # <<>> /\ Len(s) \in Nat /\ Len(s) > 0
  BY DEF TypeOK
<1>2. /\ w \in Seq(Frames) /\ w # <<>> /\ Len(w) = Len(s) /\ Last(w) = g /\ w[Len(s)] = g
      /\ \A i \in 1..(Len(s) - 1) : w[i] = s[i]
  BY <1>1, AtFacts
<1>3. RoomInv'
  BY RoomAt DEF NestInv
<1>4. Len(s) > 1 => s[1].fn \notin Handlers
  BY BareOnly DEF NestInv, Handlers
<1>5. BareInv'
  <2>1. Len(w) > 1 => w[1].fn \notin Handlers
    BY <1>1, <1>2, <1>4
  <2> QED
    BY <2>1 DEF BareInv
<1>6. AddressInv'
  BY <1>2 DEF AddressInv, NestInv, Goes
<1> QED
  BY <1>3, <1>5, <1>6 DEF NestInv

LEMMA NestCall ==
  ASSUME TypeOK, RunInv, NestInv, stack # <<>>, NEW pc, Goes(Last(stack), pc) \in Frames,
         NEW g \in Frames, stack' = Push(At(stack, pc), g),
         pc = "viaHS" => Len(stack) <= 3,
         Len(stack) + 1 <= MaxNesting,
         g.pc \in {"g0", "h0"},
         g.fn = "goto" => Len(stack) + 1 + Above(g.to)' <= MaxNesting,
         g.fn \in Handlers => /\ Len(stack) + 1 + 1 + Above(arg)' <= MaxNesting
                              /\ g.cause \in Ecalls,
         Last(stack).fn = "goto" => ~(Target = M /\ real = M),
         Last(stack).fn \in Handlers =>
           g.fn = "goto" /\ (Len(stack) = 1 => Arrived(M)')
  PROVE  NestInv'
<1> PICK s, h, w : s = stack /\ h = Goes(Last(stack), pc) /\ w = Push(At(stack, pc), g)
  OBVIOUS
<1>1. s \in Seq(Frames) /\ s # <<>> /\ Len(s) \in Nat /\ Len(s) > 0
  BY DEF TypeOK
<1>2. /\ w \in Seq(Frames) /\ w # <<>> /\ Len(w) = Len(s) + 1 /\ Last(w) = g
      /\ w[Len(s)] = h /\ w[Len(s) + 1] = g
      /\ \A i \in 1..(Len(s) - 1) : w[i] = s[i]
  BY <1>1, CallFacts
<1>3. RoomInv'
  BY RoomCall DEF NestInv
<1>4. Len(s) > 1 => s[1].fn \notin Handlers
  BY BareOnly DEF NestInv, Handlers
<1>5. BareInv'
  <2>1. Len(s) = 1 \/ Len(s) > 1
    BY <1>1, LenCases
  <2>2. CASE Len(s) > 1
    <3>1. w[1].fn \notin Handlers
      BY <1>1, <1>2, <1>4, <2>2
    <3> QED
      BY <3>1 DEF BareInv
  <2>3. CASE Len(s) = 1
    <3>0. h.fn = Last(s).fn
      BY DEF Goes
    <3>1. w[1] = h /\ w[2] = g /\ Len(w) = 2 /\ h.fn = Last(s).fn
      BY <1>2, <2>3, <3>0
    <3>2. h.fn \in Handlers => g.fn = "goto" /\ g.pc = "g0" /\ Arrived(M)'
      <4>1. g.fn = "goto" => g.pc = "g0"
        BY FrameFacts DEF GotoPcs
      <4> QED
        BY <2>3, <3>0, <4>1
    <3> QED
      BY <3>1, <3>2 DEF BareInv
  <2> QED
    BY <2>1, <2>2, <2>3
<1>6. AddressInv'
  BY <1>2 DEF AddressInv, Ecalls, InstFaults
<1> QED
  BY <1>3, <1>5, <1>6 DEF NestInv

LEMMA NestFirst ==
  ASSUME TypeOK, NEW g \in Frames, stack' = Push(<<>>, g),
         g.pc # "viaHS",
         g.fn = "goto" => 1 + Above(g.to)' <= MaxNesting,
         g.fn \in Handlers /\ g.cause \in Ecalls /\ arg' # None => 1 + 1 + Above(arg)' <= MaxNesting,
         g.fn \in Handlers /\ g.cause \in InstFaults => excpt'.faultInst
  PROVE  NestInv'
<1>1. RoomInv'
  BY RoomFirst
<1>2. stack' # <<>> /\ Len(stack') = 1 /\ Last(stack') = g
  BY OneFrame
<1>3. BareInv' /\ AddressInv'
  BY <1>2 DEF BareInv, AddressInv
<1> QED
  BY <1>1, <1>3 DEF NestInv

-----------------------------------------------------------------------------
(***************************************************************************)
(* Every step keeps the room, one lemma per function.                      *)
(***************************************************************************)
\* What GotoEcall's handler still needs is two frames less than its goto_priv did.
LEMMA EcallNeeds ==
  ASSUME TypeOK, RunInv, NestInv, GotoEcall, status' = "run"
  PROVE  Len(stack) + 1 + 1 + Above(arg)' <= MaxNesting
<1>1. /\ stack \in Seq(Frames) /\ stack # <<>> /\ Last(stack).fn = "goto" /\ Last(stack).pc = "g0"
      /\ Switchable(Target) /\ ~(IsUser(Target) /\ IsUser(curr))
      /\ Target > curr /\ real # Target /\ ~(Target = M /\ curr = HU)
      /\ Target \in Priv /\ curr \in Priv /\ real \in Priv
      /\ arg' = Target /\ curr' = curr /\ mode = HartMode(real)
  BY DecidingFacts DEF GotoEcall, AboutToSwitch, Arrived, IsUser, VU, HU, M, TypeOK, Priv
<1>2. real' = IF Level(EcallCause) = "M" THEN M ELSE HS
  BY DEF GotoEcall, Trap
<1>3. \/ real' = M /\ Target = M
      \/ real' = HS /\ IsUser(curr) /\ Target \in {HS, M} /\ EcallCause = "ECU"
  BY <1>2, EcallLevel
<1>4. Len(stack) + Above(Target) <= MaxNesting
  BY <1>1 DEF NestInv, RoomInv, Target
<1> PICK n \in Nat : n = Len(stack)
  BY <1>1
<1>5. CASE real' = M /\ Target = M
  <2>1. Above(Target) >= 2 /\ Above(Target) \in Nat
    BY <1>1, <1>5 DEF Above, IsUser, VU, HU, VS, HS, M, Priv
  <2>2. Above(arg)' = 0
    BY <1>1, <1>5 DEF Above, IsUser, VU, HU, M, Priv
  <2> QED
    BY <1>4, <2>1, <2>2 DEF MaxNesting
<1>6. CASE real' = HS /\ IsUser(curr) /\ Target \in {HS, M} /\ EcallCause = "ECU"
  <2>1. IsUser(real)
    BY <1>1, <1>6 DEF EcallCause, HartMode, IsUser, Priv, VU, HU, VS, HS, M
  <2>2. curr = real
    BY <1>1, <2>1 DEF Switchable, IsUser, VU, HU, HS, M
  <2>3. CASE Target = HS
    <3>1. Above(Target) = 2
      BY <1>1, <2>3 DEF Above, IsUser, VU, HU, HS, M, Priv
    <3>2. Above(arg)' = 0
      BY <1>1, <1>6, <2>3 DEF Above, IsUser, VU, HU, HS
    <3> QED
      BY <1>4, <3>1, <3>2 DEF MaxNesting
  <2>4. CASE Target = M
    <3>1. curr = VU
      BY <1>1, <1>6, <2>4 DEF IsUser
    <3>2. Above(Target) = 4
      BY <1>1, <2>2, <2>4, <3>1 DEF Above, IsUser, VU, HU, M
    <3>3. Above(arg)' = 2
      BY <1>1, <1>6, <2>4, <3>1 DEF Above, IsUser, VU, HU, HS, M
    <3> QED
      BY <1>4, <3>2, <3>3 DEF MaxNesting
  <2> QED
    BY <1>6, <2>3, <2>4
<1> QED
  BY <1>3, <1>5, <1>6

LEMMA GotoNests ==
  ASSUME TypeOK, RunInv, NestInv, Goto, status' = "run"
  PROVE  NestInv'
<1> PICK n : n = Len(stack)
  OBVIOUS
<1>0. stack \in Seq(Frames) /\ n \in Nat
  BY DEF TypeOK
<1>1. CASE GotoUserToUser
  <2>1. /\ stack # <<>> /\ Last(stack).pc = "g0" /\ Last(stack).fn = "goto"
        /\ Goes(Last(stack), "toM") \in Frames
        /\ stack' = Push(At(stack, "toM"), GotoFrame(M)) /\ IsUser(Target) /\ IsUser(curr)
        /\ curr' = curr /\ real' = real
    BY <1>1, RunningGoto DEF GotoUserToUser, Call, Statuses, GotoPcs
  <2>2. n + Above(Target) <= MaxNesting
    BY <2>1 DEF NestInv, RoomInv, Target
  <2>3. Above(Target) = 5 /\ Above(M)' <= 4 /\ Above(M)' \in Nat
    BY <2>1 DEF Above, IsUser, VU, HU, M
  <2>4. n + 1 <= MaxNesting /\ n + 1 + Above(M)' <= MaxNesting
    BY <1>0, <2>2, <2>3 DEF MaxNesting
  <2>5. GotoFrame(M) \in Frames /\ GotoFrame(M).pc = "g0" /\ GotoFrame(M).fn = "goto" /\ GotoFrame(M).to = M
    BY FrameFacts DEF GotoFrame, Priv, VU, M
  <2>6. Target # M /\ Last(stack).fn \notin Handlers
    BY <2>1 DEF IsUser, VU, HU, M, Handlers
  <2> PICK g : g = GotoFrame(M)
    OBVIOUS
  <2>7. g \in Frames /\ g.pc = "g0" /\ g.fn = "goto" /\ g.fn \notin Handlers /\ g.to = M
        /\ stack' = Push(At(stack, "toM"), g) /\ Len(stack) + 1 + Above(g.to)' <= MaxNesting
    BY <2>1, <2>4, <2>5 DEF Handlers
  <2> QED
    BY <2>1, <2>4, <2>6, <2>7, NestCall
<1>2. CASE GotoArrived \/ GotoLowered \/ GotoReturn \/ GotoLowerNothing
  <2>1. stack # <<>> /\ stack' = Front(stack)
    BY <1>2 DEF GotoArrived, GotoLowered, GotoReturn, GotoLowerNothing, Lowering, Deciding, Running
  <2> QED
    BY <2>1, NestPop
<1>3. CASE GotoRaiseViaHS
  <2>1. /\ stack # <<>> /\ Last(stack).pc = "g0" /\ Last(stack).fn = "goto"
        /\ Goes(Last(stack), "viaHS") \in Frames
        /\ AboutToSwitch(M) /\ real # M /\ curr = HU /\ Target = M
        /\ real \in Priv
    BY <1>3, DecidingFacts DEF GotoRaiseViaHS, GotoPcs, Arrived, HU, M, TypeOK
  <2>2. /\ stack' = Push(At(stack, "viaHS"), GotoFrame(HS)) /\ curr' = curr /\ real' = real
    BY <1>3 DEF GotoRaiseViaHS, Call
  <2>3. n + Above(Target) <= MaxNesting
    BY <2>1 DEF NestInv, RoomInv, Target
  <2>4. real \in {HU, HS}
    BY <2>1 DEF AboutToSwitch, Switchable, IsUser, HU, HS, M
  <2>5. Above(Target) = 3 /\ Above(HS)' \in {0, 2}
    BY <2>1, <2>2, <2>4 DEF Above, IsUser, VU, HU, HS, M
  <2>6. n <= 3 /\ n + 1 <= MaxNesting /\ n + 1 + Above(HS)' <= MaxNesting
    BY <1>0, <2>3, <2>5 DEF MaxNesting
  <2> PICK g : g = GotoFrame(HS)
    OBVIOUS
  <2>7. g \in Frames /\ g.pc = "g0" /\ g.fn = "goto" /\ g.fn \notin Handlers /\ g.to = HS
    BY FrameFacts DEF GotoFrame, Priv, VU, HS, M, Handlers
  <2>8. stack' = Push(At(stack, "viaHS"), g) /\ Len(stack) + 1 + Above(g.to)' <= MaxNesting
        /\ Last(stack).fn \notin Handlers
    BY <2>1, <2>2, <2>6, <2>7 DEF Handlers
  <2> QED
    BY <2>1, <2>6, <2>7, <2>8, NestCall
<1>4. CASE GotoSecondHop
  <2>1. /\ stack # <<>> /\ Last(stack).pc = "viaHS" /\ Last(stack).fn = "goto"
        /\ Goes(Last(stack), "fromHS") \in Frames /\ real = HS /\ curr = HS
    BY <1>4, RunningGoto DEF GotoSecondHop, GotoPcs, GotoTop, Arrived
  <2>2. /\ stack' = Push(At(stack, "fromHS"), GotoFrame(M)) /\ curr' = curr /\ real' = real
    BY <1>4 DEF GotoSecondHop, Call
  <2>3. n <= 3
    <3>1. n \in DOMAIN stack /\ Last(stack) = stack[n]
      BY <1>0, <2>1 DEF Last
    <3> QED
      BY <2>1, <3>1 DEF NestInv, RoomInv
  <2>4. Above(M)' = 2
    BY <2>1, <2>2 DEF Above, IsUser, VU, HU, HS, M
  <2>6. n + 1 <= MaxNesting /\ n + 1 + Above(M)' <= MaxNesting
    BY <1>0, <2>3, <2>4 DEF MaxNesting
  <2> PICK g : g = GotoFrame(M)
    OBVIOUS
  <2>7. g \in Frames /\ g.pc = "g0" /\ g.fn = "goto" /\ g.fn \notin Handlers /\ g.to = M
    BY FrameFacts DEF GotoFrame, Priv, VU, M, Handlers
  <2>8. stack' = Push(At(stack, "fromHS"), g) /\ Len(stack) + 1 + Above(g.to)' <= MaxNesting
        /\ Last(stack).fn \notin Handlers /\ real # M
    BY <2>1, <2>2, <2>6, <2>7 DEF Handlers, HS, M
  <2> QED
    BY <2>1, <2>6, <2>7, <2>8, NestCall
<1>5. CASE GotoEcall
  <2>1. /\ stack # <<>> /\ Last(stack).fn = "goto" /\ real # Target
        /\ Goes(Last(stack), "ecall") \in Frames
    BY <1>5, DecidingFacts DEF GotoEcall, GotoPcs
  <2> PICK c, g : c = EcallCause /\ g = HandlerFrame(Level(c), c)
    OBVIOUS
  <2>2. stack' = Push(At(stack, "ecall"), g)
    BY <1>5 DEF GotoEcall, Trap
  <2>3. c \in Ecalls /\ c \in Causes /\ Level(c) \in {"M", "S"}
    BY EcallCauseType DEF Level
  <2>4. g \in Frames /\ g.pc = "h0" /\ g.fn # "goto" /\ g.cause \in Ecalls
    BY <2>3, FrameFacts DEF HandlerFrame
  <2>5. Len(stack) + 1 + 1 + Above(arg)' <= MaxNesting
    BY <1>5, EcallNeeds
  <2>6. Len(stack) + 1 <= MaxNesting
    <3>1. Above(arg)' \in Nat
      BY DEF Above
    <3> QED
      BY <1>0, <2>5, <3>1 DEF MaxNesting
  <2>7. Last(stack).fn \notin Handlers
    BY <2>1 DEF Handlers
  <2> HIDE DEF Above
  <2> QED
    BY <2>1, <2>2, <2>4, <2>5, <2>6, <2>7, NestCall
<1>6. CASE GotoLowerRefused
  BY <1>6, LowerRefusedNever
<1>7. CASE GotoLower
  <2>1. /\ stack # <<>> /\ Last(stack).fn = "goto"
        /\ Goes(Last(stack), "window") \in Frames
        /\ stack' = At(stack, "window") /\ UNCHANGED excpt /\ real # Target
    BY <1>7, DecidingFacts DEF GotoLower, Lowering, GotoPcs
  <2> QED
    BY <2>1, NestAt
<1> QED
  BY <1>1, <1>2, <1>3, <1>4, <1>5, <1>6, <1>7 DEF Goto

\* A bare ecall's goto_priv(M) has nothing left to do, any other the room it was given.
LEMMA HandlerNests ==
  ASSUME TypeOK, RunInv, NestInv, Handler, status' = "run"
  PROVE  NestInv'
<1> PICK n : n = Len(stack)
  OBVIOUS
<1>0. stack \in Seq(Frames) /\ n \in Nat
  BY DEF TypeOK
<1>1. CASE HandlerServesGoto
  <2>1. PICK h \in Handlers : Running(h, "h0")
    BY <1>1 DEF HandlerServesGoto, Handling
  <2>2. /\ stack # <<>> /\ Last(stack).fn = h /\ Last(stack).pc = "h0"
        /\ Goes(Last(stack), "h1") \in Frames /\ HandlerTop(Last(stack))
    BY <2>1, RunningHandler DEF HandlerPcs
  <2>3. /\ stack' = Push(At(stack, "h1"), GotoFrame(arg))
        /\ Last(stack).cause \in Ecalls /\ arg # None
        /\ curr' = curr /\ real' = real
    BY <1>1 DEF HandlerServesGoto, Call, Cause
  <2>4. arg \in Priv /\ (curr = M => arg = M)
    BY <2>3 DEF TypeOK, RunInv, ArgInv
  <2>5. Len(stack) = 1 => curr = M /\ real = M
    BY <2>2, <2>3 DEF HandlerTop, LevelOf
  <2>6. n + 1 + Above(arg) <= MaxNesting
    BY <2>1, <2>2, <2>3 DEF NestInv, RoomInv
  <2> PICK g, t : g = GotoFrame(arg) /\ t = arg
    OBVIOUS
  <2>7. g \in Frames /\ g.pc = "g0" /\ g.fn = "goto" /\ g.fn \notin Handlers /\ g.to = t
    BY <2>4, FrameFacts DEF GotoFrame, Handlers
  <2>8. Above(t)' = Above(t) /\ Above(t) \in Nat
    BY <2>3 DEF Above
  <2>9. Len(stack) + 1 <= MaxNesting /\ Len(stack) + 1 + Above(g.to)' <= MaxNesting
    BY <1>0, <2>6, <2>7, <2>8 DEF MaxNesting
  <2>10. /\ stack' = Push(At(stack, "h1"), g)
         /\ Last(stack).fn # "goto"
         /\ (Len(stack) = 1 => Arrived(M)')
    BY <2>1, <2>2, <2>3, <2>5 DEF Handlers, Arrived
  <2> HIDE DEF Above
  <2> QED
    BY <2>2, <2>7, <2>9, <2>10, NestCall
<1>2. CASE HandlerAccepts
  <2>1. PICK h \in Handlers : Running(h, "h0")
    BY <1>2 DEF HandlerAccepts, Handling
  <2>2. stack # <<>> /\ Last(stack).fn # "goto" /\ Goes(Last(stack), "h1") \in Frames
    BY <2>1, RunningHandler DEF HandlerPcs, Handlers
  <2> QED
    BY <1>2, <2>2, NestAt DEF HandlerAccepts
<1>3. CASE HandlerReturns
  BY <1>3, NestPop DEF HandlerReturns, Running
<1>4. ~HandlerRejects /\ ~HandlerFails /\ ~HandlerReturnsWild
  BY DEF HandlerRejects, HandlerFails, HandlerReturnsWild, HandlerRefusal, Stop
<1> QED
  BY <1>1, <1>2, <1>3, <1>4 DEF Handler

LEMMA ResetNests ==
  ASSUME TypeOK, RunInv, NestInv, Reset, status' = "run"
  PROVE  NestInv'
<1>1. CASE ResetGoto
  <2>1. /\ stack # <<>> /\ Len(stack) = 1 /\ Last(stack).fn = "reset"
        /\ Goes(Last(stack), "r1") \in Frames
    BY <1>1, RunningReset DEF ResetGoto, ResetPcs
  <2>2. stack' = Push(At(stack, "r1"), GotoFrame(M))
    BY <1>1 DEF ResetGoto, Call
  <2> PICK g : g = GotoFrame(M)
    OBVIOUS
  <2>3. g \in Frames /\ g.pc = "g0" /\ g.fn = "goto" /\ g.fn \notin Handlers /\ g.to = M
    BY FrameFacts DEF GotoFrame, Priv, VU, M, Handlers
  <2>4. Above(M)' \in 0..4
    BY DEF Above, IsUser, VU, HU, M
  <2>5. Len(stack) + 1 <= MaxNesting /\ Len(stack) + 1 + Above(g.to)' <= MaxNesting
    BY <2>1, <2>3, <2>4 DEF MaxNesting
  <2>6. Last(stack).fn # "goto" /\ Last(stack).fn \notin Handlers
    BY <2>1 DEF Handlers
  <2> HIDE DEF Above
  <2> QED
    BY <2>1, <2>2, <2>3, <2>5, <2>6, NestCall
<1>2. CASE ResetCsrs
  BY <1>2, NestPop DEF ResetCsrs, Running
<1>3. ~ResetFails
  BY DEF ResetFails, Stop
<1> QED
  BY <1>1, <1>2, <1>3 DEF Reset

\* Steps that leave the stack, the levels and the announcement alone.
LEMMA NestSame ==
  ASSUME NestInv, UNCHANGED <<stack, curr, real, arg, excpt>>
  PROVE  NestInv'
<1>1. RoomInv'
  BY DEF NestInv, RoomInv, Above
<1>2. BareInv' /\ AddressInv'
  BY DEF NestInv, BareInv, Arrived, AddressInv
<1> QED
  BY <1>1, <1>2 DEF NestInv

LEMMA NestEmpty ==
  ASSUME stack' = <<>>
  PROVE  NestInv'
<1>1. Len(stack') = 0 /\ DOMAIN stack' = {}
  OBVIOUS
<1> QED
  BY <1>1 DEF NestInv, RoomInv, BareInv, AddressInv, MaxNesting

\* goto_priv_u_to_m_direct starts on top of its own ecall.
LEMMA DirectNests ==
  ASSUME TypeOK, RunInv, TestGotoDirect, status' = "run"
  PROVE  NestInv'
<1> PICK f, h : f = Goes(GotoFrame(M), "ecall") /\ h = HandlerFrame("S", "ECU")
  OBVIOUS
<1>1. /\ stack = <<>> /\ curr = HU /\ real = HU /\ arg' = M
      /\ Trap(EcallCause, <<f>>) /\ UNCHANGED <<medeleg, curr>>
  BY DEF TestGotoDirect, MaySwitch, InTest, RunInv, TopInv
<1>2. mode = "U" /\ EcallCause = "ECU" /\ Level("ECU") = "S"
  BY <1>1 DEF RunInv, DelegInv, HartMode, EcallCause, Level, HU, VS, HS, M
<1>3. /\ stack' = Push(<<f>>, h) /\ real' = HS
  BY <1>1, <1>2 DEF Trap
<1>4. /\ f \in Frames /\ f.fn = "goto" /\ f.pc = "ecall" /\ f.to = M
  BY DEF Goes, GotoFrame, Frames, GotoPcs, Priv, VU, M
<1>5. /\ h \in Frames /\ h.fn = "hshandler" /\ h.pc = "h0" /\ h.cause = "ECU"
  BY FrameFacts DEF HandlerFrame, Causes, Ecalls
<1>6. stack' # <<>> /\ Len(stack') = 2 /\ Last(stack') = h /\ stack'[1] = f /\ stack'[2] = h
      /\ DOMAIN stack' = {1, 2}
  <2> DEFINE r == <<f>>
  <2>1. r \in Seq(Frames) /\ Len(r) = 1 /\ r[1] = f
    BY <1>4
  <2>2. stack' = Push(r, h)
    BY <1>3
  <2> HIDE DEF r
  <2>3. stack' # <<>> /\ Len(stack') = 2 /\ Last(stack') = h /\ stack'[1] = f /\ stack'[2] = h
    BY <1>5, <2>1, <2>2, TwoFrames
  <2>4. stack' \in Seq(Frames)
    BY <1>5, <2>1, <2>2, PushFacts
  <2> QED
    BY <2>3, <2>4
<1>7. Above(M)' = 3
  BY <1>1, <1>3 DEF Above, IsUser, VU, HU, HS, M
<1>8. Len(stack') <= MaxNesting /\ (Len(stack') + 1 + Above(arg)' <= MaxNesting)
  BY <1>1, <1>6, <1>7 DEF MaxNesting
<1>9. \A i \in DOMAIN stack' : stack'[i].pc # "viaHS"
  BY <1>4, <1>5, <1>6
<1> HIDE DEF Above
<1>10. RoomInv'
  BY <1>5, <1>6, <1>8, <1>9 DEF RoomInv
<1>11. BareInv' /\ AddressInv'
  BY <1>4, <1>5, <1>6 DEF BareInv, AddressInv, Handlers, InstFaults
<1> QED
  BY <1>10, <1>11 DEF NestInv

LEMMA TrapNests ==
  ASSUME TypeOK, stack = <<>>, NEW c \in Causes, Trap(c, stack), status' = "run",
         c \in InstFaults => excpt'.faultInst,
         c \in Ecalls /\ arg' # None => Level(c) = "M" /\ curr' = M /\ arg' = M
  PROVE  NestInv'
<1> PICK g : g = HandlerFrame(Level(c), c)
  OBVIOUS
<1>1. Level(c) \in {"M", "S"}
  BY DEF Level
<1>2. g \in Frames /\ g.pc = "h0" /\ g.fn # "goto" /\ g.cause = c
  BY <1>1, FrameFacts DEF HandlerFrame
<1>3. stack' = Push(<<>>, g) /\ real' = IF Level(c) = "M" THEN M ELSE HS
  BY DEF Trap
<1>4. c \in Ecalls /\ arg' # None => Above(arg)' = 0
  BY <1>3 DEF Above, IsUser, VU, HU, M
<1>5. c \in Ecalls /\ arg' # None => 1 + 1 + Above(arg)' <= MaxNesting
  BY <1>4 DEF MaxNesting
<1> HIDE DEF Above
<1> QED
  BY <1>2, <1>3, <1>5, NestFirst

LEMMA TestNests ==
  ASSUME Respected, TypeOK, RunInv, Test, status' = "run"
  PROVE  NestInv'
<1>1. CASE TestGoto
  <2>1. PICK t \in Priv : Call(stack, GotoFrame(t))
    BY <1>1 DEF TestGoto
  <2>2. stack = <<>> /\ curr' = curr /\ real' = real
    BY <1>1 DEF TestGoto, MaySwitch, InTest
  <2> PICK g : g = GotoFrame(t)
    OBVIOUS
  <2>3. g \in Frames /\ g.pc = "g0" /\ g.fn = "goto" /\ g.fn \notin Handlers /\ g.to = t
    BY FrameFacts DEF GotoFrame, Handlers
  <2>4. stack' = Push(<<>>, g)
    BY <2>1, <2>2 DEF Call
  <2>5. Above(t)' \in 0..5
    BY DEF Above
  <2>6. 1 + Above(g.to)' <= MaxNesting
    BY <2>3, <2>5 DEF MaxNesting
  <2> HIDE DEF Above
  <2> QED
    BY <2>3, <2>4, <2>6, NestFirst
<1>2. CASE TestGotoDirect
  BY <1>2, DirectNests
<1>3. CASE TestSetup \/ TestAsserts \/ TestDelegates
  <2>1. stack' = <<>>
    BY <1>3 DEF TestSetup, TestAsserts, TestDelegates, InTest
  <2> QED
    BY <2>1, NestEmpty
<1>4. CASE TestFault
  <2>1. PICK c \in Faults : /\ excpt' = [excpt EXCEPT !.faultInst = (c \in InstFaults)]
                            /\ Trap(c, stack)
    BY <1>4 DEF TestFault
  <2>2. c \in Causes /\ c \notin Ecalls
    BY ConstantsAssumption DEF ConstantsAssumption, Causes, InstFaults, Ecalls
  <2>3. stack = <<>> /\ (c \in InstFaults => excpt'.faultInst)
    BY <1>4, <2>1 DEF TestFault, InTest, TypeOK
  <2> QED
    BY <2>1, <2>2, <2>3, TrapNests
<1>5. CASE TestBareEcall
  <2>1. /\ stack = <<>> /\ curr = M /\ real = M
        /\ Trap(EcallCause, stack) /\ UNCHANGED <<medeleg, curr, arg>>
    BY <1>5 DEF TestBareEcall, InTest, Respected, RunInv, TopInv
  <2>2. EcallCause = "ECM" /\ mode = "M"
    BY <2>1 DEF RunInv, HartMode, EcallCause
  <2>3. "ECM" \in Causes /\ "ECM" \notin InstFaults /\ Level("ECM") = "M"
    BY <2>2 DEF Causes, Ecalls, InstFaults, Level
  <2>4. arg' # None => arg' = M
    BY <2>1 DEF RunInv, ArgInv
  <2> QED
    BY <2>1, <2>2, <2>3, <2>4, TrapNests
<1>6. CASE TestReset
  <2>1. stack' = Push(<<>>, ResetFrame) /\ ResetFrame \in Frames
    BY <1>6, FrameFacts DEF TestReset, InTest, Call
  <2>2. ResetFrame.fn # "goto" /\ ResetFrame.fn \notin Handlers /\ ResetFrame.pc # "viaHS"
    BY DEF ResetFrame, Handlers
  <2> HIDE DEF Above
  <2> QED
    BY <2>1, <2>2, NestFirst
<1> QED
  BY <1>1, <1>2, <1>3, <1>4, <1>5, <1>6 DEF Test

LEMMA InterruptNests ==
  ASSUME Respected, TypeOK, TakeInterrupt, status' = "run"
  PROVE  NestInv'
<1>1. PICK c \in Irqs : Trap(c, stack)
  BY DEF TakeInterrupt
<1>2. c \in Causes /\ c \notin Ecalls /\ c \notin InstFaults
  BY ConstantsAssumption DEF ConstantsAssumption, Causes, Interrupts, InstFaults, Ecalls
<1>3. stack = <<>>
  BY DEF TakeInterrupt, IrqPoint, Respected
<1> QED
  BY <1>1, <1>2, <1>3, TrapNests

-----------------------------------------------------------------------------
(***************************************************************************)
(* The theorems.                                                           *)
(***************************************************************************)
LEMMA InitCalls == Init => CallsInv
  BY InitInv, NestEmpty DEF CallsInv, Init, NestInv, RoomInv, BareInv, AddressInv, MaxNesting

LEMMA CallsKept == Respected /\ CallsInv /\ [Next]_vars => CallsInv'
<1> SUFFICES ASSUME Respected, CallsInv, [Next]_vars PROVE CallsInv'
  OBVIOUS
<1>1. IInv /\ IInv'
  BY StepKeeps DEF CallsInv
<1> SUFFICES ASSUME status' = "run" PROVE NestInv'
  BY <1>1 DEF CallsInv
<1>2. status = "run" => TypeOK /\ RunInv /\ NestInv
  BY DEF CallsInv, IInv
<1>3. CASE UNCHANGED vars \/ Stopped
  <2>1. UNCHANGED <<stack, curr, real, arg, excpt>> /\ status = "run"
    BY <1>3 DEF vars, Stopped
  <2> QED
    BY <1>2, <2>1, NestSame
<1>4. CASE Goto \/ Handler \/ Reset \/ Test \/ TakeInterrupt
  <2>1. status = "run"
    BY <1>4, StepsRun
  <2> QED
    BY <1>2, <1>4, <2>1, GotoNests, HandlerNests, ResetNests, TestNests, InterruptNests
<1> QED
  BY <1>3, <1>4 DEF Next, Harness

\* However a test that respects the conditions switches, faults and is interrupted, the
\* harness' recursion stays within six frames, and every frame finds the levels, the
\* request and the return address that its next statement relies on.
THEOREM CallsInvariance == Respected => (Spec => []CallsInv)
<1> SUFFICES ASSUME Respected PROVE Spec => []CallsInv
  OBVIOUS
<1>1. CallsInv /\ [Next]_vars => CallsInv'
  BY CallsKept
<1> QED
  BY <1>1, InitCalls, PTL DEF Spec

-----------------------------------------------------------------------------
(***************************************************************************)
(* Which ERROR branches are left.                                          *)
(***************************************************************************)
\* A goto_priv that calls or traps has room for it.
LEMMA GotoRoom ==
  ASSUME TypeOK, RunInv, NestInv,
         GotoUserToUser \/ GotoRaiseViaHS \/ GotoSecondHop \/ GotoEcall
  PROVE  Len(stack) < MaxNesting
<1> PICK n : n = Len(stack)
  OBVIOUS
<1>0. stack \in Seq(Frames) /\ n \in Nat
  BY DEF TypeOK
<1>1. CASE GotoSecondHop
  <2>1. stack # <<>> /\ Last(stack).pc = "viaHS"
    BY <1>1 DEF GotoSecondHop, Running
  <2>2. n \in DOMAIN stack /\ Last(stack) = stack[n]
    BY <1>0, <2>1 DEF Last
  <2>3. n <= 3
    BY <2>1, <2>2 DEF NestInv, RoomInv
  <2> QED
    BY <1>0, <2>3 DEF MaxNesting
<1>2. CASE GotoUserToUser \/ GotoRaiseViaHS \/ GotoEcall
  <2>1. stack # <<>> /\ Last(stack).pc = "g0" /\ Last(stack).fn = "goto"
        /\ curr \in Priv /\ real \in Priv /\ Target \in Priv
        /\ \/ IsUser(Target) /\ IsUser(curr)
           \/ real # Target /\ Target > curr
    <3>1. CASE GotoUserToUser
      BY <3>1, RunningGoto DEF GotoUserToUser, TypeOK
    <3>2. CASE GotoRaiseViaHS
      BY <3>2, DecidingFacts DEF GotoRaiseViaHS, Arrived, HU, M, TypeOK
    <3>3. CASE GotoEcall
      BY <3>3, DecidingFacts DEF GotoEcall, Arrived, IsUser, VU, HU, VS, HS, M, Priv, TypeOK
    <3> QED
      BY <1>2, <3>1, <3>2, <3>3
  <2>2. n + Above(Target) <= MaxNesting
    BY <2>1 DEF NestInv, RoomInv, Target
  <2>3. Above(Target) \in 2..5
    BY <2>1 DEF Above, Priv, M, VU
  <2> QED
    BY <1>0, <2>2, <2>3 DEF MaxNesting
<1> QED
  BY <1>1, <1>2

\* So has a handler that calls goto_priv.
LEMMA HandlerRoom ==
  ASSUME TypeOK, RunInv, NestInv, HandlerServesGoto
  PROVE  Len(stack) < MaxNesting
<1>1. PICK h \in Handlers : Running(h, "h0")
  BY DEF HandlerServesGoto, Handling
<1>2. Len(stack) + 1 + Above(arg) <= MaxNesting
  BY <1>1 DEF HandlerServesGoto, Cause, Running, NestInv, RoomInv
<1>3. Above(arg) \in Nat /\ Len(stack) \in Nat
  BY DEF Above, TypeOK
<1> HIDE DEF Above
<1> QED
  BY <1>2, <1>3 DEF MaxNesting

\* A handler that has done its work meets none of its refusals.
LEMMA HandlerServed ==
  ASSUME TypeOK, RunInv, NestInv, NEW h \in Handlers, Running(h, "h1")
  PROVE  HandlerRefusal(h) = "none"
<1> PICK f : f = Last(stack)
  OBVIOUS
<1>1. /\ stack \in Seq(Frames) /\ stack # <<>> /\ f.fn = h /\ f.pc = "h1"
      /\ Shape(stack, arg) /\ HandlerTop(f) /\ mode = HartMode(real)
      /\ Len(stack) = 1 \/ Len(stack) > 1
  BY RunningHandler
<1>2. /\ f.cause \in Ecalls /\ arg # None => Arrived(arg) /\ arg \in {HS, M}
      /\ ~(f.cause \in Ecalls /\ arg # None) => real = LevelOf(f)
  BY <1>1 DEF HandlerTop, RunInv, ArgInv
<1>3. h = "mhandler" => real = M
  <2>1. CASE Len(stack) = 1
    BY <1>1, <1>2, <2>1 DEF HandlerTop, LevelOf, Arrived
  <2>2. CASE Len(stack) > 1
    <3>1. PICK n \in Nat : n = Len(stack) /\ n > 1
      BY <1>1, <2>2
    <3>2. n - 1 \in 1..(n - 1) /\ n - 1 + 1 = n /\ stack[n] = f
      BY <3>1 DEF Last
    <3>3. Link(stack[n - 1], f, arg)
      BY <1>1, <3>1, <3>2 DEF Shape
    <3>4. h = "mhandler" => arg = M
      BY <1>1, <3>3 DEF Link, Handlers
    <3> QED
      BY <1>1, <1>2, <3>4 DEF LevelOf, Arrived
  <2> QED
    BY <1>1, <2>1, <2>2
<1>4. real \in {HS, M}
  BY <1>2 DEF Arrived, LevelOf
<1>5. Cause \in InstFaults => excpt.faultInst
  BY <1>1 DEF NestInv, AddressInv, Cause
<1>6. ~(Rank(mode) < (IF h = "mhandler" THEN 3 ELSE 1)) /\ (real = M => mode = "M")
  BY <1>1, <1>3, <1>4 DEF Rank, HartMode, VS, HS, M
<1> QED
  BY <1>5, <1>6 DEF HandlerRefusal

\* hshandler is only entered for an ecall that asks for a level.
LEMMA EcallsKnown ==
  ASSUME TypeOK, RunInv, HandlerRejects
  PROVE  status' = "untested exception"
<1>1. PICK h \in Handlers : Running(h, "h0")
  BY DEF HandlerRejects, Handling
<1>2. /\ HandlerTop(Last(stack)) /\ Last(stack).fn = h /\ Last(stack).pc = "h0"
      /\ Len(stack) = 1 \/ Len(stack) > 1
  BY <1>1, RunningHandler
<1>3. ~(Running("hshandler", "h0") /\ Cause \in Ecalls /\ arg = None)
  BY <1>2 DEF HandlerTop, Running, Cause, None, HS, M
<1> QED
  BY <1>3 DEF HandlerRejects, Stop

\* With room on the stack no call and no trap stops the program.
LEMMA RoomLeft ==
  ASSUME SoundBuild, NEW s, Len(s) \in Nat, Len(s) < MaxNesting
  PROVE  /\ \A f : Call(s, f) => status' = status
         /\ \A c : Trap(c, s) => status' = status
<1> PICK n, d \in Nat : n = Len(s) /\ d = MaxDepth
  BY ConstantsAssumption DEF ConstantsAssumption
<1>1. n < MaxNesting /\ MaxNesting \in Nat /\ d >= MaxNesting
  BY DEF SoundBuild, MaxNesting
<1>2. ~(n >= d)
  BY <1>1
<1>3. ~(Len(s) >= MaxDepth)
  BY <1>2
<1> QED
  BY <1>3 DEF Call, Trap

LEMMA UntestedKept ==
  ASSUME Respected, SoundBuild, CallsInv, OnlyUntestedStops, [Next]_vars
  PROVE  OnlyUntestedStops'
<1>0. MaxDepth \in Nat /\ MaxDepth >= MaxNesting /\ ~A0Lost
  BY ConstantsAssumption DEF ConstantsAssumption, SoundBuild
<1>1. CASE UNCHANGED vars \/ Stopped
  BY <1>1 DEF vars, Stopped, OnlyUntestedStops
<1>2. CASE Goto \/ Handler \/ Reset \/ Test \/ TakeInterrupt
  <2>1. status = "run" /\ TypeOK /\ RunInv /\ NestInv
    BY <1>2, StepsRun DEF CallsInv, IInv
  <2>2. Len(stack) \in Nat /\ Len(<<>>) = 0 /\ (\A f : Len(<<f>>) = 1)
    BY <2>1 DEF TypeOK
  <2>3. \A s, f : Len(s) = Len(stack) /\ Len(stack) < MaxNesting /\ Call(s, f) => status' = status
    BY <2>2, RoomLeft
  <2>4. \A s, c : Len(s) \in Nat /\ Len(s) < MaxNesting /\ Trap(c, s) => status' = status
    BY <2>2, RoomLeft
  <2>5. CASE Goto
    <3>1. ~GotoLowerRefused
      BY <2>1, LowerRefusedNever
    <3>2. stack # <<>> /\ Last(stack) \in Frames /\ Last(stack).fn = "goto"
          /\ \A q \in GotoPcs : Len(At(stack, q)) = Len(stack)
      <4>1. stack # <<>> /\ Last(stack).fn = "goto" /\ stack \in Seq(Frames)
        BY <2>1, <2>5, <3>1 DEF Goto, GotoUserToUser, GotoArrived, GotoRaiseViaHS, GotoSecondHop,
           GotoEcall, GotoLowerNothing, GotoLower, GotoLowered, GotoReturn, Lowering, Deciding,
           Running, TypeOK
      <4>2. Last(stack) \in Frames
        BY <4>1 DEF Last
      <4>3. \A q \in GotoPcs : Goes(Last(stack), q) \in Frames
        BY <4>1, <4>2, FrameFacts
      <4> QED
        BY <4>1, <4>2, <4>3, AtFacts
    <3>3. CASE GotoUserToUser \/ GotoRaiseViaHS \/ GotoSecondHop \/ GotoEcall
      <4>1. Len(stack) < MaxNesting
        BY <2>1, <3>3, GotoRoom
      <4> QED
        BY <2>1, <2>2, <2>3, <2>4, <3>2, <3>3, <4>1
           DEF GotoUserToUser, GotoRaiseViaHS, GotoSecondHop, GotoEcall, GotoPcs, OnlyUntestedStops
    <3>4. CASE GotoArrived \/ GotoLowerNothing \/ GotoLower \/ GotoLowered \/ GotoReturn
      BY <3>4, <2>1 DEF GotoArrived, GotoLowerNothing, GotoLower, GotoLowered, GotoReturn,
         OnlyUntestedStops
    <3> QED
      BY <2>5, <3>1, <3>3, <3>4 DEF Goto
  <2>6. CASE Handler
    <3>1. CASE HandlerServesGoto
      <4>1. Len(stack) < MaxNesting
        BY <2>1, <3>1, HandlerRoom
      <4>2. PICK h \in Handlers : Running(h, "h0")
        BY <3>1 DEF HandlerServesGoto, Handling
      <4>3. stack \in Seq(Frames) /\ stack # <<>> /\ Goes(Last(stack), "h1") \in Frames
        BY <2>1, <4>2, RunningHandler DEF HandlerPcs
      <4>4. Len(At(stack, "h1")) = Len(stack)
        BY <4>3, AtFacts
      <4> QED
        BY <2>1, <2>3, <3>1, <4>1, <4>4 DEF HandlerServesGoto, OnlyUntestedStops
    <3>2. CASE HandlerRejects
      BY <2>1, <3>2, EcallsKnown DEF OnlyUntestedStops
    <3>3. CASE HandlerFails
      BY <2>1, <3>3, HandlerServed DEF HandlerFails
    <3>4. CASE HandlerAccepts \/ HandlerReturns
      BY <2>1, <3>4 DEF HandlerAccepts, HandlerReturns, OnlyUntestedStops
    <3>5. ~HandlerReturnsWild
      BY <1>0 DEF HandlerReturnsWild
    <3> QED
      BY <2>6, <3>1, <3>2, <3>3, <3>4, <3>5 DEF Handler
  <2>7. CASE Reset
    <3>1. CASE ResetGoto
      <4>1. /\ stack \in Seq(Frames) /\ stack # <<>> /\ Len(stack) = 1
            /\ Goes(Last(stack), "r1") \in Frames
        BY <2>1, <3>1, RunningReset DEF ResetGoto, ResetPcs
      <4>2. Len(At(stack, "r1")) = Len(stack) /\ Len(stack) < MaxNesting
        BY <4>1, AtFacts DEF MaxNesting
      <4> QED
        BY <2>1, <2>3, <3>1, <4>2 DEF ResetGoto, OnlyUntestedStops
    <3>2. CASE ResetFails
      <4>1. mode = "M"
        BY <2>1, <3>2, RunningReset DEF ResetFails, ResetTop, Arrived, HartMode
      <4> QED
        BY <3>2, <4>1 DEF ResetFails
    <3>3. CASE ResetCsrs
      BY <2>1, <3>3 DEF ResetCsrs, OnlyUntestedStops
    <3> QED
      BY <2>7, <3>1, <3>2, <3>3 DEF Reset
  <2>8. CASE Test
    <3>1. stack = <<>>
      BY <2>8 DEF Test, TestGoto, TestGotoDirect, TestSetup, TestFault, TestBareEcall,
         TestDelegates, TestReset, TestAsserts, MaySwitch, InTest
    <3>2. Len(stack) < MaxNesting /\ Len(<<Goes(GotoFrame(M), "ecall")>>) < MaxNesting
      BY <2>2, <3>1 DEF MaxNesting
    <3>3. status' = status
      BY <2>2, <2>3, <2>4, <2>8, <3>2 DEF Test, TestGoto, TestGotoDirect, TestSetup, TestFault,
         TestBareEcall, TestDelegates, TestReset, TestAsserts
    <3> QED
      BY <2>1, <3>3 DEF OnlyUntestedStops
  <2>9. CASE TakeInterrupt
    <3>1. stack = <<>>
      BY <2>9 DEF TakeInterrupt, IrqPoint, Respected
    <3>2. PICK c \in Irqs : Trap(c, stack)
      BY <2>9 DEF TakeInterrupt
    <3>3. Len(stack) < MaxNesting
      BY <2>2, <3>1 DEF MaxNesting
    <3>4. status' = status
      BY <2>2, <2>4, <3>2, <3>3
    <3> QED
      BY <2>1, <3>4 DEF OnlyUntestedStops
  <2> QED
    BY <1>2, <2>5, <2>6, <2>7, <2>8, <2>9
<1> QED
  BY <1>1, <1>2 DEF Next, Harness

\* Of the ERROR branches of the harness only "untested exception!" is left to a test that
\* respects the conditions, in a build that keeps a0 and has room for six frames.
THEOREM UntestedOnly == Respected /\ SoundBuild => (Spec => []OnlyUntestedStops)
<1> SUFFICES ASSUME Respected, SoundBuild PROVE Spec => []OnlyUntestedStops
  OBVIOUS
<1>1. CallsInv /\ OnlyUntestedStops /\ [Next]_vars => OnlyUntestedStops'
  BY UntestedKept
<1>2. Init => OnlyUntestedStops
  BY DEF Init, OnlyUntestedStops
<1>3. Spec => []CallsInv
  BY CallsInvariance
<1> QED
  BY <1>1, <1>2, <1>3, PTL DEF Spec

-----------------------------------------------------------------------------
(***************************************************************************)
(* What uses up the announcement of an exception.                          *)
(***************************************************************************)
LEMMA AnnouncedPop ==
  ASSUME TypeOK, status = "run", AnnouncedInv, stack # <<>>, ~armed',
         stack' = Front(stack) \/ (\E b : stack' = Resume(Front(stack), b))
  PROVE  AnnouncedInv'
<1> PICK s, t : s = stack /\ t = Front(stack)
  OBVIOUS
<1>1. s \in Seq(Frames) /\ s # <<>> /\ Len(s) \in Nat /\ Len(s) > 0
  BY DEF TypeOK
<1>2. /\ t \in Seq(Frames) /\ Len(t) = Len(s) - 1
      /\ \A i \in 1..(Len(s) - 1) : t[i] = s[i]
  BY <1>1, PopFacts
<1>3. \A i \in 1..Len(t) : t[i].pc # "h0"
  BY <1>1, <1>2 DEF AnnouncedInv
<1>4. \/ stack' = t
      \/ t # <<>> /\ Last(t).pc = "ecall" /\ stack' = At(t, "ret")
  BY DEF Resume
<1>5. \A i \in 1..Len(stack') : stack'[i].pc # "h0"
  <2>1. CASE stack' = t
    BY <1>3, <2>1
  <2>2. CASE t # <<>> /\ Last(t).pc = "ecall" /\ stack' = At(t, "ret")
    <3>1. Last(t) \in Frames
      BY <1>2, <2>2 DEF Last
    <3>2. Goes(Last(t), "ret") \in Frames
      BY <2>2, <3>1, FrameFacts DEF GotoPcs, HandlerPcs, ResetPcs
    <3>3. Goes(Last(t), "ret").pc = "ret"
      BY DEF Goes
    <3> PICK g, w : g = Goes(Last(t), "ret") /\ w = At(t, "ret")
      OBVIOUS
    <3>4. /\ w \in Seq(Frames) /\ Len(w) = Len(t) /\ w[Len(t)] = g
          /\ \A i \in 1..(Len(t) - 1) : w[i] = t[i]
      BY <1>2, <2>2, <3>2, AtFacts
    <3>5. \A i \in 1..Len(t) : i = Len(t) \/ i \in 1..(Len(t) - 1)
      BY <1>2
    <3> QED
      BY <1>3, <2>2, <3>3, <3>4, <3>5
  <2> QED
    BY <1>4, <2>1, <2>2
<1>6. Len(stack') \in Nat
  <2>1. stack' \in Seq(Frames)
    BY <1>2, ResumeTypes
  <2> QED
    BY <2>1
<1>7. \A i \in 1..(Len(stack') - 1) : stack'[i].pc # "h0"
  BY <1>5, <1>6
<1>8. ~OneHandler({"h0"})'
  BY <1>5, <1>6 DEF OneHandler
<1> QED
  BY <1>7, <1>8 DEF AnnouncedInv

LEMMA AnnouncedAt ==
  ASSUME TypeOK, status = "run", AnnouncedInv, stack # <<>>,
         NEW pc, pc # "h0", Goes(Last(stack), pc) \in Frames, stack' = At(stack, pc),
         UNCHANGED <<armed, excpt>>
  PROVE  AnnouncedInv'
<1> PICK s, g, w : s = stack /\ g = Goes(Last(stack), pc) /\ w = At(stack, pc)
  OBVIOUS
<1>1. s \in Seq(Frames) /\ s # <<>> /\ Len(s) \in Nat /\ Len(s) > 0
  BY DEF TypeOK
<1>2. /\ w \in Seq(Frames) /\ w # <<>> /\ Len(w) = Len(s) /\ w[Len(s)] = g
      /\ \A i \in 1..(Len(s) - 1) : w[i] = s[i]
  BY <1>1, AtFacts
<1>3. g.pc = pc /\ g.fn = Last(s).fn /\ g.cause = Last(s).cause
  BY DEF Goes
<1>4. \A i \in 1..(Len(w) - 1) : w[i].pc # "h0"
  BY <1>1, <1>2 DEF AnnouncedInv
<1>5. Len(w) = 1 => w[1] = g /\ Last(s) = s[1]
  BY <1>2 DEF Last
<1>6. ~OneHandler({"h0"})'
  BY <1>3, <1>5 DEF OneHandler
<1>7. armed => /\ excpt.testing /\ ~excpt.triggered
               /\ OneHandler(HandlerPcs) /\ s[1].cause \in Faults
  BY DEF AnnouncedInv
<1>8. armed => OneHandler(HandlerPcs)' /\ w[1].cause \in Faults
  <2>1. g.fn \in Handlers => g.pc \in HandlerPcs
    BY FrameFacts DEF Handlers
  <2> QED
    BY <1>2, <1>3, <1>5, <1>7, <2>1 DEF OneHandler
<1> QED
  BY <1>4, <1>6, <1>7, <1>8 DEF AnnouncedInv

LEMMA AnnouncedCall ==
  ASSUME TypeOK, status = "run", AnnouncedInv, stack # <<>>, ~armed',
         NEW pc, pc # "h0", Goes(Last(stack), pc) \in Frames, NEW g \in Frames,
         stack' = Push(At(stack, pc), g)
  PROVE  AnnouncedInv'
<1> PICK s, h, w : s = stack /\ h = Goes(Last(stack), pc) /\ w = Push(At(stack, pc), g)
  OBVIOUS
<1>1. s \in Seq(Frames) /\ s # <<>> /\ Len(s) \in Nat /\ Len(s) > 0
  BY DEF TypeOK
<1>2. /\ w \in Seq(Frames) /\ Len(w) = Len(s) + 1 /\ w[Len(s)] = h
      /\ \A i \in 1..(Len(s) - 1) : w[i] = s[i]
  BY <1>1, CallFacts
<1>3. h.pc = pc
  BY DEF Goes
<1>4. \A i \in 1..(Len(w) - 1) : w[i].pc # "h0"
  <2>1. \A i \in 1..(Len(w) - 1) : i = Len(s) \/ i \in 1..(Len(s) - 1)
    BY <1>1, <1>2
  <2> QED
    BY <1>1, <1>2, <1>3, <2>1 DEF AnnouncedInv
<1>5. Len(w) # 1
  BY <1>1, <1>2
<1> QED
  BY <1>4, <1>5 DEF AnnouncedInv, OneHandler

LEMMA AnnouncedFirst ==
  ASSUME NEW g \in Frames, stack' = Push(<<>>, g),
         armed' => /\ (excpt.testing /\ ~excpt.triggered)'
                   /\ g.fn \in Handlers /\ g.cause \in Faults,
         g.fn \in Handlers => excpt'.testing
  PROVE  AnnouncedInv'
<1>1. stack' # <<>> /\ Len(stack') = 1 /\ Last(stack') = g
  BY OneFrame
<1>2. stack'[1] = g
  BY <1>1 DEF Last
<1>3. \A i \in 1..(Len(stack') - 1) : FALSE
  <2>1. 1..(1 - 1) = {}
    OBVIOUS
  <2> QED
    BY <1>1, <2>1
<1>4. g.fn \in Handlers => g.pc \in HandlerPcs
  BY FrameFacts DEF Handlers
<1> QED
  BY <1>1, <1>2, <1>3, <1>4 DEF AnnouncedInv, OneHandler

LEMMA AnnouncedIdle ==
  ASSUME stack' = <<>>, armed' => (excpt.testing /\ ~excpt.triggered)'
  PROVE  AnnouncedInv'
<1>1. Len(stack') = 0
  OBVIOUS
<1> QED
  BY <1>1 DEF AnnouncedInv, OneHandler

LEMMA AnnouncedGoto ==
  ASSUME TypeOK, status = "run", AnnouncedInv, Goto, status' = "run"
  PROVE  AnnouncedInv'
<1>1. ~GotoLowerRefused
  BY DEF GotoLowerRefused, LowerRefusal, Stop
<1>2. stack \in Seq(Frames) /\ stack # <<>> /\ Last(stack) \in Frames /\ Last(stack).fn = "goto"
  <2>1. \E pc : Running("goto", pc)
    BY <1>1 DEF Goto, GotoUserToUser, GotoArrived, GotoRaiseViaHS, GotoSecondHop,
       GotoEcall, GotoLowerNothing, GotoLower, GotoLowered, GotoReturn, Lowering, Deciding
  <2> QED
    BY <2>1, RunningTypes
<1>3. \A q \in GotoPcs : Goes(Last(stack), q) \in Frames
  BY <1>2, FrameFacts
<1>4. ~armed
  <2>1. Last(stack).fn \notin Handlers
    BY <1>2 DEF Handlers
  <2>2. Len(stack) = 1 => Last(stack) = stack[1]
    BY DEF Last
  <2> QED
    BY <1>2, <2>1, <2>2 DEF AnnouncedInv, OneHandler
<1>5. armed' = armed /\ excpt' = excpt
  BY <1>1 DEF Goto, GotoUserToUser, GotoArrived, GotoRaiseViaHS, GotoSecondHop,
     GotoEcall, GotoLowerNothing, GotoLower, GotoLowered, GotoReturn
<1>6. CASE GotoUserToUser \/ GotoRaiseViaHS \/ GotoSecondHop
  <2>1. \A t \in Priv : GotoFrame(t) \in Frames
    BY FrameFacts
  <2>2. PICK q \in {"toM", "viaHS", "fromHS"}, t \in {HS, M} : stack' = Push(At(stack, q), GotoFrame(t))
    BY <1>6 DEF GotoUserToUser, GotoRaiseViaHS, GotoSecondHop, Call
  <2>3. q \in GotoPcs /\ q # "h0" /\ t \in Priv
    BY DEF GotoPcs, Priv, VU, HS, M
  <2> QED
    BY <1>2, <1>3, <1>4, <1>5, <2>1, <2>2, <2>3, AnnouncedCall
<1>7. CASE GotoEcall
  <2> PICK c, g : c = EcallCause /\ g = HandlerFrame(Level(c), c)
    OBVIOUS
  <2>1. stack' = Push(At(stack, "ecall"), g)
    BY <1>7 DEF GotoEcall, Trap
  <2>2. c \in Causes /\ Level(c) \in {"M", "S"}
    BY EcallCauseType DEF Level
  <2>3. g \in Frames /\ "ecall" \in GotoPcs
    BY <2>2, FrameFacts DEF GotoPcs
  <2> QED
    BY <1>2, <1>3, <1>4, <1>5, <2>1, <2>3, AnnouncedCall
<1>8. CASE GotoArrived \/ GotoLowerNothing \/ GotoLowered \/ GotoReturn
  <2>1. stack' = Front(stack)
    BY <1>8 DEF GotoArrived, GotoLowerNothing, GotoLowered, GotoReturn
  <2> QED
    BY <1>2, <1>4, <1>5, <2>1, AnnouncedPop
<1>9. CASE GotoLower
  <2>1. stack' = At(stack, "window") /\ "window" \in GotoPcs
    BY <1>9 DEF GotoLower, GotoPcs
  <2> QED
    BY <1>2, <1>3, <1>5, <2>1, AnnouncedAt
<1> QED
  BY <1>1, <1>6, <1>7, <1>8, <1>9 DEF Goto

LEMMA AnnouncedHandler ==
  ASSUME TypeOK, status = "run", AnnouncedInv, Handler, status' = "run"
  PROVE  AnnouncedInv'
<1>1. ~HandlerRejects /\ ~HandlerFails /\ ~HandlerReturnsWild
  BY DEF HandlerRejects, HandlerFails, HandlerReturnsWild, HandlerRefusal, Stop
<1>2. PICK h \in Handlers, pc \in HandlerPcs : Running(h, pc)
  BY <1>1 DEF Handler, HandlerServesGoto, HandlerAccepts, HandlerReturns, Handling, HandlerPcs
<1>3. /\ stack \in Seq(Frames) /\ stack # <<>> /\ Last(stack) \in Frames
      /\ Goes(Last(stack), "h1") \in Frames
  BY <1>2, RunningTypes, FrameFacts DEF HandlerPcs
<1>4. armed => Cause \in Faults
  BY <1>3 DEF AnnouncedInv, OneHandler, Cause, Last
<1>5. Faults \cap Ecalls = {}
  BY ConstantsAssumption DEF ConstantsAssumption, Ecalls
<1>6. CASE HandlerServesGoto
  <2>1. stack' = Push(At(stack, "h1"), GotoFrame(arg)) /\ ~armed' /\ arg \in Priv
    BY <1>4, <1>5, <1>6 DEF HandlerServesGoto, Call, TypeOK
  <2>2. GotoFrame(arg) \in Frames
    BY <2>1, FrameFacts
  <2> QED
    BY <1>3, <2>1, <2>2, AnnouncedCall
<1>7. CASE HandlerAccepts
  BY <1>3, <1>7, AnnouncedAt DEF HandlerAccepts
<1>8. CASE HandlerReturns
  <2>1. ~armed' /\ stack' = Resume(Front(stack), Advances)
    BY <1>4, <1>8 DEF HandlerReturns
  <2> QED
    BY <1>3, <2>1, AnnouncedPop
<1> QED
  BY <1>1, <1>6, <1>7, <1>8 DEF Handler

LEMMA AnnouncedReset ==
  ASSUME TypeOK, status = "run", AnnouncedInv, Reset, status' = "run"
  PROVE  AnnouncedInv'
<1>1. ~ResetFails
  BY DEF ResetFails, Stop
<1>2. PICK pc \in ResetPcs : Running("reset", pc)
  BY <1>1 DEF Reset, ResetGoto, ResetCsrs, ResetPcs
<1>3. /\ stack \in Seq(Frames) /\ stack # <<>> /\ Last(stack) \in Frames /\ Last(stack).fn = "reset"
      /\ Goes(Last(stack), "r1") \in Frames
  BY <1>2, RunningTypes, FrameFacts DEF ResetPcs
<1>4. ~armed
  BY <1>3 DEF AnnouncedInv, OneHandler, Handlers, Last
<1>5. CASE ResetGoto
  <2>1. stack' = Push(At(stack, "r1"), GotoFrame(M)) /\ ~armed'
    BY <1>4, <1>5 DEF ResetGoto, Call
  <2>2. GotoFrame(M) \in Frames
    BY FrameFacts DEF Priv, VU, M
  <2> QED
    BY <1>3, <2>1, <2>2, AnnouncedCall
<1>6. CASE ResetCsrs
  BY <1>3, <1>4, <1>6, AnnouncedPop DEF ResetCsrs
<1> QED
  BY <1>1, <1>5, <1>6 DEF Reset

LEMMA AnnouncedTest ==
  ASSUME Undisturbed, TypeOK, status = "run", AnnouncedInv, Test, status' = "run"
  PROVE  AnnouncedInv'
<1>1. armed => excpt.testing /\ ~excpt.triggered
  BY DEF AnnouncedInv
<1>2. CASE TestGoto
  <2>1. PICK t \in Priv : Call(stack, GotoFrame(t))
    BY <1>2 DEF TestGoto
  <2>2. stack = <<>> /\ ~armed'
    BY <1>2 DEF TestGoto, MaySwitch, InTest, Undisturbed
  <2> PICK g : g = GotoFrame(t)
    OBVIOUS
  <2>3. g \in Frames /\ g.fn \notin Handlers /\ stack' = Push(<<>>, g)
    BY <2>1, <2>2, FrameFacts DEF GotoFrame, Handlers, Call
  <2> QED
    BY <2>2, <2>3, AnnouncedFirst
<1>3. CASE TestGotoDirect
  <2> PICK f, c, h : f = Goes(GotoFrame(M), "ecall") /\ c = EcallCause /\ h = HandlerFrame(Level(c), c)
    OBVIOUS
  <2> DEFINE r == <<f>>
  <2>1. stack' = Push(r, h) /\ ~armed'
    BY <1>3 DEF TestGotoDirect, MaySwitch, Undisturbed, Trap
  <2>2. c \in Causes /\ Level(c) \in {"M", "S"}
    BY EcallCauseType DEF Level
  <2>3. h \in Frames /\ f \in Frames /\ f.pc = "ecall"
    BY <2>2, FrameFacts DEF Goes, GotoFrame, Frames, GotoPcs, Priv, VU, M
  <2>4. r \in Seq(Frames) /\ Len(r) = 1 /\ r[1] = f
    BY <2>3
  <2> HIDE DEF r
  <2>5. Len(stack') = 2 /\ stack'[1] = f
    BY <2>1, <2>3, <2>4, TwoFrames
  <2>6. \A i \in 1..(Len(stack') - 1) : stack'[i].pc # "h0"
    BY <2>3, <2>5
  <2> QED
    BY <2>1, <2>5, <2>6 DEF AnnouncedInv, OneHandler
<1>4. CASE TestSetup
  <2>1. stack' = <<>> /\ excpt'.testing /\ ~excpt'.triggered
    BY <1>4 DEF TestSetup, InTest, TypeOK
  <2> QED
    BY <2>1, AnnouncedIdle
<1>5. CASE TestAsserts \/ TestDelegates
  <2>1. stack' = <<>> /\ excpt' = excpt /\ (armed' => armed)
    BY <1>5 DEF TestAsserts, TestDelegates, InTest
  <2> QED
    BY <1>1, <2>1, AnnouncedIdle
<1>6. CASE TestFault
  <2>1. PICK c \in Faults : /\ excpt' = [excpt EXCEPT !.faultInst = (c \in InstFaults)]
                            /\ Trap(c, stack)
    BY <1>6 DEF TestFault
  <2>2. c \in Causes
    BY ConstantsAssumption DEF ConstantsAssumption, Causes, InstFaults
  <2> PICK h : h = HandlerFrame(Level(c), c)
    OBVIOUS
  <2>3. stack' = Push(<<>>, h)
    BY <1>6, <2>1 DEF TestFault, InTest, Trap
  <2>4. h \in Frames /\ h.fn \in Handlers /\ h.cause = c
    BY <2>2, FrameFacts DEF Level, HandlerFrame, Handlers
  <2>5. (excpt.testing /\ ~excpt.triggered)'
    BY <1>1, <1>6, <2>1 DEF TestFault, TypeOK
  <2> QED
    BY <2>3, <2>4, <2>5, AnnouncedFirst
<1>7. CASE TestBareEcall
  <2> PICK c, h : c = EcallCause /\ h = HandlerFrame(Level(c), c)
    OBVIOUS
  <2>1. c \in Causes /\ Level(c) \in {"M", "S"}
    BY EcallCauseType DEF Level
  <2>2. h \in Frames
    BY <2>1, FrameFacts
  <2>3. stack' = Push(<<>>, h) /\ ~armed' /\ excpt'.testing
    BY <1>1, <1>7 DEF TestBareEcall, InTest, Trap
  <2> QED
    BY <2>2, <2>3, AnnouncedFirst
<1>8. CASE TestReset
  <2>1. stack' = Push(<<>>, ResetFrame) /\ ~armed' /\ ResetFrame \in Frames
    BY <1>8, FrameFacts DEF TestReset, InTest, Call
  <2>2. ResetFrame.fn \notin Handlers
    BY DEF ResetFrame, Handlers
  <2> QED
    BY <2>1, <2>2, AnnouncedFirst
<1> QED
  BY <1>2, <1>3, <1>4, <1>5, <1>6, <1>7, <1>8 DEF Test

LEMMA AnnouncedKept == Undisturbed /\ TypeOK /\ AnnouncedInv /\ [Next]_vars => AnnouncedInv'
<1> SUFFICES ASSUME Undisturbed, TypeOK, AnnouncedInv, [Next]_vars, status' = "run" PROVE AnnouncedInv'
  BY DEF AnnouncedInv
<1>1. CASE UNCHANGED vars \/ Stopped
  BY <1>1 DEF vars, Stopped, AnnouncedInv, OneHandler
<1>2. CASE Goto \/ Handler \/ Reset \/ Test
  <2>1. status = "run"
    BY <1>2, StepsRun
  <2> QED
    BY <1>2, <2>1, AnnouncedGoto, AnnouncedHandler, AnnouncedReset, AnnouncedTest
<1>3. ~TakeInterrupt
  BY DEF TakeInterrupt, Undisturbed
<1> QED
  BY <1>1, <1>2, <1>3 DEF Next, Harness

LEMMA InitAnnounced == Init => AnnouncedInv
<1> SUFFICES ASSUME Init PROVE AnnouncedInv
  OBVIOUS
<1>1. stack = <<>> /\ ~armed
  BY DEF Init
<1>2. Len(stack) = 0
  BY <1>1
<1>3. 1..(0 - 1) = {}
  OBVIOUS
<1> QED
  BY <1>1, <1>2, <1>3 DEF AnnouncedInv, OneHandler

\* Only the handlers' last ERROR is called "untested exception".
LEMMA RejectsOnly ==
  ASSUME [Next]_vars, status = "run", status' = "untested exception"
  PROVE  HandlerRejects
<1>1. ~UNCHANGED vars /\ ~Stopped
  BY DEF vars, Stopped
<1>2. ~Goto
  BY DEF Goto, GotoUserToUser, GotoArrived, GotoRaiseViaHS, GotoSecondHop, GotoEcall, GotoLowerRefused,
     GotoLowerNothing, GotoLower, GotoLowered, GotoReturn, Call, Trap, Stop, LowerRefusal
<1>3. Handler => HandlerRejects
  BY DEF Handler, HandlerServesGoto, HandlerAccepts, HandlerFails,
     HandlerReturns, HandlerReturnsWild, HandlerRefusal, Call, Stop
<1>4. ~Reset
  BY DEF Reset, ResetGoto, ResetFails, ResetCsrs, Call, Stop
<1>5. ~Test
  BY DEF Test, TestGoto, TestGotoDirect, TestSetup, TestFault, TestBareEcall, TestDelegates,
     TestReset, TestAsserts, Call, Trap
<1>6. ~TakeInterrupt
  BY DEF TakeInterrupt, Trap
<1> QED
  BY <1>1, <1>2, <1>3, <1>4, <1>5, <1>6 DEF Next, Harness

LEMMA AnnouncedTested ==
  ASSUME TypeOK, RunInv, AnnouncedInv, status = "run", HandlerRejects
  PROVE  FALSE
<1>1. PICK h \in Handlers : Running(h, "h0")
  BY DEF HandlerRejects, Handling
<1>2. /\ HandlerTop(Last(stack)) /\ Last(stack).fn = h /\ Last(stack).pc = "h0"
      /\ Len(stack) = 1 \/ Len(stack) > 1
  BY <1>1, RunningHandler
<1>3. Len(stack) = 1
  <2>1. Len(stack) > 1 => Last(stack).cause \in Ecalls /\ arg \in {HS, M}
    BY <1>2 DEF HandlerTop, Ecalls
  <2>2. ~(Cause \in Ecalls /\ arg # None)
    BY DEF HandlerRejects
  <2> QED
    BY <1>2, <2>1, <2>2 DEF Cause, None, HS, M
<1>4. excpt.testing
  BY <1>2, <1>3 DEF AnnouncedInv, OneHandler, Last
<1>5. ~(Running("hshandler", "h0") /\ Cause \in Ecalls)
  BY <1>2, <1>3 DEF HandlerTop, Running, Cause
<1> QED
  BY <1>4, <1>5 DEF HandlerRejects

\* An undisturbed test that respects the conditions reaches no ERROR of the harness at
\* all, and its recursion stays within the room of the trap stack.
THEOREM NoStop == Respected /\ SoundBuild /\ Undisturbed => (Spec => []NeverStops)
<1> SUFFICES ASSUME Respected, SoundBuild, Undisturbed PROVE Spec => []NeverStops
  OBVIOUS
<1> DEFINE Calm == AnnouncedInv /\ NeverStops
<1>1. Calm /\ CallsInv /\ [Next]_vars => Calm'
  <2> SUFFICES ASSUME Calm, CallsInv, [Next]_vars PROVE Calm'
    OBVIOUS
  <2>1. AnnouncedInv' /\ OnlyUntestedStops'
    BY AnnouncedKept, UntestedKept DEF CallsInv, IInv, NeverStops, OnlyUntestedStops
  <2>2. TypeOK /\ RunInv /\ status = "run"
    BY DEF CallsInv, IInv, NeverStops
  <2>3. CASE status' = "untested exception"
    <3>1. HandlerRejects
      BY <2>2, <2>3, RejectsOnly
    <3> QED
      BY <2>2, <3>1, AnnouncedTested
  <2> QED
    BY <2>1, <2>3 DEF OnlyUntestedStops, NeverStops
<1>2. Init => Calm
  BY InitAnnounced DEF Init, NeverStops
<1>3. Spec => []CallsInv
  BY CallsInvariance
<1>4. Calm => NeverStops
  OBVIOUS
<1> HIDE DEF Calm
<1> QED
  BY <1>1, <1>2, <1>3, <1>4, PTL DEF Spec

-----------------------------------------------------------------------------
\* Only a goto_priv that has arrived or lowered assigns curr_priv.
LEMMA CurrChanges ==
  ASSUME [Next]_vars, curr' # curr
  PROVE  GotoArrived \/ GotoLowered
<1>1. ~UNCHANGED vars /\ ~Stopped
  BY DEF vars, Stopped
<1>2. Goto => GotoArrived \/ GotoLowered
  BY DEF Goto, GotoUserToUser, GotoRaiseViaHS, GotoSecondHop, GotoEcall, GotoLowerRefused,
     GotoLowerNothing, GotoLower, GotoReturn, Stop
<1>3. ~Handler
  BY DEF Handler, HandlerServesGoto, HandlerRejects, HandlerAccepts, HandlerFails,
     HandlerReturns, HandlerReturnsWild, Stop
<1>4. ~Reset
  BY DEF Reset, ResetGoto, ResetFails, ResetCsrs, Stop
<1>5. ~Test
  BY DEF Test, TestGoto, TestGotoDirect, TestSetup, TestFault, TestBareEcall, TestDelegates,
     TestReset, TestAsserts
<1>6. ~TakeInterrupt
  BY DEF TakeInterrupt
<1> QED
  BY <1>1, <1>2, <1>3, <1>4, <1>5, <1>6 DEF Next, Harness

LEMMA SwitchChanges ==
  ASSUME CallsInv, [Next]_vars, curr' # curr
  PROVE  stack # <<>> /\ stack[1].fn \in {"goto", "reset"}
<1>1. /\ GotoArrived \/ GotoLowered
      /\ status = "run" /\ stack # <<>> /\ Last(stack).fn = "goto"
  BY CurrChanges DEF GotoArrived, GotoLowered, Deciding, Running
<1>2. TypeOK /\ RunInv /\ NestInv
  BY <1>1 DEF CallsInv, IInv
<1>3. stack \in Seq(Frames) /\ stack[1] \in Frames /\ (Len(stack) = 1 \/ Len(stack) > 1)
  BY <1>1, <1>2, LenCases DEF TypeOK
<1>4. SUFFICES ASSUME stack[1].fn \in Handlers PROVE FALSE
  BY <1>1, <1>3, FrameFacts DEF Handlers, Frames
<1>5. Len(stack) > 1
  BY <1>1, <1>3, <1>4 DEF Last, Handlers
<1>6. Last(stack).pc = "g0" /\ Target = M /\ curr = M
  BY <1>2, <1>4, <1>5, BareOnly DEF NestInv
<1> QED
  BY <1>1, <1>6 DEF GotoArrived, GotoLowered, Running

\* curr_priv changes only while a goto_priv or reset_state of the test is on the stack, never
\* on behalf of a fault, an interrupt or an ecall of its own.
THEOREM SwitchesSwitch == Respected => (Spec => OnlySwitchesSwitch)
<1> SUFFICES ASSUME Respected PROVE Spec => OnlySwitchesSwitch
  OBVIOUS
<1> DEFINE Change == curr' # curr => stack # <<>> /\ stack[1].fn \in {"goto", "reset"}
<1>1. CallsInv /\ [Next]_vars => [Change]_vars
  BY SwitchChanges
<1>2. Spec => []CallsInv
  BY CallsInvariance
<1>3. OnlySwitchesSwitch <=> [][Change]_vars
  BY DEF OnlySwitchesSwitch
<1> HIDE DEF Change
<1> QED
  BY <1>1, <1>2, <1>3, PTL DEF Spec
================================================================================
