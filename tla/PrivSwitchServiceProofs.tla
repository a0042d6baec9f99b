------------------------ MODULE PrivSwitchServiceProofs -----------------------
(***************************************************************************)
(* PrivSwitch implements HarnessService for every set of switches,         *)
(* delegations, faults and interrupts that respects the conditions: the    *)
(* invariant CalledInv, and with it that every step is a step of the       *)
(* service or a stutter.                                                   *)
(***************************************************************************)
EXTENDS PrivSwitchService, PrivSwitchStops, TLAPS

-----------------------------------------------------------------------------
(***************************************************************************)
(* How a step changes the control stack: the running frame goes on, and    *)
(* may have called, or it returns, behind the ecall it served.             *)
(***************************************************************************)
Serves(f) ==
  /\ f.fn = "hshandler" => f.cause = "ECU"
  /\ f.fn = "mhandler" => f.cause = "ECS"

GoesOn(s, r) ==
  LET n == Len(s)
  IN  /\ r \in Seq(Frames)
      /\ Len(r) \in {n, n + 1}
      /\ \A i \in 1..(n - 1) : r[i] = s[i]
      /\ \E pc : r[n] = Goes(s[n], pc)
      /\ Len(r) = n + 1 => Serves(r[n + 1])

Returns(s, r) ==
  LET n == Len(s)
  IN  /\ r \in Seq(Frames)
      /\ Len(r) = n - 1
      /\ \A i \in 1..(n - 2) : r[i] = s[i]
      /\ n > 1 => \/ r[n - 1] = s[n - 1]
                  \/ s[n - 1].pc = "ecall" /\ r[n - 1] = Goes(s[n - 1], "ret")

LEMMA GoesOnAt ==
  ASSUME NEW s \in Seq(Frames), s # <<>>, NEW pc, Goes(Last(s), pc) \in Frames
  PROVE  GoesOn(s, At(s, pc))
<1> DEFINE r == At(s, pc)
<1>1. /\ r \in Seq(Frames) /\ Len(r) = Len(s) /\ \A i \in 1..(Len(s) - 1) : r[i] = s[i]
      /\ r[Len(s)] = Goes(Last(s), pc)
  BY AtFacts
<1>2. Len(s) \in Nat /\ Last(s) = s[Len(s)]
  BY DEF Last
<1> HIDE DEF r
<1>3. GoesOn(s, r)
  BY <1>1, <1>2 DEF GoesOn
<1> QED
  BY <1>3 DEF r

LEMMA GoesOnCall ==
  ASSUME NEW s \in Seq(Frames), s # <<>>, NEW pc, Goes(Last(s), pc) \in Frames,
         NEW g \in Frames, Serves(g)
  PROVE  GoesOn(s, Push(At(s, pc), g))
<1> DEFINE r == Push(At(s, pc), g)
<1>1. /\ r \in Seq(Frames) /\ Len(r) = Len(s) + 1 /\ \A i \in 1..(Len(s) - 1) : r[i] = s[i]
      /\ r[Len(s)] = Goes(Last(s), pc) /\ r[Len(s) + 1] = g
  BY CallFacts
<1>2. Len(s) \in Nat /\ Last(s) = s[Len(s)]
  BY DEF Last
<1> HIDE DEF r
<1>3. GoesOn(s, r)
  BY <1>1, <1>2 DEF GoesOn
<1> QED
  BY <1>3 DEF r

LEMMA ReturnsFront ==
  ASSUME NEW s \in Seq(Frames), s # <<>>
  PROVE  Returns(s, Front(s))
<1> DEFINE r == Front(s)
<1>1. /\ r \in Seq(Frames) /\ Len(r) = Len(s) - 1 /\ \A i \in 1..(Len(s) - 1) : r[i] = s[i]
  BY PopFacts
<1>2. Len(s) \in Nat
  OBVIOUS
<1> HIDE DEF r
<1>3. Returns(s, r)
  BY <1>1, <1>2 DEF Returns
<1> QED
  BY <1>3 DEF r

LEMMA ReturnsResume ==
  ASSUME NEW s \in Seq(Frames), s # <<>>, NEW b
  PROVE  Returns(s, Resume(Front(s), b))
<1> DEFINE q == Front(s)
           r == Resume(q, b)
<1>1. /\ q \in Seq(Frames) /\ Len(q) = Len(s) - 1 /\ \A i \in 1..(Len(s) - 1) : q[i] = s[i]
  BY PopFacts
<1>2. Len(s) \in Nat /\ r \in Seq(Frames)
  BY <1>1, ResumeTypes
<1>3. CASE r = q
  BY <1>3, ReturnsFront
<1>4. CASE r # q
  <2>1. q # <<>> /\ Last(q).pc = "ecall" /\ r = At(q, "ret")
    BY <1>4 DEF Resume
  <2>2. Last(q) \in Frames /\ Last(q) = q[Len(q)] /\ Len(q) > 0
    BY <1>1, <2>1 DEF Last
  <2>3. Goes(Last(q), "ret") \in Frames
    BY <2>1, <2>2, FrameFacts DEF GotoPcs, HandlerPcs, ResetPcs, Frames
  <2>4. /\ Len(r) = Len(q) /\ \A i \in 1..(Len(q) - 1) : r[i] = q[i]
        /\ r[Len(q)] = Goes(Last(q), "ret")
    <3> HIDE DEF q, r
    <3>1. /\ Len(At(q, "ret")) = Len(q)
          /\ \A i \in 1..(Len(q) - 1) : At(q, "ret")[i] = q[i]
          /\ At(q, "ret")[Len(q)] = Goes(Last(q), "ret")
      BY <1>1, <2>1, <2>3, AtFacts
    <3> QED
      BY <2>1, <3>1
  <2> HIDE DEF q, r
  <2>5. Returns(s, r)
    BY <1>1, <1>2, <2>1, <2>2, <2>4 DEF Returns
  <2> QED
    BY <2>5 DEF r, q
<1> QED
  BY <1>3, <1>4

\* Which operations go on or call.
Going ==
  \/ GotoUserToUser \/ GotoRaiseViaHS \/ GotoSecondHop \/ GotoEcall \/ GotoLower
  \/ HandlerServesGoto \/ HandlerAccepts \/ ResetGoto

\* Which return.
Returning == GotoArrived \/ GotoLowered \/ GotoReturn \/ HandlerReturns \/ ResetCsrs

LEMMA GoingFrames ==
  ASSUME TypeOK, RunInv, Going, status' = "run"
  PROVE  stack \in Seq(Frames) /\ stack # <<>> /\ GoesOn(stack, stack')
<1>1. CASE GotoUserToUser
  <2>1. /\ stack \in Seq(Frames) /\ stack # <<>> /\ Goes(Last(stack), "toM") \in Frames
        /\ stack' = Push(At(stack, "toM"), GotoFrame(M))
    BY <1>1, RunningGoto DEF GotoUserToUser, GotoPcs, Call
  <2>2. GotoFrame(M) \in Frames /\ Serves(GotoFrame(M))
    BY FrameFacts DEF Serves, GotoFrame, Priv, VU, M
  <2> QED
    BY <2>1, <2>2, GoesOnCall
<1>2. CASE GotoRaiseViaHS
  <2>1. /\ stack \in Seq(Frames) /\ stack # <<>> /\ Goes(Last(stack), "viaHS") \in Frames
        /\ stack' = Push(At(stack, "viaHS"), GotoFrame(HS))
    BY <1>2, DecidingFacts DEF GotoRaiseViaHS, GotoPcs, Call
  <2>2. GotoFrame(HS) \in Frames /\ Serves(GotoFrame(HS))
    BY FrameFacts DEF Serves, GotoFrame, Priv, VU, HS, M
  <2> QED
    BY <2>1, <2>2, GoesOnCall
<1>3. CASE GotoSecondHop
  <2>1. /\ stack \in Seq(Frames) /\ stack # <<>> /\ Goes(Last(stack), "fromHS") \in Frames
        /\ stack' = Push(At(stack, "fromHS"), GotoFrame(M))
    BY <1>3, RunningGoto DEF GotoSecondHop, GotoPcs, Call
  <2>2. GotoFrame(M) \in Frames /\ Serves(GotoFrame(M))
    BY FrameFacts DEF Serves, GotoFrame, Priv, VU, M
  <2> QED
    BY <2>1, <2>2, GoesOnCall
<1>4. CASE GotoEcall
  <2> PICK g : g = HandlerFrame(Level(EcallCause), EcallCause)
    OBVIOUS
  <2>1. /\ stack \in Seq(Frames) /\ stack # <<>> /\ Goes(Last(stack), "ecall") \in Frames
        /\ stack' = Push(At(stack, "ecall"), g)
    BY <1>4, DecidingFacts DEF GotoEcall, GotoPcs, Trap
  <2>2. \/ EcallCause = "ECS" /\ Level("ECS") = "M"
        \/ EcallCause = "ECU" /\ Level("ECU") = "S"
    BY <1>4, EcallLevel
  <2>3. EcallCause \in Causes /\ Level(EcallCause) \in {"M", "S"}
    BY <2>2 DEF Causes, Ecalls
  <2>4. g \in Frames /\ Serves(g)
    BY <2>2, <2>3, FrameFacts DEF Serves, HandlerFrame
  <2> QED
    BY <2>1, <2>4, GoesOnCall
<1>5. CASE GotoLower
  <2>1. /\ stack \in Seq(Frames) /\ stack # <<>> /\ Goes(Last(stack), "window") \in Frames
        /\ stack' = At(stack, "window")
    BY <1>5, DecidingFacts DEF GotoLower, Lowering, GotoPcs
  <2> QED
    BY <2>1, GoesOnAt
<1>6. CASE HandlerServesGoto
  <2>1. /\ stack \in Seq(Frames) /\ stack # <<>> /\ Goes(Last(stack), "h1") \in Frames
        /\ stack' = Push(At(stack, "h1"), GotoFrame(arg))
    BY <1>6, RunningHandler DEF HandlerServesGoto, Handling, HandlerPcs, Call
  <2>2. arg \in Priv
    BY <1>6 DEF HandlerServesGoto, TypeOK
  <2>3. GotoFrame(arg) \in Frames /\ Serves(GotoFrame(arg))
    BY <2>2, FrameFacts DEF Serves, GotoFrame
  <2> QED
    BY <2>1, <2>3, GoesOnCall
<1>7. CASE HandlerAccepts
  <2>1. /\ stack \in Seq(Frames) /\ stack # <<>> /\ Goes(Last(stack), "h1") \in Frames
        /\ stack' = At(stack, "h1")
    BY <1>7, RunningHandler DEF HandlerAccepts, Handling, HandlerPcs
  <2> QED
    BY <2>1, GoesOnAt
<1>8. CASE ResetGoto
  <2>1. /\ stack \in Seq(Frames) /\ stack # <<>> /\ Goes(Last(stack), "r1") \in Frames
        /\ stack' = Push(At(stack, "r1"), GotoFrame(M))
    BY <1>8, RunningReset DEF ResetGoto, ResetPcs, Call
  <2>2. GotoFrame(M) \in Frames /\ Serves(GotoFrame(M))
    BY FrameFacts DEF Serves, GotoFrame, Priv, VU, M
  <2> QED
    BY <2>1, <2>2, GoesOnCall
<1> QED
  BY <1>1, <1>2, <1>3, <1>4, <1>5, <1>6, <1>7, <1>8 DEF Going

LEMMA ReturningFrames ==
  ASSUME TypeOK, RunInv, Returning
  PROVE  stack \in Seq(Frames) /\ stack # <<>> /\ Returns(stack, stack')
<1>1. stack \in Seq(Frames) /\ stack # <<>>
  BY DEF TypeOK, Returning, GotoArrived, Deciding, GotoLowered, GotoReturn, HandlerReturns, ResetCsrs,
     Running
<1>2. stack' = Front(stack) \/ stack' = Resume(Front(stack), Advances)
  BY DEF Returning, GotoArrived, GotoLowered, GotoReturn, HandlerReturns, ResetCsrs
<1> QED
  BY <1>1, <1>2, ReturnsFront, ReturnsResume

\* A program that respects the conditions does nothing else in the harness, unless an
\* exception that no test announced ends it.
LEMMA HarnessSteps ==
  ASSUME Respected, SoundBuild, CallsInv, OnlyUntestedStops, status = "run", Harness
  PROVE  /\ TypeOK /\ RunInv /\ NestInv
         /\ \/ Going /\ status' = "run"
            \/ Returning /\ status' = "run"
            \/ HandlerRejects /\ status' = "untested exception"
<1>1. TypeOK /\ RunInv /\ NestInv
  BY DEF CallsInv, IInv
<1>2. status' \in {"run", "untested exception"}
  BY UntestedKept DEF OnlyUntestedStops, Next
<1>3. status' = "untested exception" => HandlerRejects
  BY RejectsOnly DEF Next
<1>4. CASE status' = "run"
  <2>1. ~GotoLowerRefused /\ ~GotoLowerNothing
    BY <1>1, LowerRefusedNever, LowerNothingNever
  <2>2. ~HandlerRejects
    BY <1>1, <1>4, EcallsKnown
  <2>3. ~HandlerFails
    BY <1>1, HandlerServed DEF HandlerFails
  <2>4. ~HandlerReturnsWild /\ ~ResetFails
    BY <1>4 DEF HandlerReturnsWild, ResetFails, Stop
  <2> QED
    BY <1>1, <1>4, <2>1, <2>2, <2>3, <2>4 DEF Harness, Goto, Handler, Reset, Going, Returning
<1> QED
  BY <1>1, <1>2, <1>3, <1>4

-----------------------------------------------------------------------------
(***************************************************************************)
(* The records of the service, and what a switch leaves.                   *)
(***************************************************************************)
LEMMA Records ==
  ASSUME NEW c \in Priv, NEW t \in Priv
  PROVE  /\ IsUser(c) /\ IsUser(t) =>
              /\ Service!Rises(c, t) /\ Service!Rises(c, M)
              /\ Service!RiseRecord(c, t) = Service!RiseRecord(c, M)
              /\ Service!RiseArg(t) = M /\ Service!RiseArg(M) = M
         /\ t <= c /\ ~(IsUser(c) /\ IsUser(t)) => ~Service!Rises(c, t)
         /\ t > c /\ t \in {HS, M} /\ ~(c = HU /\ t = M) =>
              /\ Service!Rises(c, t) /\ Service!RiseArg(t) = t
              /\ Service!RiseRecord(c, t) = IF IsUser(c) THEN Service!Recorded(HS, "ECU")
                                            ELSE Service!Recorded(M, "ECS")
         /\ c = HU =>
              /\ Service!Rises(c, M) /\ Service!RiseArg(M) = M
              /\ Service!RiseRecord(c, M) = Service!Recorded(M, "ECS")
<1> USE DEF Priv, IsUser, VU, HU, VS, HS, M, Service!VU, Service!HU, Service!VS, Service!HS, Service!M,
        Service!User
<1>1. IsUser(c) /\ IsUser(t) =>
        /\ Service!Rises(c, t) /\ Service!Rises(c, M)
        /\ Service!RiseArg(t) = M /\ Service!RiseArg(M) = M
  BY DEF Service!Rises, Service!RiseArg
<1>2. IsUser(c) /\ IsUser(t) => Service!RiseRecord(c, t) = Service!RiseRecord(c, M)
  BY DEF Service!RiseRecord
<1>3. t <= c /\ ~(IsUser(c) /\ IsUser(t)) => ~Service!Rises(c, t)
  BY DEF Service!Rises
<1>4. t > c /\ t \in {HS, M} => Service!Rises(c, t) /\ Service!RiseArg(t) = t
  BY DEF Service!Rises, Service!RiseArg
<1>5. t > c /\ t \in {HS, M} /\ ~(c = HU /\ t = M) =>
        Service!RiseRecord(c, t) = IF IsUser(c) THEN Service!Recorded(HS, "ECU")
                                   ELSE Service!Recorded(M, "ECS")
  BY DEF Service!RiseRecord
<1>6. c = HU =>
        /\ Service!Rises(c, M) /\ Service!RiseArg(M) = M
        /\ Service!RiseRecord(c, M) = Service!Recorded(M, "ECS")
  BY DEF Service!Rises, Service!RiseArg, Service!RiseRecord
<1> QED
  BY <1>1, <1>2, <1>3, <1>4, <1>5, <1>6

-----------------------------------------------------------------------------
(***************************************************************************)
(* A switch that waits: what happens above it.                             *)
(***************************************************************************)
\* Who waits at fromHS, below an ecall, and for which request.
LEMMA WaitingSwitch ==
  ASSUME TypeOK, RunInv, NEW j \in {1, 2}, NEW t, SwitchAt(j, t), Len(stack) > j
  PROVE  /\ stack[j].pc \in {"viaHS", "fromHS", "ecall"}
         /\ stack[j].pc = "ecall" => t = arg
         /\ stack[j].pc = "fromHS" /\ Len(stack) > j + 1 =>
              stack[j + 1].pc = "ecall" /\ stack[j + 1].fn = "goto" /\ arg = M
<1> PICK s, n : s = stack /\ n = Len(stack)
  OBVIOUS
<1>1. s \in Seq(Frames) /\ n = Len(s) /\ n \in Nat /\ n > j /\ Shape(s, arg)
  BY DEF TypeOK, RunInv
<1>2. s[j].fn = "goto" /\ s[j].to = t /\ (s[j].pc = "fromHS" => s[j + 1].pc \in {"g0", "ecall", "ret"})
  BY <1>1 DEF SwitchAt
<1>3. j \in 1..(n - 1) /\ j \in Nat
  BY <1>1
<1>4. Link(s[j], s[j + 1], arg) /\ s[j] \in Frames
  BY <1>1, <1>3 DEF Shape
<1>5. s[j].pc \in {"viaHS", "fromHS", "ecall"}
  <2>1. s[j].pc \in {"toM", "viaHS", "fromHS", "ecall"}
    BY <1>2, <1>4 DEF Link, Handlers
  <2>2. s[j].pc # "toM"
    BY DEF SwitchAt
  <2> QED
    BY <2>1, <2>2
<1>6. s[j].pc = "ecall" => t = arg
  BY <1>2, <1>4 DEF Link, Handlers
<1>7. s[j].pc = "fromHS" /\ n > j + 1 => s[j + 1].pc = "ecall" /\ s[j + 1].fn = "goto" /\ arg = M
  <2> SUFFICES ASSUME s[j].pc = "fromHS", n > j + 1
               PROVE  s[j + 1].pc = "ecall" /\ s[j + 1].fn = "goto" /\ arg = M
    OBVIOUS
  <2>1. j + 1 \in 1..(n - 1)
    BY <1>1, <1>3
  <2>2. s[j + 1].pc \in {"toM", "viaHS", "fromHS", "ecall", "h1", "r1"}
    BY <1>1, <2>1, WaitingPc
  <2>3. Link(s[j + 1], s[j + 1 + 1], arg)
    BY <1>1, <2>1 DEF Shape
  <2>4. s[j + 1].fn = "goto" /\ s[j + 1].to = M
    BY <1>2, <1>4 DEF Link, Handlers
  <2> QED
    BY <1>2, <2>2, <2>3, <2>4 DEF Link, Handlers
<1> QED
  BY <1>1, <1>5, <1>6, <1>7

LEMMA SwitchUnder ==
  ASSUME TypeOK, RunInv, NEW j \in {1, 2}, NEW t, SwitchAt(j, t), Len(stack) > j + 1,
         GoesOn(stack, stack'), before' = before
  PROVE  SwitchAt(j, t)'
<1> PICK s, r, n, m : s = stack /\ r = stack' /\ n = Len(stack) /\ m = Len(stack')
  OBVIOUS
<1>1. /\ n \in Nat /\ m \in Nat /\ n > j + 1 /\ m >= n
      /\ r[j] = s[j]
      /\ j + 2 < n => r[j + 1] = s[j + 1] /\ r[j + 2] = s[j + 2]
      /\ j + 2 = n => r[j + 1] = s[j + 1] /\ r[j + 2].fn = s[j + 2].fn
  <2>1. /\ n \in Nat /\ m \in {n, n + 1} /\ n > j + 1 /\ j \in Nat
        /\ \A i \in 1..(n - 1) : r[i] = s[i]
        /\ \E pc : r[n] = Goes(s[n], pc)
    BY DEF GoesOn, TypeOK
  <2> QED
    BY <2>1 DEF Goes
<1>2. s[j].pc \in {"viaHS", "fromHS", "ecall"}
  BY WaitingSwitch
<1>3. s[j].pc = "fromHS" => s[j + 1].pc = "ecall"
  BY WaitingSwitch
<1>4. n > j /\ m > j /\ n > j + 1 /\ m > j + 1 /\ m # j
  BY <1>1
<1>5. /\ r[j].pc \in {"viaHS", "fromHS", "ecall"} /\ r[j].fn = "goto" /\ r[j].to = t
      /\ r[j].pc \in {"viaHS", "fromHS"} => before.curr = HU
      /\ r[j].pc = "fromHS" => r[j + 1].pc = "ecall" /\ r[j + 2].fn = "mhandler"
      /\ r[j].pc = "ecall" => /\ t > before.curr
                              /\ before.curr = HU /\ t = M => j = 1
                              /\ r[j + 1].fn = Below
  BY <1>1, <1>2, <1>3, <1>4 DEF SwitchAt
<1> QED
  BY <1>4, <1>5 DEF SwitchAt, Below

LEMMA SwitchUnderReturn ==
  ASSUME TypeOK, RunInv, NEW j \in {1, 2}, NEW t, SwitchAt(j, t), Len(stack) > j + 1,
         Returns(stack, stack'), before' = before,
         stack[j].pc = "fromHS" /\ Len(stack) = j + 2 =>
           stack'[j + 1].pc = "ret" /\ excpt' = Service!Recorded(M, "ECS") /\ arg' = M
  PROVE  SwitchAt(j, t)'
<1> PICK s, r, n, m : s = stack /\ r = stack' /\ n = Len(stack) /\ m = Len(stack')
  OBVIOUS
<1>1. /\ n \in Nat /\ m = n - 1 /\ n > j + 1
      /\ r[j] = s[j]
      /\ n > j + 2 => r[j + 1] = s[j + 1]
      /\ n > j + 2 => r[j + 2].fn = s[j + 2].fn
      /\ r[j + 1].fn = s[j + 1].fn
  <2>1. /\ n \in Nat /\ m = n - 1 /\ n > j + 1 /\ j \in Nat /\ j > 0
        /\ \A i \in 1..(n - 2) : r[i] = s[i]
        /\ r[n - 1] = s[n - 1] \/ r[n - 1] = Goes(s[n - 1], "ret")
    BY DEF Returns, TypeOK
  <2>2. r[n - 1].fn = s[n - 1].fn
    BY <2>1 DEF Goes
  <2>3. n - 1 = j + 1 \/ n - 1 = j + 2 \/ n - 1 > j + 2
    BY <2>1
  <2> QED
    BY <2>1, <2>2, <2>3
<1>2. s[j].pc \in {"viaHS", "fromHS", "ecall"}
  BY <1>1, WaitingSwitch
<1>3. s[j].pc = "fromHS" => s[j + 1].pc = "ecall"
  BY <1>1, WaitingSwitch
<1>4. n > j /\ m > j /\ m # j /\ (m > j + 1 <=> n > j + 2) /\ (n = j + 2 <=> m = j + 1)
  BY <1>1
<1>5. /\ r[j].pc \in {"viaHS", "fromHS", "ecall"} /\ r[j].fn = "goto" /\ r[j].to = t
      /\ r[j].pc \in {"viaHS", "fromHS"} => before.curr = HU
      /\ r[j].pc = "fromHS" /\ n > j + 2 => r[j + 1].pc = "ecall" /\ r[j + 2].fn = "mhandler"
      /\ r[j].pc = "ecall" => /\ t > before.curr
                              /\ before.curr = HU /\ t = M => j = 1
                              /\ r[j + 1].fn = Below
  BY <1>1, <1>2, <1>3, <1>4 DEF SwitchAt
<1>6. CASE n > j + 2
  BY <1>4, <1>5, <1>6 DEF SwitchAt, Below
<1>7. CASE n = j + 2
  <2>1. r[j].pc = "fromHS" =>
          r[j + 1].pc = "ret" /\ excpt' = Service!Recorded(M, "ECS") /\ arg' = M
    BY <1>1, <1>7
  <2>2. m = j + 1 /\ ~(m > j + 1)
    BY <1>1, <1>7
  <2>3. (Service!Recorded(M, "ECS"))' = Service!Recorded(M, "ECS")
    BY DEF Service!Recorded
  <2> QED
    BY <1>4, <1>5, <2>1, <2>2, <2>3 DEF SwitchAt, Below
<1> QED
  BY <1>1, <1>6, <1>7

\* The ecall of a switch, from user levels to hshandler, from the others to mhandler.
LEMMA EcallFrames ==
  ASSUME TypeOK, RunInv, GotoEcall, status' = "run"
  PROVE  /\ Last(stack).pc = "g0"
         /\ Len(stack') = Len(stack) + 1
         /\ \A i \in 1..(Len(stack) - 1) : stack'[i] = stack[i]
         /\ stack'[Len(stack)] = Goes(Last(stack), "ecall")
         /\ stack'[Len(stack) + 1].fn = IF IsUser(real) THEN "hshandler" ELSE "mhandler"
         /\ arg' = Target /\ Target \in {HS, M}
         /\ Target > curr /\ ~(Target = M /\ curr = HU)
         /\ curr' = curr /\ excpt' = excpt
<1> PICK g : g = HandlerFrame(Level(EcallCause), EcallCause)
  OBVIOUS
<1>1. /\ stack \in Seq(Frames) /\ stack # <<>> /\ Goes(Last(stack), "ecall") \in Frames
      /\ stack' = Push(At(stack, "ecall"), g)
      /\ mode = HartMode(real)
  BY DecidingFacts DEF GotoEcall, GotoPcs, Trap
<1>2. \/ EcallCause = "ECS" /\ Level("ECS") = "M" /\ Target = M
      \/ EcallCause = "ECU" /\ Level("ECU") = "S" /\ Target \in {HS, M}
  BY EcallLevel
<1>3. EcallCause \in Causes /\ Level(EcallCause) \in {"M", "S"}
  BY <1>2 DEF Causes, Ecalls
<1>4. g \in Frames
  BY <1>3, FrameFacts
<1>5. EcallCause = "ECU" <=> IsUser(real)
  <2>1. mode \in {"U", "S"} \/ EcallCause = "ECM"
    BY DEF EcallCause, TypeOK, Modes
  <2>2. mode \in {"U", "S"}
    BY <1>2, <2>1
  <2>3. mode = "U" => EcallCause = "ECU"
    BY DEF EcallCause
  <2>4. mode = "S" => EcallCause = "ECS"
    BY DEF EcallCause
  <2>5. mode = "U" <=> IsUser(real)
    BY <1>1, <2>2 DEF HartMode, IsUser, TypeOK, Priv, VU, HU, VS, HS, M
  <2> QED
    BY <2>2, <2>3, <2>4, <2>5
<1>6. g.fn = IF IsUser(real) THEN "hshandler" ELSE "mhandler"
  BY <1>2, <1>5 DEF HandlerFrame
<1>7. LET t == Push(At(stack, "ecall"), g)
      IN  /\ Len(t) = Len(stack) + 1
          /\ \A i \in 1..(Len(stack) - 1) : t[i] = stack[i]
          /\ t[Len(stack)] = Goes(Last(stack), "ecall")
          /\ t[Len(stack) + 1] = g
  BY <1>1, <1>4, CallFacts
<1>8. Target > curr /\ ~(Target = M /\ curr = HU) /\ arg' = Target
  BY DEF GotoEcall
<1>9. Last(stack).pc = "g0"
  BY <1>2, <1>8, DecidingFacts DEF GotoEcall, IsUser, VU, HU, HS, M
<1> QED
  BY <1>1, <1>2, <1>6, <1>7, <1>8, <1>9 DEF GotoEcall

\* A handler that served a switch's ecall records it and goes back behind it.
LEMMA ServedReturns ==
  ASSUME TypeOK, RunInv, ServesEcall, HandlerReturns, Len(stack) > 1
  PROVE  /\ stack'[Len(stack) - 1] = Goes(stack[Len(stack) - 1], "ret")
         /\ excpt' = IF Last(stack).fn = "hshandler" THEN Service!Recorded(HS, "ECU")
                     ELSE Service!Recorded(M, "ECS")
         /\ Last(stack).fn \in Handlers
         /\ arg' = arg /\ curr' = curr
<1>1. PICK h \in Handlers : /\ Running(h, "h1")
                            /\ excpt' = [testing |-> FALSE, triggered |-> TRUE,
                                         priv |-> IF h = "mhandler" THEN M ELSE HS,
                                         cause |-> Cause, faultInst |-> FALSE]
                            /\ stack' = Resume(Front(stack), Advances)
                            /\ arg' = arg /\ curr' = curr
  BY DEF HandlerReturns
<1> PICK s, n : s = stack /\ n = Len(s)
  OBVIOUS
<1>2. /\ s \in Seq(Frames) /\ s # <<>> /\ Last(s).fn = h /\ Last(s).pc = "h1"
      /\ Shape(s, arg) /\ HandlerTop(Last(s))
  BY <1>1, RunningHandler
<1>3. n \in Nat /\ n > 1 /\ Last(s) = s[n]
  BY <1>2 DEF Last
<1>4. s[n - 1].pc = "ecall" /\ s[n].cause \in {"ECU", "ECS"} /\ s[n - 1].fn = "goto"
      /\ s[n - 1] \in Frames
  BY <1>2, <1>3, HandlerBelow
<1>5. s[n].cause = IF h = "hshandler" THEN "ECU" ELSE "ECS"
  BY <1>1, <1>2, <1>3 DEF ServesEcall, Handlers
<1>6. Advances
  <2>1. real \in {M, HS}
    BY <1>2, <1>3, <1>4 DEF HandlerTop, Arrived, LevelOf, RunInv, ArgInv, None, Ecalls
  <2> QED
    BY <1>3, <1>4, <2>1 DEF Advances, Cause, Interrupts
<1>7. stack'[n - 1] = Goes(s[n - 1], "ret")
  <2> DEFINE q == Front(s)
  <2>1. /\ q \in Seq(Frames) /\ Len(q) = n - 1 /\ q # <<>> /\ Last(q) = s[n - 1]
    BY <1>2, <1>3, PopFacts
  <2>2. Goes(Last(q), "ret") \in Frames
    BY <1>4, <2>1, FrameFacts DEF GotoPcs
  <2> HIDE DEF q
  <2>3. At(q, "ret")[Len(q)] = Goes(Last(q), "ret")
    BY <2>1, <2>2, AtFacts
  <2>4. Resume(q, Advances) = At(q, "ret")
    BY <1>4, <1>6, <2>1 DEF Resume
  <2> QED
    BY <1>1, <2>1, <2>3, <2>4 DEF q
<1>8. excpt' = IF h = "hshandler" THEN Service!Recorded(HS, "ECU") ELSE Service!Recorded(M, "ECS")
  BY <1>1, <1>3, <1>5 DEF Cause, Service!Recorded, Handlers
<1> QED
  BY <1>1, <1>2, <1>7, <1>8

\* Outcome is about two variables and the state the test left.
LEMMA OutcomeKept ==
  ASSUME NEW t, Outcome(t), UNCHANGED <<excpt, arg, before>>
  PROVE  Outcome(t)'
  BY DEF Outcome, Service!Rises, Service!RiseRecord, Service!RiseArg, Service!Recorded

LEMMA RecordsKept ==
  /\ (Service!Recorded(M, "ECS"))' = Service!Recorded(M, "ECS")
  /\ (Service!Recorded(HS, "ECU"))' = Service!Recorded(HS, "ECU")
  BY DEF Service!Recorded

LEMMA SwitchOver ==
  ASSUME TypeOK, RunInv, ServesEcall, NEW j \in {1, 2}, NEW t, SwitchAt(j, t),
         Len(stack) = j + 1, Going \/ Returning, status' = "run", before' = before,
         before.curr \in Priv
  PROVE  SwitchAt(j, t)'
<1> PICK s, r, n, m : s = stack /\ r = stack' /\ n = Len(stack) /\ m = Len(stack')
  OBVIOUS
<1>1. /\ s \in Seq(Frames) /\ s # <<>> /\ n = j + 1 /\ n \in Nat /\ j \in Nat /\ n > j /\ n - 1 = j
      /\ n > 1 /\ n = Len(s) /\ j \in 1..(n - 1) /\ Last(s) = s[n] /\ Shape(s, arg) /\ r \in Seq(Frames)
      /\ Going => m \in {n, n + 1} /\ r[j] = s[j] /\ r[n].fn = s[n].fn
      /\ Returning => m = j /\ (s[j].pc # "ecall" => r[j] = s[j])
  <2>1. s \in Seq(Frames) /\ s # <<>> /\ n = j + 1 /\ Shape(s, arg) /\ n = Len(s)
    BY GoingFrames, ReturningFrames DEF RunInv
  <2>2. n \in Nat /\ j \in Nat /\ n - 1 = j /\ n > j /\ Last(s) = s[n] /\ j \in 1..(n - 1) /\ n > 1
    BY <2>1 DEF Last
  <2>3. ASSUME Going
        PROVE  r \in Seq(Frames) /\ m \in {n, n + 1} /\ r[j] = s[j] /\ r[n].fn = s[n].fn
    <3>1. /\ r \in Seq(Frames) /\ m \in {n, n + 1}
          /\ \A i \in 1..(n - 1) : r[i] = s[i]
          /\ \E pc : r[n] = Goes(s[n], pc)
      BY <2>3, GoingFrames DEF GoesOn
    <3>2. r[j] = s[j]
      BY <2>2, <3>1
    <3> QED
      BY <3>1, <3>2 DEF Goes
  <2>4. ASSUME Returning
        PROVE  r \in Seq(Frames) /\ m = j /\ (s[j].pc # "ecall" => r[j] = s[j])
    BY <2>2, <2>4, ReturningFrames DEF Returns
  <2> QED
    BY <2>1, <2>2, <2>3, <2>4
<1>2. s[j].fn = "goto" /\ s[j].to = t /\ s[j].pc \in {"viaHS", "fromHS", "ecall"}
  BY <1>1, WaitingSwitch DEF SwitchAt
<1>3. CASE s[j].pc = "viaHS"
  <2>1. r[j] = s[j] /\ before.curr = HU
    BY <1>1, <1>3 DEF SwitchAt
  <2> QED
    BY <1>2, <1>3, <2>1 DEF SwitchAt
<1>4. CASE s[j].pc = "ecall"
  <2>1. /\ t = arg /\ s[n].fn = Below /\ t > before.curr
        /\ before.curr = HU /\ t = M => j = 1
    BY <1>1, <1>4, WaitingSwitch DEF SwitchAt
  <2>2. CASE Going
    <3>1. r[j] = s[j] /\ r[j + 1].fn = Below /\ m > j
      BY <1>1, <2>1, <2>2
    <3> QED
      BY <1>2, <1>4, <2>1, <3>1 DEF SwitchAt, Below
  <2>3. CASE Returning
    <3>1. HandlerReturns
      BY <1>1, <2>1, <2>3 DEF Returning, GotoArrived, Deciding, GotoLowered, GotoReturn, ResetCsrs,
         Running, Below
    <3>2. /\ r[j] = Goes(s[j], "ret")
          /\ excpt' = IF s[n].fn = "hshandler" THEN Service!Recorded(HS, "ECU")
                      ELSE Service!Recorded(M, "ECS")
          /\ arg' = arg
      <4>1. Len(stack) > 1
        BY <1>1
      <4> QED
        BY <1>1, <3>1, <4>1, ServedReturns
    <3>3. r[j].fn = "goto" /\ r[j].to = t /\ r[j].pc = "ret" /\ m = j
      BY <1>1, <1>2, <2>3, <3>2 DEF Goes
    <3>4. excpt' = IF IsUser(before.curr) THEN Service!Recorded(HS, "ECU")
                   ELSE Service!Recorded(M, "ECS")
      BY <2>1, <3>2 DEF Below
    <3> QED
      BY <2>1, <3>2, <3>3, <3>4, RecordsKept DEF SwitchAt, IsUser
  <2> QED
    BY <2>2, <2>3
<1>5. CASE s[j].pc = "fromHS"
  <2>1. /\ before.curr = HU /\ s[n].pc \in {"g0", "ecall", "ret"}
        /\ s[n].pc = "ret" => excpt = Service!Recorded(M, "ECS") /\ arg = M
    BY <1>1, <1>5 DEF SwitchAt
  <2>2. Link(s[j], s[n], arg)
    <3>1. Link(s[j], s[j + 1], arg)
      BY <1>1 DEF Shape
    <3> QED
      BY <1>1, <3>1
  <2>3. s[n].fn = "goto" /\ s[n].to = M /\ t = M
    BY <1>2, <1>5, <2>2 DEF Link, Handlers
  <2>4. GotoTop(s[n])
    BY <1>1, <2>3 DEF RunInv, TopInv
  <2>5. CASE s[n].pc = "g0"
    <3>1. curr = HS /\ real = HS
      BY <1>1, <1>5, <2>3, <2>4, <2>5 DEF GotoTop, AboutToSwitch, UnderFrom
    <3>2. GotoEcall
      <4>1. ~GotoArrived /\ ~GotoRaiseViaHS /\ ~GotoUserToUser
        BY <1>1, <2>3, <3>1 DEF GotoArrived, GotoRaiseViaHS, GotoUserToUser, Target, IsUser,
           VU, HU, HS, M
      <4>2. ~GotoLower
        BY <1>1, <2>3, <3>1 DEF GotoLower, Lowering, Target, HS, M
      <4>3. ~GotoSecondHop /\ ~GotoLowered /\ ~GotoReturn
        BY <1>1, <2>5 DEF GotoSecondHop, GotoLowered, GotoReturn, Running
      <4>4. /\ ~HandlerServesGoto /\ ~HandlerAccepts /\ ~HandlerReturns
            /\ ~ResetGoto /\ ~ResetCsrs
        BY <1>1, <2>3 DEF HandlerServesGoto, HandlerAccepts, HandlerReturns, Handling, Handlers,
           ResetGoto, ResetCsrs, Running
      <4> QED
        BY <4>1, <4>2, <4>3, <4>4 DEF Going, Returning
    <3>3. /\ m = n + 1 /\ r[n] = Goes(s[n], "ecall") /\ r[n + 1].fn = "mhandler"
          /\ \A i \in 1..(n - 1) : r[i] = s[i]
      BY <1>1, <3>1, <3>2, EcallFrames DEF IsUser, VU, HU, HS
    <3>4. m > j + 1 /\ r[j] = s[j] /\ r[j + 1].pc = "ecall" /\ r[j + 2].fn = "mhandler"
      BY <1>1, <3>3 DEF Goes
    <3>5. m # j /\ m > j
      BY <1>1, <3>3
    <3> QED
      BY <1>2, <1>5, <2>1, <3>4, <3>5 DEF SwitchAt
  <2>6. CASE s[n].pc = "ret"
    <3>1. GotoReturn
      BY <1>1, <2>3, <2>6 DEF Going, Returning, GotoUserToUser, GotoRaiseViaHS, GotoSecondHop, GotoEcall,
         GotoLower, Lowering, Deciding, HandlerServesGoto, HandlerAccepts, Handling, ResetGoto,
         GotoArrived, GotoLowered, HandlerReturns, ResetCsrs, Running, Handlers
    <3>2. m = j /\ r[j] = s[j] /\ UNCHANGED <<arg, excpt>>
      BY <1>1, <1>5, <3>1 DEF Returning, GotoReturn
    <3>3. Outcome(M)
      <4>1. M \in Priv
        BY DEF Priv, VU, M
      <4> QED
        BY <2>1, <2>6, <4>1, Records DEF Outcome
    <3>4. Outcome(M)'
      BY <3>2, <3>3, OutcomeKept
    <3>5. ~(m > j)
      BY <1>1, <3>2
    <3> QED
      BY <1>2, <1>5, <2>1, <3>2, <3>4, <3>5 DEF SwitchAt
  <2>7. s[n].pc # "ecall"
    BY <2>4 DEF GotoTop
  <2> QED
    BY <2>1, <2>5, <2>6, <2>7
<1> QED
  BY <1>2, <1>3, <1>4, <1>5

\* Whatever happens above a switch, it stays where it is until its turn comes.
LEMMA SwitchWaits ==
  ASSUME TypeOK, RunInv, ServesEcall, NEW j \in {1, 2}, NEW t, SwitchAt(j, t),
         Len(stack) > j, Going \/ Returning, status' = "run", before' = before,
         before.curr \in Priv
  PROVE  SwitchAt(j, t)'
<1>1. Len(stack) \in Nat /\ j \in Nat
  BY DEF TypeOK
<1>2. CASE Len(stack) = j + 1
  BY <1>2, SwitchOver
<1>3. CASE Len(stack) > j + 1 /\ Going
  BY <1>3, GoingFrames, SwitchUnder
<1>4. CASE Len(stack) > j + 1 /\ Returning
  <2>1. Returns(stack, stack')
    BY <1>4, ReturningFrames
  <2>2. ASSUME stack[j].pc = "fromHS", Len(stack) = j + 2
        PROVE  stack'[j + 1].pc = "ret" /\ excpt' = Service!Recorded(M, "ECS") /\ arg' = M
    <3>1. stack[j + 2].fn = "mhandler" /\ arg = M
      BY <1>4, <2>2, WaitingSwitch DEF SwitchAt
    <3>2. Last(stack) = stack[j + 2] /\ Len(stack) > 1 /\ Len(stack) - 1 = j + 1
      BY <1>1, <2>2 DEF Last
    <3>3. HandlerReturns
      BY <1>4, <3>1, <3>2 DEF Returning, GotoArrived, Deciding, GotoLowered, GotoReturn, ResetCsrs,
         Running
    <3>4. /\ stack'[Len(stack) - 1] = Goes(stack[Len(stack) - 1], "ret")
          /\ excpt' = IF Last(stack).fn = "hshandler" THEN Service!Recorded(HS, "ECU")
                     ELSE Service!Recorded(M, "ECS")
          /\ arg' = arg
      BY <3>2, <3>3, ServedReturns
    <3> QED
      BY <3>1, <3>2, <3>4 DEF Goes
  <2> QED
    BY <1>4, <2>1, <2>2, SwitchUnderReturn
<1> QED
  BY <1>1, <1>2, <1>3, <1>4

-----------------------------------------------------------------------------
(***************************************************************************)
(* A switch that runs: it goes on or it is done.                           *)
(***************************************************************************)
\* The switch to t, made for the test by frame j, has arrived.  Only goto_priv_u_to_m_direct
\* leaves another record than goto_priv.
Done(j, t) ==
  /\ curr' = t
  /\ \/ Outcome(t)'
     \/ /\ j = 1 /\ t = M /\ before.curr = HU
        /\ excpt' = Service!Recorded(HS, "ECU") /\ arg' = M

\* It takes the way through M.
Detour(t) ==
  /\ IsUser(t) /\ IsUser(before.curr)
  /\ Len(stack') = 2
  /\ stack'[1].fn = "goto" /\ stack'[1].to = t /\ stack'[1].pc = "toM"
  /\ SwitchAt(2, M)'

\* Only goto_priv's actions run a goto_priv.
LEMMA GotoRuns ==
  ASSUME Going \/ Returning, stack # <<>>, Last(stack).fn = "goto"
  PROVE  /\ \/ GotoUserToUser \/ GotoRaiseViaHS \/ GotoSecondHop \/ GotoEcall \/ GotoLower
            \/ GotoArrived \/ GotoLowered \/ GotoReturn
         /\ UNCHANGED <<medeleg, armed>>
<1>1. ~HandlerServesGoto /\ ~HandlerAccepts /\ ~HandlerReturns /\ ~ResetGoto /\ ~ResetCsrs
  BY DEF HandlerServesGoto, HandlerAccepts, HandlerReturns, Handling, Handlers, ResetGoto, ResetCsrs,
     Running
<1>2. \/ GotoUserToUser \/ GotoRaiseViaHS \/ GotoSecondHop \/ GotoEcall \/ GotoLower
      \/ GotoArrived \/ GotoLowered \/ GotoReturn
  BY <1>1 DEF Going, Returning
<1> QED
  BY <1>2 DEF GotoUserToUser, GotoRaiseViaHS, GotoSecondHop, GotoEcall, GotoLower, GotoArrived,
     GotoLowered, GotoReturn

LEMMA Called ==
  ASSUME stack \in Seq(Frames), stack # <<>>, NEW pc, Goes(Last(stack), pc) \in Frames,
         NEW g \in Frames, stack' = Push(At(stack, pc), g)
  PROVE  /\ Len(stack') = Len(stack) + 1
         /\ stack'[Len(stack)] = Goes(Last(stack), pc)
         /\ stack'[Len(stack) + 1] = g
<1>1. LET t == Push(At(stack, pc), g)
      IN  Len(t) = Len(stack) + 1 /\ t[Len(stack)] = Goes(Last(stack), pc) /\ t[Len(stack) + 1] = g
  BY CallFacts
<1> QED
  BY <1>1

LEMMA SwitchRuns ==
  ASSUME TypeOK, RunInv, NEW j \in {1, 2}, NEW t \in Priv, SwitchAt(j, t),
         Len(stack) = j, j = 2 => t = M,
         Going \/ Returning, status' = "run", before' = before, before.curr \in Priv
  PROVE  \/ Going /\ SwitchAt(j, t)'
         \/ j = 1 /\ Going /\ Detour(t)
         \/ Returning /\ Done(j, t)
<1> PICK f, r, c : f = stack[j] /\ r = stack' /\ c = before.curr
  OBVIOUS
<1>1. /\ stack \in Seq(Frames) /\ stack # <<>> /\ j \in Nat
      /\ Last(stack) = f /\ Target = t /\ f.fn = "goto" /\ f.to = t /\ f.pc # "toM"
      /\ c \in Priv /\ GotoTop(f)
  <2>1. stack \in Seq(Frames) /\ stack # <<>>
    BY GoingFrames, ReturningFrames
  <2>2. Last(stack) = f /\ f.fn = "goto" /\ f.to = t /\ f.pc # "toM"
    BY <2>1 DEF Last, SwitchAt
  <2> QED
    BY <2>1, <2>2 DEF Target, RunInv, TopInv
<1>2. /\ f.pc = "g0" => curr = c /\ real = c /\ arg = before.arg /\ excpt = before.excpt
      /\ f.pc = "window" => Outcome(t)
      /\ f.pc \in {"viaHS", "fromHS"} => c = HU
      /\ f.pc = "fromHS" => Outcome(M)
      /\ f.pc = "ret" => /\ t > c
                         /\ c = HU /\ t = M => j = 1
                         /\ excpt = IF IsUser(c) THEN Service!Recorded(HS, "ECU")
                                    ELSE Service!Recorded(M, "ECS")
                         /\ arg = t
  BY <1>1 DEF SwitchAt, Untouched
<1>3. Going => /\ Len(r) \in {j, j + 1}
               /\ \E pc : r[j] = Goes(f, pc)
  BY GoingFrames DEF GoesOn
<1>4. CASE GotoUserToUser
  <2>1. /\ f.pc = "g0" /\ IsUser(t) /\ IsUser(c) /\ r = Push(At(stack, "toM"), GotoFrame(M))
        /\ UNCHANGED <<curr, real, arg, excpt>>
    BY <1>1, <1>2, <1>4 DEF GotoUserToUser, Running, Call
  <2>2. j = 1
    BY <2>1 DEF IsUser, VU, HU, M
  <2>3. Goes(Last(stack), "toM") \in Frames /\ GotoFrame(M) \in Frames
    BY <1>4, RunningGoto, FrameFacts DEF GotoUserToUser, GotoPcs, Priv, VU, M
  <2>4. Len(r) = Len(stack) + 1 /\ r[Len(stack)] = Goes(Last(stack), "toM")
        /\ r[Len(stack) + 1] = GotoFrame(M)
    BY <1>1, <2>1, <2>3, Called
  <2>5. Len(r) = 2 /\ r[1] = Goes(f, "toM") /\ r[2] = GotoFrame(M)
    BY <1>1, <2>2, <2>4
  <2>6. SwitchAt(2, M)'
    BY <1>2, <2>1, <2>5 DEF SwitchAt, Untouched, GotoFrame
  <2> QED
    BY <1>1, <1>4, <2>1, <2>2, <2>5, <2>6 DEF Going, Detour, Goes
<1>5. CASE GotoArrived
  <2>1. /\ f.pc = "g0" /\ ~(IsUser(t) /\ IsUser(c)) /\ t = c /\ curr' = t /\ UNCHANGED <<arg, excpt>>
    BY <1>1, <1>2, <1>5 DEF GotoArrived, Deciding, Running
  <2>2. Outcome(t)
    BY <1>1, <1>2, <2>1, Records DEF Outcome, Priv, VU, M
  <2>3. Outcome(t)'
    BY <2>1, <2>2, OutcomeKept
  <2> QED
    BY <1>5, <2>1, <2>3 DEF Returning, Done
<1>6. CASE GotoRaiseViaHS
  <2>1. f.pc = "g0" /\ t = M /\ c = HU /\ r = Push(At(stack, "viaHS"), GotoFrame(HS))
    BY <1>1, <1>2, <1>6 DEF GotoRaiseViaHS, Deciding, Running, Call
  <2>2. Goes(Last(stack), "viaHS") \in Frames /\ GotoFrame(HS) \in Frames
    BY <1>6, DecidingFacts, FrameFacts DEF GotoRaiseViaHS, GotoPcs, Priv, VU, HS, M
  <2>3. r[Len(stack)] = Goes(Last(stack), "viaHS")
    BY <1>1, <2>1, <2>2, Called
  <2>4. r[j].fn = "goto" /\ r[j].to = t /\ r[j].pc = "viaHS"
    BY <1>1, <2>3 DEF Goes
  <2> QED
    BY <1>6, <2>1, <2>4 DEF SwitchAt, Going
<1>7. CASE GotoSecondHop
  <2>1. f.pc = "viaHS" /\ c = HU /\ r = Push(At(stack, "fromHS"), GotoFrame(M))
    BY <1>1, <1>2, <1>7 DEF GotoSecondHop, Running, Call
  <2>2. Goes(Last(stack), "fromHS") \in Frames /\ GotoFrame(M) \in Frames
    BY <1>7, RunningGoto, FrameFacts DEF GotoSecondHop, GotoPcs, Priv, VU, M
  <2>3. Len(r) = Len(stack) + 1 /\ r[Len(stack)] = Goes(Last(stack), "fromHS")
        /\ r[Len(stack) + 1] = GotoFrame(M)
    BY <1>1, <2>1, <2>2, Called
  <2>4. /\ r[j].fn = "goto" /\ r[j].to = t /\ r[j].pc = "fromHS"
        /\ r[j + 1].pc = "g0" /\ Len(r) > j /\ Len(r) # j /\ ~(Len(r) > j + 1)
    BY <1>1, <2>3 DEF Goes, GotoFrame
  <2> QED
    BY <1>7, <2>1, <2>4 DEF SwitchAt, Going
<1>8. CASE GotoEcall
  <2>1. /\ f.pc = "g0" /\ Len(r) = j + 1 /\ r[j] = Goes(f, "ecall")
        /\ r[j + 1].fn = IF IsUser(real) THEN "hshandler" ELSE "mhandler"
        /\ t > curr /\ ~(t = M /\ curr = HU)
    BY <1>1, <1>8, EcallFrames
  <2>2. r[j].fn = "goto" /\ r[j].to = t /\ r[j].pc = "ecall" /\ Len(r) > j
    BY <1>1, <2>1 DEF Goes
  <2>3. r[j + 1].fn = Below /\ t > c /\ ~(t = M /\ c = HU)
    BY <1>2, <2>1 DEF Below
  <2> QED
    BY <1>8, <2>2, <2>3 DEF SwitchAt, Going, Below
<1>9. CASE GotoLower
  <2>1. /\ f.pc = "g0" /\ ~(IsUser(t) /\ IsUser(c)) /\ t <= c /\ UNCHANGED <<arg, excpt>>
        /\ r = At(stack, "window")
    BY <1>1, <1>2, <1>9 DEF GotoLower, Lowering, Deciding, Running
  <2>2. Outcome(t)
    BY <1>1, <1>2, <2>1, Records DEF Outcome
  <2>3. Outcome(t)'
    BY <2>1, <2>2, OutcomeKept
  <2>4. Goes(Last(stack), "window") \in Frames
    BY <1>9, DecidingFacts DEF GotoLower, Lowering, GotoPcs
  <2>5. r[Len(stack)] = Goes(Last(stack), "window")
    BY <1>1, <2>1, <2>4, AtFacts
  <2>6. r[j].fn = "goto" /\ r[j].to = t /\ r[j].pc = "window"
    BY <1>1, <2>5 DEF Goes
  <2> QED
    BY <1>9, <2>3, <2>6 DEF SwitchAt, Going
<1>10. CASE GotoLowered
  <2>1. f.pc = "window" /\ curr' = t /\ UNCHANGED <<arg, excpt>>
    BY <1>1, <1>10 DEF GotoLowered, Running
  <2> QED
    BY <1>2, <1>10, <2>1, OutcomeKept DEF Returning, Done
<1>11. CASE GotoReturn
  <2>1. f.pc \in {"fromHS", "ret"} /\ UNCHANGED <<curr, arg, excpt>>
    BY <1>1, <1>11 DEF GotoReturn, Running
  <2>2. curr' = t /\ (f.pc = "fromHS" => t = M)
    BY <1>1, <2>1 DEF GotoTop, Arrived
  <2>3. CASE f.pc = "fromHS"
    BY <1>2, <1>11, <2>1, <2>2, <2>3, OutcomeKept DEF Returning, Done
  <2>4. CASE f.pc = "ret" /\ c = HU /\ t = M
    BY <1>2, <1>11, <2>1, <2>2, <2>4 DEF Returning, Done, IsUser
  <2>5. CASE f.pc = "ret" /\ ~(c = HU /\ t = M)
    <3>1. t \in {HS, M}
      BY <1>2, <2>5 DEF RunInv, ArgInv, None, Priv, VU, M
    <3>2. Outcome(t)
      BY <1>1, <1>2, <2>5, <3>1, Records DEF Outcome
    <3> QED
      BY <1>11, <2>1, <2>2, <3>2, OutcomeKept DEF Returning, Done
  <2> QED
    BY <2>1, <2>3, <2>4, <2>5
<1> QED
  BY <1>1, <1>4, <1>5, <1>6, <1>7, <1>8, <1>9, <1>10, <1>11, GotoRuns

-----------------------------------------------------------------------------
(***************************************************************************)
(* What the test called, step by step.                                     *)
(***************************************************************************)
LEMMA ServesKept ==
  ASSUME TypeOK, RunInv, ServesEcall, Going \/ Returning, status' = "run"
  PROVE  ServesEcall'
<1> PICK s, r, n : s = stack /\ r = stack' /\ n = Len(stack)
  OBVIOUS
<1>1. n \in Nat /\ n = Len(s) /\ \A i \in 2..n : Serves(s[i])
  BY DEF ServesEcall, TypeOK, Serves
<1> SUFFICES ASSUME NEW i \in 2..Len(r) PROVE Serves(r[i])
  BY DEF ServesEcall, Serves
<1>2. \A f, pc : Serves(f) => Serves(Goes(f, pc))
  BY DEF Serves, Goes
<1>3. CASE Going
  <2>1. /\ Len(r) \in {n, n + 1} /\ \A k \in 1..(n - 1) : r[k] = s[k]
        /\ \E pc : r[n] = Goes(s[n], pc)
        /\ Len(r) = n + 1 => Serves(r[n + 1])
    BY <1>3, GoingFrames DEF GoesOn
  <2>2. i \in 2..(n - 1) \/ (i = n /\ i \in 2..n) \/ (i = n + 1 /\ Len(r) = n + 1)
    BY <1>1, <2>1
  <2> QED
    BY <1>1, <1>2, <2>1, <2>2
<1>4. CASE Returning
  <2>1. /\ Len(r) = n - 1 /\ \A k \in 1..(n - 2) : r[k] = s[k]
        /\ n > 1 => r[n - 1] = s[n - 1] \/ r[n - 1] = Goes(s[n - 1], "ret")
    BY <1>4, ReturningFrames DEF Returns
  <2>2. i \in 2..n /\ (i \in 2..(n - 2) \/ (i = n - 1 /\ n > 1))
    BY <1>1, <2>1
  <2> QED
    BY <1>1, <1>2, <2>1, <2>2
<1> QED
  BY <1>3, <1>4

\* While more than its own frame is on the stack, a call leaves medeleg and the
\* announcement alone, and the frame of the test's call stays.
LEMMA WaitingKept ==
  ASSUME TypeOK, RunInv, Going \/ Returning, status' = "run", Len(stack) > 1
  PROVE  /\ UNCHANGED <<medeleg, armed>>
         /\ stack' # <<>>
         /\ \/ stack'[1] = stack[1]
            \/ Len(stack) = 2 /\ stack[1].pc = "ecall" /\ stack'[1] = Goes(stack[1], "ret")
         /\ Len(stack') = 1 => Len(stack) = 2
<1> PICK s, r, n : s = stack /\ r = stack' /\ n = Len(stack)
  OBVIOUS
<1>1. s \in Seq(Frames) /\ s # <<>> /\ n \in Nat /\ n > 1 /\ n = Len(s) /\ Shape(s, arg) /\ Last(s) = s[n]
  BY GoingFrames, ReturningFrames DEF TypeOK, RunInv, Last
<1>2. UNCHANGED <<medeleg, armed>>
  <2>1. ~ResetGoto /\ ~ResetCsrs
    BY <1>1, RunningReset DEF ResetGoto, ResetCsrs
  <2>2. ASSUME HandlerReturns
        PROVE  UNCHANGED <<medeleg, armed>>
    <3>1. s[n].fn \in Handlers /\ n \in 2..n
      BY <1>1, <2>2 DEF HandlerReturns, Running
    <3>2. Cause \in {"ECU", "ECS"}
      <4>1. s[n].cause \in {"ECU", "ECS"}
        BY <1>1, <3>1, HandlerBelow
      <4> QED
        BY <1>1, <4>1 DEF Cause
    <3>3. Cause \notin Faults
      BY <3>2, ConstantsAssumption DEF ConstantsAssumption
    <3> QED
      BY <2>2, <3>3 DEF HandlerReturns, TypeOK
  <2> QED
    BY <2>1, <2>2 DEF Going, Returning, GotoUserToUser, GotoRaiseViaHS, GotoSecondHop, GotoEcall,
       GotoLower, GotoArrived, GotoLowered, GotoReturn, HandlerServesGoto, HandlerAccepts
<1>3. CASE Going
  <2>1. r[1] = s[1] /\ Len(r) > 1 /\ Len(r) # 1
    <3>1. Len(r) \in {n, n + 1} /\ \A i \in 1..(n - 1) : r[i] = s[i]
      BY <1>3, GoingFrames DEF GoesOn
    <3>2. 1 \in 1..(n - 1) /\ n > 1 /\ n + 1 > 1
      BY <1>1
    <3>3. \A m \in {n, n + 1} : m > 1 /\ m # 1
      BY <1>1
    <3> QED
      BY <3>1, <3>2, <3>3
  <2>2. r # <<>>
    BY <1>3, <2>1, GoingFrames DEF GoesOn
  <2> QED
    BY <1>2, <2>1, <2>2
<1>4. CASE Returning
  <2>1. /\ Len(r) = n - 1 /\ \A k \in 1..(n - 2) : r[k] = s[k]
        /\ \/ r[n - 1] = s[n - 1]
           \/ s[n - 1].pc = "ecall" /\ r[n - 1] = Goes(s[n - 1], "ret")
    BY <1>1, <1>4, ReturningFrames DEF Returns
  <2>2. r # <<>> /\ (Len(r) = 1 => n = 2)
    BY <1>1, <2>1
  <2>3. CASE n = 2
    BY <1>2, <2>1, <2>2, <2>3
  <2>4. CASE n > 2
    <3>1. r[1] = s[1]
      BY <1>1, <2>1, <2>4
    <3> QED
      BY <1>2, <2>2, <3>1
  <2> QED
    BY <1>1, <2>3, <2>4
<1> QED
  BY <1>3, <1>4

\* The last leg of a switch between user levels starts in M mode.
LEMMA LastLeg ==
  ASSUME TypeOK, RunInv, Len(stack) = 1, NEW t, stack[1].fn = "goto", stack[1].to = t,
         stack[1].pc = "toM", Outcome(t), Going \/ Returning, status' = "run", before' = before
  PROVE  Going /\ stack' # <<>> /\ SwitchAt(1, t)' /\ stack'[1].fn = "goto" /\ stack'[1].to = t
         /\ UNCHANGED <<medeleg, armed>>
<1>1. /\ stack \in Seq(Frames) /\ stack # <<>> /\ Last(stack) = stack[1] /\ Target = t
  BY GoingFrames, ReturningFrames DEF Last, Target
<1>2. Arrived(M) /\ IsUser(t)
  BY <1>1 DEF RunInv, TopInv, GotoTop
<1>3. GotoLower
  <2>1. ~GotoUserToUser /\ ~GotoSecondHop /\ ~GotoLowered /\ ~GotoReturn
    BY <1>1 DEF GotoUserToUser, GotoSecondHop, GotoLowered, GotoReturn, Running
  <2>2. ~GotoRaiseViaHS /\ ~GotoArrived
    BY <1>1, <1>2 DEF GotoRaiseViaHS, GotoArrived, Arrived, IsUser, VU, HU, M
  <2>3. ~GotoEcall
    BY <1>1, EcallFrames
  <2> QED
    BY <1>1, <2>1, <2>2, <2>3, GotoRuns
<1>4. Goes(Last(stack), "window") \in Frames
  BY <1>3, DecidingFacts DEF GotoLower, Lowering, GotoPcs
<1>5. stack' = At(stack, "window") /\ UNCHANGED <<arg, excpt, medeleg, armed>>
  BY <1>3 DEF GotoLower
<1>6. stack' # <<>> /\ stack'[Len(stack)] = Goes(Last(stack), "window")
  BY <1>1, <1>4, <1>5, AtFacts
<1>7. stack'[1].fn = "goto" /\ stack'[1].to = t /\ stack'[1].pc = "window"
  BY <1>1, <1>6 DEF Goes
<1>8. Outcome(t)'
  BY <1>5, OutcomeKept
<1> QED
  BY <1>3, <1>5, <1>6, <1>7, <1>8 DEF SwitchAt, Going

\* goto_priv, called by the test: its frame stays until the switch is done.
LEMMA GotoCalledStep ==
  ASSUME TypeOK, RunInv, ServesEcall, stack # <<>>, stack[1].fn = "goto", GotoCalled,
         Going \/ Returning, status' = "run", before' = before, before.curr \in Priv
  PROVE  /\ UNCHANGED <<medeleg, armed>>
         /\ stack' # <<>> => stack'[1].fn = "goto" /\ GotoCalled'
         /\ stack' = <<>> => Done(1, stack[1].to)
<1> PICK t : t = stack[1].to
  OBVIOUS
<1>1. /\ stack \in Seq(Frames) /\ stack[1] \in Frames /\ t \in Priv
      /\ Len(stack) = 1 \/ Len(stack) > 1
      /\ Len(stack) = 1 => Last(stack) = stack[1]
  <2>1. stack \in Seq(Frames) /\ (Len(stack) = 1 \/ Len(stack) > 1)
    BY LenCases DEF TypeOK
  <2>2. stack[1] \in Frames
    BY <2>1
  <2> QED
    BY <2>1, <2>2, FrameFacts DEF Last
<1>2. /\ armed = before.armed /\ (armed => SetupAcrossGoto) /\ <<before.curr, t>> \in Switches
      /\ stack[1].pc = "toM" =>
           /\ IsUser(t) /\ IsUser(before.curr)
           /\ IF Len(stack) = 1 THEN Outcome(t) ELSE SwitchAt(2, M)
      /\ stack[1].pc # "toM" => SwitchAt(1, t)
  BY DEF GotoCalled
<1>3. M \in Priv
  BY DEF Priv, VU, M
<1>4. ASSUME UNCHANGED <<medeleg, armed>>, stack'[1].fn = "goto", stack'[1].to = t,
             stack'[1].pc = "toM" => IF Len(stack') = 1 THEN Outcome(t)' ELSE SwitchAt(2, M)',
             stack'[1].pc = "toM" => IsUser(t) /\ IsUser(before.curr),
             stack'[1].pc # "toM" => SwitchAt(1, t)'
      PROVE  GotoCalled'
  BY <1>2, <1>4 DEF GotoCalled, IsUser
<1>5. CASE Len(stack) = 1 /\ stack[1].pc = "toM"
  <2>1. stack' # <<>> /\ SwitchAt(1, t)' /\ stack'[1].fn = "goto" /\ stack'[1].to = t
         /\ UNCHANGED <<medeleg, armed>>
    BY <1>2, <1>5, LastLeg
  <2>2. stack'[1].pc # "toM"
    BY <2>1 DEF SwitchAt
  <2> QED
    BY <1>4, <2>1, <2>2
<1>6. CASE Len(stack) = 1 /\ stack[1].pc # "toM"
  <2>1. UNCHANGED <<medeleg, armed>>
    BY <1>1, <1>6, GotoRuns
  <2>2. SwitchAt(1, t)
    BY <1>2, <1>6
  <2>3. \/ Going /\ SwitchAt(1, t)'
        \/ Going /\ Detour(t)
        \/ Returning /\ Done(1, t)
    BY <1>1, <1>6, <2>2, SwitchRuns
  <2>4. CASE Going /\ SwitchAt(1, t)'
    <3>1. stack' # <<>>
      BY <1>1, <1>6, <2>4, GoingFrames DEF GoesOn
    <3>2. stack'[1].fn = "goto" /\ stack'[1].to = t /\ stack'[1].pc # "toM"
      BY <2>4 DEF SwitchAt
    <3> QED
      BY <1>4, <2>1, <2>4, <3>1, <3>2
  <2>5. CASE Going /\ Detour(t)
    <3>1. /\ IsUser(t) /\ IsUser(before.curr) /\ Len(stack') = 2 /\ SwitchAt(2, M)'
          /\ stack'[1].fn = "goto" /\ stack'[1].to = t /\ stack'[1].pc = "toM"
      BY <2>5 DEF Detour
    <3>2. stack' # <<>>
      BY <1>1, <1>6, <2>5, GoingFrames DEF GoesOn
    <3> QED
      BY <1>4, <2>1, <3>1, <3>2
  <2>6. CASE Returning /\ Done(1, t)
    <3>1. stack' = <<>>
      BY <1>6, <2>6, ReturningFrames DEF Returns
    <3> QED
      BY <2>1, <2>6, <3>1
  <2> QED
    BY <2>3, <2>4, <2>5, <2>6
<1>7. CASE Len(stack) > 1
  <2>1. /\ UNCHANGED <<medeleg, armed>> /\ stack' # <<>>
        /\ \/ stack'[1] = stack[1]
           \/ Len(stack) = 2 /\ stack[1].pc = "ecall" /\ stack'[1] = Goes(stack[1], "ret")
        /\ Len(stack') = 1 => Len(stack) = 2
    BY <1>7, WaitingKept
  <2>2. stack'[1].fn = "goto" /\ stack'[1].to = t /\ (stack'[1].pc = "toM" => stack[1].pc = "toM")
        /\ (stack[1].pc = "toM" => stack'[1].pc = "toM")
    BY <2>1 DEF Goes
  <2>3. CASE stack[1].pc # "toM"
    <3>1. SwitchAt(1, t)'
      BY <1>2, <1>7, <2>3, SwitchWaits
    <3> QED
      BY <1>4, <2>1, <2>2, <2>3, <3>1
  <2>4. CASE stack[1].pc = "toM"
    <3>1. SwitchAt(2, M) /\ IsUser(t) /\ IsUser(before.curr) /\ Len(stack) # 1
      BY <1>1, <1>2, <1>7, <2>4, LenCases
    <3>2. Len(stack) = 2 \/ Len(stack) > 2
      <4>1. PICK n \in Nat : n = Len(stack)
        BY <1>1
      <4>2. n = 2 \/ n > 2
        BY <1>7, <4>1
      <4> QED
        BY <4>1, <4>2
    <3>3. IF Len(stack') = 1 THEN Outcome(t)' ELSE SwitchAt(2, M)'
      <4>1. CASE Len(stack) > 2
        <5>1. Len(stack') # 1
          BY <2>1, <4>1
        <5>2. SwitchAt(2, M)'
          BY <3>1, <4>1, SwitchWaits
        <5> QED
          BY <5>1, <5>2
      <4>2. CASE Len(stack) = 2
        <5>1. (Going /\ SwitchAt(2, M)') \/ (Returning /\ Done(2, M))
          BY <1>3, <3>1, <4>2, SwitchRuns
        <5>2. CASE Going /\ SwitchAt(2, M)'
          <6>1. Len(stack') \in {2, 3}
            BY <4>2, <5>2, GoingFrames DEF GoesOn
          <6> QED
            BY <5>2, <6>1
        <5>3. CASE Returning /\ Done(2, M)
          <6>1. Len(stack') = 1
            BY <4>2, <5>3, ReturningFrames DEF Returns
          <6>2. Outcome(M)'
            BY <5>3 DEF Done
          <6>3. Outcome(t)'
            <7>1. /\ Service!Rises(before.curr, t) /\ Service!Rises(before.curr, M)
                  /\ Service!RiseRecord(before.curr, t) = Service!RiseRecord(before.curr, M)
                  /\ Service!RiseArg(t) = M /\ Service!RiseArg(M) = M
              BY <1>1, <3>1, Records
            <7>2. excpt' = Service!RiseRecord(before.curr, M) /\ arg' = M
              BY <6>2, <7>1 DEF Outcome, Service!Rises, Service!RiseRecord, Service!RiseArg,
                 Service!Recorded
            <7> QED
              BY <7>1, <7>2 DEF Outcome, Service!Rises, Service!RiseRecord, Service!RiseArg,
                 Service!Recorded
          <6> QED
            BY <6>1, <6>3
        <5> QED
          BY <5>1, <5>2, <5>3
      <4> QED
        BY <3>2, <4>1, <4>2
    <3> QED
      BY <1>4, <2>1, <2>2, <2>4, <3>1, <3>3
  <2> QED
    BY <2>3, <2>4
<1> QED
  BY <1>1, <1>5, <1>6, <1>7

\* reset_state, called by the test.
LEMMA ResetCalledStep ==
  ASSUME TypeOK, RunInv, ServesEcall, stack # <<>>, stack[1].fn = "reset", ResetCalled,
         Going \/ Returning, status' = "run", before' = before, before.curr \in Priv
  PROVE  /\ stack' # <<>> => /\ stack'[1].fn = "reset" /\ ResetCalled'
                             /\ UNCHANGED <<medeleg, armed>>
         /\ stack' = <<>> => /\ Outcome(M)' /\ curr' = M /\ medeleg' = {"ECU"} /\ ~armed'
<1>1. /\ stack \in Seq(Frames) /\ stack[1] \in Frames
      /\ Len(stack) = 1 \/ Len(stack) > 1
      /\ Len(stack) = 1 => Last(stack) = stack[1] /\ Len(stack) # 0
  <2>1. stack \in Seq(Frames) /\ (Len(stack) = 1 \/ Len(stack) > 1)
    BY LenCases DEF TypeOK
  <2>2. stack[1] \in Frames
    BY <2>1
  <2> QED
    BY <2>1, <2>2 DEF Last
<1>2. M \in Priv
  BY DEF Priv, VU, M
<1>3. stack[1].pc \in {"r0", "r1"}
  BY <1>1, FrameFacts DEF ResetPcs
<1>4. CASE Len(stack) = 1
  <2>1. ResetGoto \/ ResetCsrs
    BY <1>1, <1>4 DEF Going, Returning, GotoUserToUser, GotoRaiseViaHS, GotoSecondHop, GotoEcall, GotoLower,
       GotoArrived, GotoLowered, GotoReturn, Lowering, Deciding, HandlerServesGoto, HandlerAccepts,
       Handling, HandlerReturns, Running, Handlers
  <2>2. CASE ResetGoto
    <3>1. /\ Goes(Last(stack), "r1") \in Frames /\ stack[1].pc = "r0"
          /\ stack' = Push(At(stack, "r1"), GotoFrame(M))
          /\ UNCHANGED <<medeleg, armed, curr, real, arg, excpt>>
      BY <1>1, <1>4, <2>2, RunningReset DEF ResetGoto, ResetPcs, Call
    <3>2. GotoFrame(M) \in Frames
      BY <1>2, FrameFacts
    <3>3. /\ Len(stack') = Len(stack) + 1 /\ stack'[Len(stack)] = Goes(Last(stack), "r1")
          /\ stack'[Len(stack) + 1] = GotoFrame(M)
      BY <1>1, <3>1, <3>2, Called
    <3>4. /\ Len(stack') = 2 /\ stack'[1] = Goes(stack[1], "r1") /\ stack'[2] = GotoFrame(M)
          /\ Len(stack') # 1
      BY <1>1, <1>4, <3>3
    <3>5. Untouched'
      BY <3>1 DEF ResetCalled, Untouched
    <3>6. SwitchAt(2, M)'
      BY <3>4, <3>5 DEF SwitchAt, GotoFrame
    <3>7. stack' # <<>>
      BY <2>2, GoingFrames DEF Going, GoesOn, ResetGoto
    <3> QED
      BY <3>1, <3>4, <3>6, <3>7 DEF ResetCalled, Goes
  <2>3. CASE ResetCsrs
    <3>1. /\ stack[1].pc = "r1" /\ stack' = Front(stack) /\ medeleg' = {"ECU"}
          /\ UNCHANGED <<armed, curr, arg, excpt>>
      BY <1>1, <1>4, <2>3 DEF ResetCsrs, Running
    <3>2. stack' = <<>>
      BY <1>1, <1>4, <3>1, PopFacts
    <3>3. Outcome(M) /\ ~armed
      BY <1>4, <3>1 DEF ResetCalled
    <3>4. Outcome(M)'
      BY <3>1, <3>3, OutcomeKept
    <3>5. curr = M
      BY <1>1, <1>4, <3>1 DEF RunInv, TopInv, ResetTop, Arrived
    <3> QED
      BY <3>1, <3>2, <3>3, <3>4, <3>5
  <2> QED
    BY <2>1, <2>2, <2>3
<1>5. CASE Len(stack) > 1
  <2>1. /\ UNCHANGED <<medeleg, armed>> /\ stack' # <<>>
        /\ \/ stack'[1] = stack[1]
           \/ Len(stack) = 2 /\ stack[1].pc = "ecall" /\ stack'[1] = Goes(stack[1], "ret")
        /\ Len(stack') = 1 => Len(stack) = 2
    BY <1>5, WaitingKept
  <2>2. Len(stack) # 1 /\ (Len(stack) = 2 \/ (Len(stack) > 2 /\ Len(stack) # 2))
    <3>1. \A n \in Nat : n > 1 => n # 1 /\ (n = 2 \/ (n > 2 /\ n # 2))
      OBVIOUS
    <3>2. Len(stack) \in Nat
      BY <1>1
    <3> QED
      BY <1>5, <3>1, <3>2
  <2>3. stack[1].pc = "r1"
    <3>1. 1 \in 1..(Len(stack) - 1) /\ Shape(stack, arg)
      BY <1>1, <1>5 DEF RunInv
    <3>2. stack[1].pc \in {"toM", "viaHS", "fromHS", "ecall", "h1", "r1"}
      BY <1>1, <3>1, WaitingPc
    <3> QED
      BY <1>3, <3>2
  <2>4. SwitchAt(2, M) /\ ~armed
    BY <2>2, <2>3 DEF ResetCalled
  <2>5. stack'[1] = stack[1]
    BY <2>1, <2>3
  <2>6. IF Len(stack') = 1 THEN Outcome(M)' ELSE SwitchAt(2, M)'
    <3>1. CASE Len(stack) > 2 /\ Len(stack) # 2
      <4>1. SwitchAt(2, M)'
        BY <2>4, <3>1, SwitchWaits
      <4>2. Len(stack') # 1
        BY <2>1, <3>1
      <4> QED
        BY <4>1, <4>2
    <3>2. CASE Len(stack) = 2
      <4>1. (Going /\ SwitchAt(2, M)') \/ (Returning /\ Done(2, M))
        BY <1>2, <2>4, <3>2, SwitchRuns
      <4>2. CASE Going /\ SwitchAt(2, M)'
        <5>1. Len(stack') \in {2, 3}
          BY <3>2, <4>2, GoingFrames DEF GoesOn
        <5> QED
          BY <4>2, <5>1
      <4>3. CASE Returning /\ Done(2, M)
        <5>1. Len(stack') = 1
          BY <3>2, <4>3, ReturningFrames DEF Returns
        <5>2. Outcome(M)'
          BY <4>3 DEF Done
        <5> QED
          BY <5>1, <5>2
      <4> QED
        BY <4>1, <4>2, <4>3
    <3> QED
      BY <2>2, <3>1, <3>2
  <2> QED
    BY <2>1, <2>3, <2>4, <2>5, <2>6 DEF ResetCalled
<1> QED
  BY <1>1, <1>4, <1>5

\* An exception or interrupt that stopped the test: its handler records it and returns.
LEMMA TestTrappedStep ==
  ASSUME TypeOK, RunInv, NestInv, stack # <<>>, stack[1].fn \in Handlers, TestTrapped,
         Going \/ Returning, status' = "run", before' = before
  PROVE  /\ stack' # <<>> => /\ stack'[1].fn \in Handlers /\ TestTrapped' /\ UNCHANGED medeleg
         /\ stack' = <<>> =>
              /\ UNCHANGED <<curr, arg, medeleg>>
              /\ stack[1].cause # "ECM" => excpt.testing
              /\ excpt' = Service!Recorded(IF stack[1].fn = "mhandler" THEN M ELSE HS, stack[1].cause)
              /\ armed' = (armed /\ stack[1].cause \notin Faults)
<1> PICK f : f = stack[1]
  OBVIOUS
<1>1. /\ stack \in Seq(Frames) /\ f \in Frames
      /\ Len(stack) = 1 \/ Len(stack) > 1
      /\ Len(stack) = 1 => Last(stack) = f
  <2>1. stack \in Seq(Frames) /\ (Len(stack) = 1 \/ Len(stack) > 1)
    BY LenCases DEF TypeOK
  <2>2. f \in Frames
    BY <2>1
  <2> QED
    BY <2>1, <2>2 DEF Last
<1>2. CASE Len(stack) = 1
  <2>1. HandlerServesGoto \/ HandlerAccepts \/ HandlerReturns
    BY <1>1, <1>2 DEF Going, Returning, GotoUserToUser, GotoRaiseViaHS, GotoSecondHop, GotoEcall, GotoLower,
       GotoArrived, GotoLowered, GotoReturn, Lowering, Deciding, ResetGoto, ResetCsrs, Running, Handlers
  <2>2. Goes(f, "h1") \in Frames
    BY <1>1, FrameFacts DEF HandlerPcs
  <2>3. CASE HandlerServesGoto \/ HandlerAccepts
    <3>1. /\ stack'[1] = Goes(f, "h1")
          /\ UNCHANGED <<medeleg, curr, arg, excpt, armed>>
      <4>1. CASE HandlerServesGoto
        <5>1. stack' = Push(At(stack, "h1"), GotoFrame(arg)) /\ arg \in Priv
              /\ UNCHANGED <<medeleg, curr, arg, excpt, armed>>
          BY <4>1 DEF HandlerServesGoto, Call, TypeOK
        <5>2. GotoFrame(arg) \in Frames
          BY <5>1, FrameFacts
        <5>3. stack'[Len(stack)] = Goes(Last(stack), "h1")
          BY <1>1, <1>2, <2>2, <5>1, <5>2, Called
        <5> QED
          BY <1>1, <1>2, <5>1, <5>3
      <4>2. CASE HandlerAccepts
        <5>1. stack' = At(stack, "h1") /\ UNCHANGED <<medeleg, curr, arg, excpt, armed>>
          BY <4>2 DEF HandlerAccepts
        <5>2. stack'[Len(stack)] = Goes(Last(stack), "h1")
          BY <1>1, <1>2, <2>2, <5>1, AtFacts
        <5> QED
          BY <1>1, <1>2, <5>1, <5>2
      <4> QED
        BY <2>3, <4>1, <4>2
    <3>2. f.cause # "ECM" => excpt.testing
      <4>1. CASE HandlerAccepts
        BY <4>1 DEF HandlerAccepts
      <4>2. CASE HandlerServesGoto
        <5>1. f.cause \in Ecalls
          BY <1>1, <1>2, <4>2 DEF HandlerServesGoto, Cause
        <5>2. f.cause \notin Faults /\ f.cause \notin Irqs
          BY <5>1, ConstantsAssumption DEF ConstantsAssumption, Ecalls, Interrupts
        <5> QED
          BY <5>2 DEF TestTrapped
      <4> QED
        BY <2>3, <4>1, <4>2
    <3>3. stack' # <<>>
      BY <1>1, <1>2, <2>3, GoingFrames DEF Going, GoesOn
    <3>4. Goes(f, "h1").fn = f.fn /\ Goes(f, "h1").cause = f.cause
      BY DEF Goes
    <3> QED
      BY <3>1, <3>2, <3>3, <3>4 DEF TestTrapped
  <2>4. CASE HandlerReturns
    <3>1. PICK h \in Handlers : /\ Running(h, "h1")
                                /\ excpt' = [testing |-> FALSE, triggered |-> TRUE,
                                             priv |-> IF h = "mhandler" THEN M ELSE HS,
                                             cause |-> Cause, faultInst |-> FALSE]
                                /\ armed' = (armed /\ ~(Cause \in Faults))
                                /\ stack' = Resume(Front(stack), Advances)
                                /\ UNCHANGED <<medeleg, curr, arg>>
      BY <2>4 DEF HandlerReturns
    <3>2. h = f.fn /\ f.pc = "h1" /\ Cause = f.cause
      BY <1>1, <1>2, <3>1 DEF Running, Cause
    <3>3. stack' = <<>>
      BY <1>1, <1>2, <3>1, PopFacts DEF Resume
    <3>4. excpt' = Service!Recorded(IF f.fn = "mhandler" THEN M ELSE HS, f.cause)
      BY <3>1, <3>2 DEF Service!Recorded
    <3>5. f.cause # "ECM" => excpt.testing
      BY <3>2 DEF TestTrapped
    <3> QED
      BY <3>1, <3>2, <3>3, <3>4, <3>5
  <2> QED
    BY <2>1, <2>3, <2>4
<1>3. CASE Len(stack) > 1
  <2>1. /\ Len(stack) = 2 /\ Last(stack).fn = "goto" /\ Last(stack).pc = "g0"
        /\ Target = M /\ real = M /\ curr = M
    BY <1>3, BareOnly DEF NestInv
  <2>2. UNCHANGED <<medeleg, armed>> /\ stack' # <<>>
        /\ (stack'[1] = f \/ f.pc = "ecall")
    BY <1>3, WaitingKept
  <2>3. f.pc # "ecall"
    BY <1>1, FrameFacts DEF HandlerPcs
  <2>4. GotoArrived
    <3>1. ~GotoUserToUser /\ ~GotoRaiseViaHS /\ ~GotoSecondHop /\ ~GotoEcall
          /\ ~GotoLower /\ ~GotoLowered /\ ~GotoReturn
      BY <2>1 DEF GotoUserToUser, GotoRaiseViaHS, GotoSecondHop, GotoEcall, GotoLower, Lowering,
         GotoLowered, GotoReturn, Running, IsUser, VU, HU, M
    <3> QED
      BY <2>1, <3>1, GotoRuns
  <2>5. UNCHANGED <<curr, arg, excpt>>
    BY <2>1, <2>4 DEF GotoArrived
  <2> QED
    BY <2>2, <2>3, <2>5 DEF TestTrapped
<1> QED
  BY <1>1, <1>2, <1>3

-----------------------------------------------------------------------------
(***************************************************************************)
(* The steps of the service.                                               *)
(***************************************************************************)
LEMMA SeenFacts ==
  /\ stack # <<>> => Seen = before
  /\ stack = <<>> =>
       /\ Seen.curr = curr /\ Seen.medeleg = medeleg /\ Seen.arg = arg
       /\ Seen.excpt = excpt /\ Seen.armed = armed
  BY DEF Seen, Snapshot

LEMMA SeenNext ==
  /\ stack' # <<>> => Seen' = before'
  /\ stack' = <<>> =>
       /\ (Seen.curr)' = curr' /\ (Seen.medeleg)' = medeleg' /\ (Seen.arg)' = arg'
       /\ (Seen.excpt)' = excpt' /\ (Seen.armed)' = armed'
  BY DEF Seen, Snapshot

LEMMA Stutters ==
  ASSUME Seen' = Seen, status' = status
  PROVE  UNCHANGED Service!vars
  BY DEF Service!vars

\* A switch is done.
LEMMA GotoServed ==
  ASSUME stack # <<>>, stack' = <<>>, status = "run", status' = "run", before' = before,
         before.armed => SetupAcrossGoto, NEW t \in Priv, <<before.curr, t>> \in Switches,
         Done(1, t), medeleg' = before.medeleg, armed' = before.armed
  PROVE  Service!Next
<1>1. Seen = before
  BY SeenFacts
<1>2. /\ (Seen.curr)' = t /\ (Seen.medeleg)' = before.medeleg /\ (Seen.arg)' = arg'
      /\ (Seen.excpt)' = excpt' /\ (Seen.armed)' = before.armed
  BY SeenNext DEF Done
<1>3. CASE Outcome(t)'
  <2>1. /\ excpt' = IF Service!Rises(before.curr, t) THEN Service!RiseRecord(before.curr, t)
                    ELSE before.excpt
        /\ arg' = IF Service!Rises(before.curr, t) THEN Service!RiseArg(t) ELSE before.arg
    BY <1>3 DEF Outcome, Service!Rises, Service!RiseRecord, Service!RiseArg, Service!Recorded
  <2>2. Service!Switched(before.curr, t)
    BY <1>1, <1>2, <2>1 DEF Service!Switched
  <2>3. t \in Service!VU .. Service!M
    BY DEF Priv, VU, M, Service!VU, Service!M
  <2>4. Service!MaySwitch
    BY <1>1 DEF Service!MaySwitch
  <2>5. Service!Goto
    BY <1>1, <1>2, <2>2, <2>3, <2>4 DEF Service!Goto
  <2> QED
    BY <2>5 DEF Service!Next
<1>4. CASE /\ t = M /\ before.curr = HU
           /\ excpt' = Service!Recorded(HS, "ECU") /\ arg' = M
  <2>1. Service!MaySwitch
    BY <1>1 DEF Service!MaySwitch
  <2>2. Service!GotoDirect
    BY <1>1, <1>2, <1>4, <2>1 DEF Service!GotoDirect, Service!HU, Service!HS, Service!M, HU, HS, M
  <2> QED
    BY <2>2 DEF Service!Next
<1> QED
  BY <1>3, <1>4 DEF Done

\* reset_state is done.
LEMMA ResetServed ==
  ASSUME stack # <<>>, stack' = <<>>, status = "run", status' = "run", before' = before,
         Outcome(M)', curr' = M, medeleg' = {"ECU"}, ~armed', armed' \in BOOLEAN
  PROVE  Service!Next
<1>1. Seen = before
  BY SeenFacts
<1>2. /\ (Seen.curr)' = M /\ (Seen.medeleg)' = {"ECU"} /\ (Seen.arg)' = arg'
      /\ (Seen.excpt)' = excpt' /\ (Seen.armed)' = FALSE
  BY SeenNext
<1>3. /\ excpt' = IF Service!Rises(before.curr, M) THEN Service!RiseRecord(before.curr, M)
                  ELSE before.excpt
      /\ arg' = IF Service!Rises(before.curr, M) THEN Service!RiseArg(M) ELSE before.arg
  BY DEF Outcome, Service!Rises, Service!RiseRecord, Service!RiseArg, Service!Recorded
<1>4. Service!Switched(before.curr, M)
  BY <1>1, <1>2, <1>3 DEF Service!Switched
<1>5. M = Service!M
  BY DEF M, Service!M
<1>6. Service!Reset
  BY <1>1, <1>2, <1>4, <1>5 DEF Service!Reset
<1> QED
  BY <1>6 DEF Service!Next

\* The handler of an exception or interrupt of the test is done.
LEMMA TrapServed ==
  ASSUME TypeOK, stack # <<>>, stack' = <<>>, status = "run", status' = "run", before' = before,
         stack[1].fn \in Handlers, TestTrapped, medeleg = before.medeleg,
         UNCHANGED <<curr, arg, medeleg>>,
         stack[1].cause # "ECM" => excpt.testing,
         excpt' = Service!Recorded(IF stack[1].fn = "mhandler" THEN M ELSE HS, stack[1].cause),
         armed' = (armed /\ stack[1].cause \notin Faults)
  PROVE  Service!Next
<1> PICK f : f = stack[1]
  OBVIOUS
<1>1. Seen = before
  BY SeenFacts
<1>2. /\ (Seen.curr)' = before.curr /\ (Seen.medeleg)' = before.medeleg
      /\ (Seen.arg)' = before.arg /\ (Seen.excpt)' = excpt' /\ (Seen.armed)' = armed'
  BY SeenNext DEF TestTrapped
<1>3. /\ excpt' = Service!Recorded(IF f.cause \in before.medeleg /\ before.curr # M THEN HS ELSE M, f.cause)
      /\ f.cause # "ECM" => before.excpt.testing
      /\ curr = before.curr
  BY DEF TestTrapped, Handlers
<1>4. M = Service!M /\ HS = Service!HS
  BY DEF M, HS, Service!M, Service!HS
<1>5. CASE f.cause \in Faults /\ armed /\ before.armed
  <2>1. f.cause # "ECM" /\ armed' = FALSE
    BY <1>5, ConstantsAssumption DEF ConstantsAssumption
  <2>2. Service!Fault
    BY <1>1, <1>2, <1>3, <1>4, <1>5, <2>1 DEF Service!Fault
  <2> QED
    BY <2>2 DEF Service!Next
<1>6. CASE f.cause \in Irqs /\ armed = before.armed /\ ~(curr = M /\ f.cause \in medeleg)
  <2>1. f.cause # "ECM" /\ f.cause \notin Faults /\ f.cause \in Irqs
    BY <1>6, ConstantsAssumption DEF ConstantsAssumption, Interrupts
  <2>2. armed' = before.armed /\ ~(before.curr = M /\ f.cause \in before.medeleg)
    BY <1>3, <1>6, <2>1 DEF TypeOK
  <2>3. excpt' = Service!Recorded(IF f.cause \in before.medeleg THEN HS ELSE M, f.cause)
    BY <1>3, <2>2
  <2>4. Service!Interrupt
    BY <1>1, <1>2, <1>3, <1>4, <2>1, <2>2, <2>3 DEF Service!Interrupt
  <2> QED
    BY <2>4 DEF Service!Next
<1>7. CASE f.cause = "ECM" /\ ~armed /\ before.armed /\ curr = M /\ M \in BareEcalls
  <2>1. excpt' = Service!Recorded(M, "ECM") /\ armed' = FALSE
    BY <1>3, <1>7
  <2>2. Service!BareEcall
    BY <1>1, <1>2, <1>3, <1>4, <1>7, <2>1 DEF Service!BareEcall
  <2> QED
    BY <2>2 DEF Service!Next
<1> QED
  BY <1>5, <1>6, <1>7 DEF TestTrapped

\* Nobody announced the exception or interrupt: the program ends.
LEMMA UntestedServed ==
  ASSUME TypeOK, RunInv, stack # <<>>, stack' # <<>>, status = "run", status' = "untested exception",
         before' = before, stack[1].fn \in Handlers, TestTrapped, medeleg = before.medeleg,
         ~excpt.testing
  PROVE  Service!Next
<1> PICK f : f = stack[1]
  OBVIOUS
<1>1. Seen = before /\ Seen' = before
  BY SeenFacts, SeenNext
<1>2. ~before.excpt.testing
  BY DEF TestTrapped
<1>3. CASE before.armed
  <2>1. Service!Fault
    BY <1>1, <1>2, <1>3 DEF Service!Fault
  <2> QED
    BY <2>1 DEF Service!Next
<1>4. CASE f.cause \in Irqs /\ ~(curr = M /\ f.cause \in medeleg)
  <2>1. curr = before.curr /\ M = Service!M
    BY DEF TestTrapped, M, Service!M
  <2>2. Service!Interrupt
    BY <1>1, <1>2, <1>4, <2>1 DEF Service!Interrupt
  <2> QED
    BY <2>2 DEF Service!Next
<1> QED
  BY <1>3, <1>4 DEF TestTrapped

\* What the harness does for a test is a step of the service when it is done, and none before.
LEMMA HarnessServed ==
  ASSUME Respected, SoundBuild, CallsInv, OnlyUntestedStops, CalledInv, status = "run", Harness,
         before' = Seen
  PROVE  CalledInv' /\ (Service!Next \/ UNCHANGED Service!vars)
<1>1. /\ TypeOK /\ RunInv /\ NestInv
      /\ \/ (Going \/ Returning) /\ status' = "run"
         \/ HandlerRejects /\ status' = "untested exception"
  BY HarnessSteps
<1>2. stack \in Seq(Frames) /\ stack # <<>>
  <2>1. HandlerRejects => stack # <<>>
    BY DEF HandlerRejects, Handling, Running
  <2> QED
    BY <1>1, <2>1, GoingFrames, ReturningFrames DEF TypeOK
<1>3. /\ before' = before /\ medeleg = before.medeleg /\ before.curr \in Priv /\ ServesEcall
      /\ stack[1].fn = "goto" => GotoCalled
      /\ stack[1].fn = "reset" => ResetCalled
      /\ stack[1].fn \in Handlers => TestTrapped
  BY <1>2, SeenFacts DEF CalledInv
<1>4. /\ stack[1] \in Frames /\ stack[1].fn \in {"goto", "reset"} \union Handlers
      /\ stack[1].fn = "goto" => stack[1].to \in Priv
  <2>1. Len(stack) = 1 \/ Len(stack) > 1
    BY <1>2, LenCases
  <2>2. stack[1] \in Frames
    BY <1>2, <2>1
  <2> QED
    BY <2>2 DEF Frames, Handlers
<1>5. stack' # <<>> /\ status' = status => UNCHANGED Service!vars
  BY <1>2, <1>3, SeenFacts, SeenNext, Stutters
<1>6. CASE HandlerRejects /\ status' = "untested exception"
  <2>1. CalledInv'
    BY <1>6 DEF CalledInv
  <2>2. /\ ~excpt.testing /\ stack' = stack
        /\ Last(stack).fn \in Handlers /\ Last(stack).pc = "h0"
        /\ ~(Last(stack).cause \in Ecalls /\ arg # None)
    BY <1>6 DEF HandlerRejects, Handling, Running, Cause, Stop
  <2>3. ~(Len(stack) > 1)
    <3> SUFFICES ASSUME Len(stack) > 1 PROVE FALSE
      OBVIOUS
    <3>1. HandlerTop(Last(stack))
      BY <1>1, <1>2, <2>2 DEF RunInv, TopInv
    <3> QED
      BY <2>2, <3>1 DEF HandlerTop, Ecalls, None, HS, M
  <2>4. Len(stack) = 1
    BY <1>2, <2>3, LenCases
  <2>5. Last(stack) = stack[1]
    BY <2>4 DEF Last
  <2>6. Service!Next
    BY <1>1, <1>2, <1>3, <1>6, <2>2, <2>5, UntestedServed
  <2> QED
    BY <2>1, <2>6
<1>7. CASE (Going \/ Returning) /\ status' = "run"
  <2>1. ServesEcall'
    BY <1>1, <1>3, <1>7, ServesKept
  <2>2. CASE stack[1].fn = "goto"
    <3>1. /\ UNCHANGED <<medeleg, armed>>
          /\ stack' # <<>> => stack'[1].fn = "goto" /\ GotoCalled'
          /\ stack' = <<>> => Done(1, stack[1].to)
      BY <1>1, <1>2, <1>3, <1>7, <2>2, GotoCalledStep
    <3>2. CalledInv'
      BY <1>3, <2>1, <3>1 DEF CalledInv, Handlers
    <3>3. CASE stack' = <<>>
      <4>1. /\ armed = before.armed /\ (armed => SetupAcrossGoto)
            /\ <<before.curr, stack[1].to>> \in Switches
        BY <1>3, <2>2 DEF GotoCalled
      <4>2. Service!Next
        BY <1>2, <1>3, <1>4, <1>7, <2>2, <3>1, <3>3, <4>1, GotoServed
      <4> QED
        BY <3>2, <4>2
    <3> QED
      BY <1>5, <1>7, <3>2, <3>3
  <2>3. CASE stack[1].fn = "reset"
    <3>1. /\ stack' # <<>> => /\ stack'[1].fn = "reset" /\ ResetCalled'
                              /\ UNCHANGED <<medeleg, armed>>
          /\ stack' = <<>> => /\ Outcome(M)' /\ curr' = M /\ medeleg' = {"ECU"} /\ ~armed'
      BY <1>1, <1>2, <1>3, <1>7, <2>3, ResetCalledStep
    <3>2. CalledInv'
      BY <1>3, <2>1, <3>1 DEF CalledInv, Handlers
    <3>3. CASE stack' = <<>>
      <4>1. armed' \in BOOLEAN
        BY <1>1, StepKeepsTypes DEF TypeOK, Next
      <4>2. Service!Next
        BY <1>2, <1>3, <1>7, <3>1, <3>3, <4>1, ResetServed
      <4> QED
        BY <3>2, <4>2
    <3> QED
      BY <1>5, <1>7, <3>2, <3>3
  <2>4. CASE stack[1].fn \in Handlers
    <3>1. /\ stack' # <<>> => /\ stack'[1].fn \in Handlers /\ TestTrapped' /\ UNCHANGED medeleg
          /\ stack' = <<>> =>
              /\ UNCHANGED <<curr, arg, medeleg>>
              /\ stack[1].cause # "ECM" => excpt.testing
              /\ excpt' = Service!Recorded(IF stack[1].fn = "mhandler" THEN M ELSE HS, stack[1].cause)
              /\ armed' = (armed /\ stack[1].cause \notin Faults)
      BY <1>1, <1>2, <1>3, <1>7, <2>4, TestTrappedStep
    <3>2. CalledInv'
      BY <1>3, <2>1, <3>1 DEF CalledInv, Handlers
    <3>3. CASE stack' = <<>>
      <4>1. Service!Next
        BY <1>1, <1>2, <1>3, <1>7, <2>4, <3>1, <3>3, TrapServed
      <4> QED
        BY <3>2, <4>1
    <3> QED
      BY <1>5, <1>7, <3>2, <3>3
  <2> QED
    BY <1>4, <2>2, <2>3, <2>4
<1> QED
  BY <1>1, <1>6, <1>7

-----------------------------------------------------------------------------
(***************************************************************************)
(* What the test does itself.                                              *)
(***************************************************************************)
\* One frame is all there is above the test.
LEMMA FirstFrame ==
  ASSUME stack = <<>>, NEW f \in Frames, stack' = Push(stack, f)
  PROVE  Len(stack') = 1 /\ stack' # <<>> /\ stack'[1] = f /\ ServesEcall'
<1>1. stack' # <<>> /\ Len(stack') = 1 /\ Last(stack') = f
  BY OneFrame
<1>2. stack'[1] = f
  BY <1>1 DEF Last
<1>3. ServesEcall'
  <2>1. 2..1 = {}
    OBVIOUS
  <2>2. 2..Len(stack') = {}
    BY <1>1, <2>1
  <2> QED
    BY <2>2 DEF ServesEcall
<1> QED
  BY <1>1, <1>2, <1>3

\* A call leaves the service where it is: before keeps what the test left.
LEMMA Calls ==
  ASSUME stack = <<>>, stack' # <<>>, before' = Seen, status' = status
  PROVE  UNCHANGED Service!vars
  BY SeenNext, Stutters

LEMMA SnapshotFacts ==
  ASSUME stack = <<>>, before' = Seen
  PROVE  /\ before'.curr = curr /\ before'.medeleg = medeleg /\ before'.arg = arg
         /\ before'.excpt = excpt /\ before'.armed = armed
  BY DEF Seen, Snapshot

\* An exception or interrupt of the test.
LEMMA TrapCalled ==
  ASSUME TypeOK, RunInv, stack = <<>>, NEW c \in Causes, Trap(c, stack), status = "run",
         status' = "run", before' = Seen, UNCHANGED <<medeleg, curr, arg>>,
         excpt'.testing = excpt.testing, excpt' # excpt => c \in Faults,
         \/ c \in Faults /\ armed /\ armed'
         \/ c \in Irqs /\ armed' = armed /\ ~(curr = M /\ c \in medeleg)
         \/ c = "ECM" /\ ~armed' /\ armed /\ curr = M /\ M \in BareEcalls
  PROVE  CalledInv' /\ UNCHANGED Service!vars
<1> PICK g : g = HandlerFrame(Level(c), c)
  OBVIOUS
<1>1. stack' = Push(stack, g)
  BY DEF Trap
<1>2. Level(c) \in {"M", "S"} /\ (Level(c) = "S" <=> c \in medeleg /\ mode # "M")
  BY DEF Level
<1>3. mode = "M" <=> curr = M
  BY DEF RunInv, TopInv, HartMode
<1>4. /\ g \in Frames /\ g.pc = "h0" /\ g.cause = c /\ g.fn \in Handlers
      /\ g.fn # "goto" /\ g.fn # "reset"
      /\ g.fn = "hshandler" <=> c \in medeleg /\ curr # M
  BY <1>2, <1>3, FrameFacts DEF HandlerFrame, Handlers
<1>5. stack' # <<>> /\ stack'[1] = g /\ ServesEcall'
  BY <1>1, <1>4, FirstFrame
<1>6. /\ before'.curr = curr /\ before'.medeleg = medeleg /\ before'.arg = arg
      /\ before'.excpt = excpt /\ before'.armed = armed
  BY SnapshotFacts
<1>7. TestTrapped'
  BY <1>4, <1>5, <1>6 DEF TestTrapped
<1>8. CalledInv'
  BY <1>4, <1>5, <1>6, <1>7 DEF CalledInv, TypeOK
<1> QED
  BY <1>5, <1>8, Calls

\* goto_priv_u_to_m_direct
LEMMA DirectCalled ==
  ASSUME TypeOK, RunInv, TestGotoDirect, status' = "run", before' = Seen
  PROVE  CalledInv' /\ UNCHANGED Service!vars
<1> PICK f, h : f = Goes(GotoFrame(M), "ecall") /\ h = HandlerFrame("S", "ECU")
  OBVIOUS
<1>1. /\ stack = <<>> /\ curr = HU /\ real = HU /\ <<HU, M>> \in Switches
      /\ armed => SetupAcrossGoto
      /\ Trap(EcallCause, <<f>>) /\ UNCHANGED <<medeleg, curr, armed>> /\ status = "run"
  BY DEF TestGotoDirect, MaySwitch, InTest, RunInv, TopInv
<1>2. mode = "U" /\ EcallCause = "ECU" /\ Level("ECU") = "S"
  BY <1>1 DEF RunInv, DelegInv, HartMode, EcallCause, Level, HU, VS, HS, M
<1>3. stack' = Push(<<f>>, h)
  BY <1>1, <1>2 DEF Trap
<1>4. /\ f \in Frames /\ f.fn = "goto" /\ f.pc = "ecall" /\ f.to = M
  BY DEF Goes, GotoFrame, Frames, GotoPcs, Priv, VU, M
<1>5. /\ h \in Frames /\ h.fn = "hshandler" /\ h.cause = "ECU"
  BY FrameFacts DEF HandlerFrame, Causes, Ecalls
<1>6. stack' # <<>> /\ Len(stack') = 2 /\ stack'[1] = f /\ stack'[2] = h
  <2> DEFINE r == <<f>>
  <2>1. r \in Seq(Frames) /\ Len(r) = 1 /\ r[1] = f
    BY <1>4
  <2>2. stack' = Push(r, h)
    BY <1>3
  <2> HIDE DEF r
  <2> QED
    BY <1>5, <2>1, <2>2, TwoFrames
<1>7. /\ before'.curr = HU /\ before'.medeleg = medeleg /\ before'.armed = armed
  BY <1>1, SnapshotFacts
<1>8. Below' = "hshandler"
  BY <1>7 DEF Below, IsUser
<1>9. Len(stack') > 1 /\ Len(stack') # 1 /\ M > HU
  BY <1>6 DEF M, HU
<1>10. SwitchAt(1, M)'
  BY <1>4, <1>5, <1>6, <1>7, <1>8, <1>9 DEF SwitchAt
<1>11. GotoCalled'
  BY <1>1, <1>4, <1>6, <1>7, <1>10 DEF GotoCalled
<1>12. ServesEcall'
  <2>1. \A i \in 2..2 : i = 2
    OBVIOUS
  <2>2. \A i \in 2..Len(stack') : i = 2
    BY <1>6, <2>1
  <2> QED
    BY <1>5, <1>6, <2>2 DEF ServesEcall
<1>13. CalledInv'
  BY <1>1, <1>4, <1>6, <1>7, <1>11, <1>12 DEF CalledInv, Handlers, Priv, VU, HU, M
<1> QED
  BY <1>1, <1>6, <1>13, Calls

\* A test that acts, or an interrupt that stops it, between its calls.
LEMMA TestServed ==
  ASSUME Respected, SoundBuild, CallsInv, OnlyUntestedStops, status = "run", Test \/ TakeInterrupt,
         before' = Seen
  PROVE  CalledInv' /\ (Service!Next \/ UNCHANGED Service!vars)
<1>1. TypeOK /\ RunInv /\ curr = real /\ mode = HartMode(curr) /\ stack = <<>>
  <2>1. TypeOK /\ RunInv
    BY DEF CallsInv, IInv
  <2>2. stack = <<>>
    BY DEF Test, TestGoto, TestGotoDirect, TestSetup, TestFault, TestBareEcall, TestDelegates,
       TestReset, TestAsserts, MaySwitch, InTest, TakeInterrupt, IrqPoint, Respected
  <2> QED
    BY <2>1, <2>2 DEF RunInv, TopInv
<1>2. status' = "run"
  <2>1. status' \in {"run", "untested exception"}
    BY UntestedKept DEF OnlyUntestedStops, Next
  <2>2. status' = "untested exception" => HandlerRejects
    BY RejectsOnly DEF Next
  <2>3. ~HandlerRejects
    BY <1>1 DEF HandlerRejects, Handling, Running
  <2> QED
    BY <2>1, <2>2, <2>3
<1>3. /\ before'.curr = curr /\ before'.medeleg = medeleg /\ before'.arg = arg
      /\ before'.excpt = excpt /\ before'.armed = armed
  BY <1>1, SnapshotFacts
<1>4. curr \in Priv
  BY <1>1 DEF TypeOK
<1>5. CASE TestGoto
  <2>1. PICK t \in Priv : <<curr, t>> \in Switches /\ Call(stack, GotoFrame(t))
    BY <1>5 DEF TestGoto
  <2>2. /\ stack' = Push(stack, GotoFrame(t)) /\ (armed => SetupAcrossGoto)
        /\ UNCHANGED <<real, medeleg, curr, arg, excpt, armed>>
    BY <1>2, <1>5, <2>1 DEF TestGoto, MaySwitch, Call
  <2>3. /\ GotoFrame(t) \in Frames /\ GotoFrame(t).fn = "goto" /\ GotoFrame(t).pc = "g0"
        /\ GotoFrame(t).to = t
    BY FrameFacts DEF GotoFrame
  <2>4. Len(stack') = 1 /\ stack' # <<>> /\ stack'[1] = GotoFrame(t) /\ ServesEcall'
    BY <1>1, <2>2, <2>3, FirstFrame
  <2>5. Untouched'
    BY <1>1, <1>3, <2>2 DEF Untouched
  <2>6. SwitchAt(1, t)'
    BY <2>3, <2>4, <2>5 DEF SwitchAt
  <2>7. GotoCalled'
    BY <1>3, <2>1, <2>2, <2>3, <2>4, <2>6 DEF GotoCalled
  <2>8. CalledInv'
    BY <1>3, <1>4, <2>2, <2>3, <2>4, <2>7 DEF CalledInv, Handlers
  <2> QED
    BY <1>1, <1>2, <2>4, <2>8, Calls
<1>6. CASE TestGotoDirect
  BY <1>1, <1>2, <1>6, DirectCalled
<1>7. CASE TestSetup \/ TestAsserts \/ TestDelegates
  <2>1. stack' = <<>>
    BY <1>1, <1>7 DEF TestSetup, TestAsserts, TestDelegates
  <2>2. CalledInv'
    BY <2>1 DEF CalledInv
  <2>3. /\ Seen.curr = curr /\ Seen.medeleg = medeleg /\ Seen.arg = arg
        /\ Seen.excpt = excpt /\ Seen.armed = armed
        /\ (Seen.curr)' = curr' /\ (Seen.medeleg)' = medeleg' /\ (Seen.arg)' = arg'
        /\ (Seen.excpt)' = excpt' /\ (Seen.armed)' = armed'
    BY <1>1, <2>1, SeenFacts, SeenNext
  <2>4. TestSetup => Service!Setup
    BY <1>2, <2>3 DEF TestSetup, Service!Setup
  <2>5. TestAsserts => Service!Asserts
    BY <1>2, <2>3 DEF TestAsserts, Service!Asserts
  <2>6. TestDelegates => Service!Delegates
    BY <1>1, <1>2, <2>3 DEF TestDelegates, Service!Delegates, HartMode, M, Service!M
  <2> QED
    BY <1>7, <2>2, <2>4, <2>5, <2>6 DEF Service!Next
<1>8. CASE TestFault
  <2>1. PICK c \in Faults : /\ excpt' = [excpt EXCEPT !.faultInst = (c \in InstFaults)]
                            /\ Trap(c, stack)
    BY <1>8 DEF TestFault
  <2>2. c \in Causes /\ armed /\ armed' /\ UNCHANGED <<medeleg, curr, arg>>
    BY <1>8, ConstantsAssumption DEF ConstantsAssumption, Causes, InstFaults, TestFault
  <2>3. excpt'.testing = excpt.testing
    BY <1>1, <2>1 DEF TypeOK
  <2> QED
    BY <1>1, <1>2, <2>1, <2>2, <2>3, TrapCalled
<1>9. CASE TestBareEcall
  <2>1. /\ curr = M /\ M \in BareEcalls /\ Trap(EcallCause, stack) /\ armed /\ ~armed'
        /\ UNCHANGED <<medeleg, curr, arg, excpt>>
    BY <1>9 DEF TestBareEcall, Respected
  <2>2. EcallCause = "ECM"
    BY <1>1, <2>1 DEF HartMode, EcallCause
  <2>3. "ECM" \in Causes
    BY DEF Causes, Ecalls
  <2> QED
    BY <1>1, <1>2, <2>1, <2>2, <2>3, TrapCalled
<1>10. CASE TestReset
  <2>1. /\ stack' = Push(stack, ResetFrame) /\ ~armed'
        /\ UNCHANGED <<medeleg, curr, real, arg, excpt>>
    BY <1>2, <1>10 DEF TestReset, Call
  <2>2. ResetFrame \in Frames /\ ResetFrame.fn = "reset" /\ ResetFrame.pc = "r0"
    BY FrameFacts DEF ResetFrame
  <2>3. Len(stack') = 1 /\ stack' # <<>> /\ stack'[1] = ResetFrame /\ ServesEcall'
    BY <1>1, <2>1, <2>2, FirstFrame
  <2>4. Untouched'
    BY <1>1, <1>3, <2>1 DEF Untouched
  <2>5. ResetCalled'
    BY <2>1, <2>2, <2>3, <2>4 DEF ResetCalled
  <2>6. CalledInv'
    BY <1>3, <1>4, <2>1, <2>2, <2>3, <2>5 DEF CalledInv, Handlers
  <2> QED
    BY <1>1, <1>2, <2>3, <2>6, Calls
<1>11. CASE TakeInterrupt
  <2>1. PICK c \in Irqs : ~Masked(c) /\ Trap(c, stack)
    BY <1>11 DEF TakeInterrupt
  <2>2. c \in Causes /\ UNCHANGED <<medeleg, curr, arg, excpt, armed>>
    BY <1>11, ConstantsAssumption DEF ConstantsAssumption, Causes, TakeInterrupt
  <2>3. ~(curr = M /\ c \in medeleg)
    BY <1>1, <2>1 DEF Masked, HartMode
  <2> QED
    BY <1>1, <1>2, <2>1, <2>2, <2>3, TrapCalled
<1> QED
  BY <1>5, <1>6, <1>7, <1>8, <1>9, <1>10, <1>11 DEF Test

-----------------------------------------------------------------------------
(***************************************************************************)
(* The theorems.                                                           *)
(***************************************************************************)
LEMMA Same ==
  ASSUME UNCHANGED vars, before' = before \/ before' = Seen
  PROVE  UNCHANGED Service!vars
<1>1. UNCHANGED <<stack, curr, medeleg, arg, excpt, armed, status>>
  BY DEF vars
<1>2. Seen' = Seen
  BY <1>1 DEF Seen, Snapshot
<1> QED
  BY <1>1, <1>2, Stutters

LEMMA SameCalled ==
  ASSUME CalledInv, UNCHANGED <<vars, before>>
  PROVE  CalledInv'
<1>1. UNCHANGED <<stack, curr, real, medeleg, arg, excpt, armed, status, before>>
  BY DEF vars
<1>2. \A t : Outcome(t)' = Outcome(t)
  BY <1>1 DEF Outcome, Service!Rises, Service!RiseRecord, Service!RiseArg, Service!Recorded
<1>3. Untouched' = Untouched /\ Below' = Below
  BY <1>1 DEF Untouched, Below
<1>4. \A j, t : SwitchAt(j, t)' = SwitchAt(j, t)
  BY <1>1, <1>2, <1>3, RecordsKept DEF SwitchAt
<1>5. GotoCalled' = GotoCalled /\ ResetCalled' = ResetCalled
  BY <1>1, <1>2, <1>3, <1>4 DEF GotoCalled, ResetCalled
<1>6. TestTrapped' = TestTrapped /\ ServesEcall' = ServesEcall
  BY <1>1 DEF TestTrapped, ServesEcall
<1> QED
  BY <1>1, <1>5, <1>6 DEF CalledInv

\* Every step is one of the service's or changes nothing that a test sees.
LEMMA StepServed ==
  ASSUME Respected, SoundBuild, CallsInv, OnlyUntestedStops, CalledInv, [HNext]_<<vars, before>>
  PROVE  CalledInv' /\ [Service!Next]_(Service!vars)
<1>1. CASE UNCHANGED <<vars, before>>
  BY <1>1, Same, SameCalled
<1>2. CASE HNext /\ status # "run"
  <2>1. Stopped /\ before' = Seen
    BY <1>2, StepsRun DEF HNext, Next, Harness
  <2>2. CalledInv'
    BY <2>1 DEF Stopped, CalledInv, vars
  <2> QED
    BY <2>1, <2>2, Same DEF Stopped
<1>3. CASE HNext /\ status = "run"
  <2>1. (Harness \/ Test \/ TakeInterrupt) /\ before' = Seen
    BY <1>3 DEF HNext, Next, Stopped
  <2> QED
    BY <1>3, <2>1, HarnessServed, TestServed
<1> QED
  BY <1>1, <1>2, <1>3

LEMMA InitServed == HInit => CalledInv /\ Service!Init
<1> SUFFICES ASSUME HInit PROVE CalledInv /\ Service!Init
  OBVIOUS
<1>1. /\ stack = <<>> /\ curr = M /\ medeleg = {"ECU"} /\ arg = None /\ armed = FALSE
      /\ status = "run"
      /\ excpt = [testing |-> FALSE, triggered |-> FALSE, priv |-> VU,
                  cause |-> "none", faultInst |-> FALSE]
  BY DEF HInit, Init
<1>2. CalledInv
  BY <1>1 DEF CalledInv
<1>3. Service!Init
  BY <1>1, SeenFacts DEF Service!Init, Service!M, Service!None, Service!VU, M, None, VU
<1> QED
  BY <1>2, <1>3

\* Whatever a test that respects the conditions does, in a build that keeps a0 and has room
\* for six frames, it cannot tell the harness' interleaved switches, traps, handlers and
\* resets from the atomic calls of HarnessService: each call ends with the level, the
\* delegation, the request and the exception record that the service promises, and nothing
\* but an exception that no test announced ends the program.
THEOREM ServiceImplemented == Respected /\ SoundBuild => (HSpec => ImplementsService)
<1> SUFFICES ASSUME Respected, SoundBuild PROVE HSpec => ImplementsService
  OBVIOUS
<1>1. HSpec => Spec
  <2>1. HInit => Init
    BY DEF HInit
  <2>2. [HNext]_<<vars, before>> => [Next]_vars
    BY DEF HNext
  <2> QED
    BY <2>1, <2>2, PTL DEF HSpec, Spec
<1>2. Spec => []CallsInv
  BY CallsInvariance
<1>3. Spec => []OnlyUntestedStops
  BY UntestedOnly
<1>4. HInit => CalledInv /\ Service!Init
  BY InitServed
<1>5. CallsInv /\ OnlyUntestedStops /\ CalledInv /\ [HNext]_<<vars, before>> =>
        CalledInv' /\ [Service!Next]_(Service!vars)
  BY StepServed
<1> QED
  BY <1>1, <1>2, <1>3, <1>4, <1>5, PTL DEF HSpec, ImplementsService, Service!Spec
==============================================================================
