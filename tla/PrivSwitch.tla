------------------------------ MODULE PrivSwitch ------------------------------
(***************************************************************************)
(* The privilege-switching core of the harness: goto_priv, lower_priv,     *)
(* ecall, reset_state, mhandler and hshandler of rvh_test.c, running on    *)
(* one hart without the H extension, which has no MPV and no hstatus: the  *)
(* "VS"/"VU" levels of the framework run in the S and U modes.             *)
(*                                                                         *)
(* The C control stack is a sequence of frames, the last one running; the  *)
(* empty stack is the test function itself.  A trap pushes a handler frame *)
(* on whatever code it interrupts, and the xret that ends the handler pops *)
(* it.  What curr_priv, real_priv and the hart's mode say may disagree in  *)
(* between, which is what this module is about.                            *)
(***************************************************************************)
EXTENDS Integers, SequencesExt

CONSTANTS
  Switches,     \* the <<from, to>> pairs of goto_priv calls a test may make
  Delegs,       \* the values a test may write to medeleg
  Faults,       \* the exceptions a test may provoke on purpose
  Irqs,         \* the interrupts that may become pending
  IrqPoints,    \* where they may be taken: in "test" code, in a "goto", in a "handler"
  SetupAcrossGoto, \* whether a test switches levels between TEST_SETUP_EXCEPT and the fault
  BareEcalls,   \* the levels at which a test executes ecall without setting ecall_args
  A0Lost,       \* whether the build may lose a0 in the handlers' missing return
  MaxDepth      \* how many frames the trap stack has room for

VU == 0     \* enum priv
HU == 1
VS == 2
HS == 3
M  == 4
Priv == VU..M
None == -1  \* ecall_args before the first ecall

Modes      == {"U", "S", "M"}
Ecalls     == {"ECU", "ECS", "ECM"}
InstFaults == {"INST"}
Interrupts == {"MEI", "SSI"}
Causes     == Ecalls \union InstFaults \union Interrupts \union {"ILI", "DATA"}

ASSUME ConstantsAssumption ==
  /\ Switches \subseteq Priv \X Priv
  /\ \A d \in Delegs : d \subseteq Causes \ {"ECM", "MEI"}
  /\ Faults \subseteq {"ILI", "DATA", "INST"}
  /\ Irqs \subseteq Interrupts
  /\ IrqPoints \subseteq {"test", "goto", "handler"}
  /\ SetupAcrossGoto \in BOOLEAN
  /\ BareEcalls \subseteq Priv
  /\ A0Lost \in BOOLEAN
  /\ MaxDepth \in Nat \ {0}

VARIABLES
  stack,      \* the C control stack above the test function
  mode,       \* the hart's privilege mode
  spp,        \* sstatus.SPP
  medeleg,    \* the causes medeleg and mideleg hand to the S-level handler
  curr,       \* curr_priv
  real,       \* real_priv
  arg,        \* ecall_args[1], or None while ecall_args[0] is not ECALL_GOTO_PRIV
  excpt,      \* struct exception excpt
  armed,      \* auxiliary: a fault set up with TEST_SETUP_EXCEPT is still to come
  status      \* "run", or why the program stopped

vars == <<stack, mode, spp, medeleg, curr, real, arg, excpt, armed, status>>

(***************************************************************************)
(* Frames.                                                                 *)
(***************************************************************************)
GotoPcs    == {"g0", "toM", "viaHS", "fromHS", "ecall", "ret", "window"}
HandlerPcs == {"h0", "h1"}
ResetPcs   == {"r0", "r1"}

GotoFrame(t)    == [fn |-> "goto", pc |-> "g0", to |-> t, cause |-> "none"]
HandlerFrame(level, c) ==
  [fn |-> IF level = "M" THEN "mhandler" ELSE "hshandler",
   pc |-> "h0", to |-> None, cause |-> c]
ResetFrame      == [fn |-> "reset", pc |-> "r0", to |-> M, cause |-> "none"]

Frames ==
  [fn : {"goto"}, pc : GotoPcs, to : Priv, cause : {"none"}]
    \union [fn : {"mhandler", "hshandler"}, pc : HandlerPcs, to : {None}, cause : Causes]
    \union [fn : {"reset"}, pc : ResetPcs, to : {M}, cause : {"none"}]

Handlers == {"mhandler", "hshandler"}

HartMode(p) == IF p = M THEN "M" ELSE IF p \in {VS, HS} THEN "S" ELSE "U"

IsUser(p) == p \in {VU, HU}

\* The mode's rank, to compare with what a CSR access or an xret needs.
Rank(m) == IF m = "M" THEN 3 ELSE IF m = "S" THEN 1 ELSE 0

Running(fn, pc) ==
  /\ status = "run"
  /\ stack # <<>>
  /\ Last(stack).fn = fn
  /\ Last(stack).pc = pc

InTest == status = "run" /\ stack = <<>>

\* The running frame goes on at pc.
Goes(f, pc) == [fn |-> f.fn, pc |-> pc, to |-> f.to, cause |-> f.cause]
At(s, pc)   == Append(Front(s), Goes(Last(s), pc))

Push(s, f) == Append(s, f)

Stop(why) ==
  /\ status' = why
  /\ UNCHANGED <<stack, mode, spp, medeleg, curr, real, arg, excpt, armed>>

(***************************************************************************)
(* The hart takes a trap: the mode rises to the level medeleg selects, the *)
(* interrupted mode is kept in SPP, the entry stub pushes a context on the *)
(* C stack, and the first statement of the handler sets real_priv.         *)
(***************************************************************************)
Level(c) == IF c \in medeleg /\ mode # "M" THEN "S" ELSE "M"

Trap(c, s) ==
  IF Len(s) >= MaxDepth
  THEN /\ status' = "stack exhausted"
       /\ UNCHANGED <<stack, mode, spp, real>>
  ELSE /\ stack' = Push(s, HandlerFrame(Level(c), c))
       /\ mode' = Level(c)
       /\ spp' = IF Level(c) = "S" THEN mode ELSE spp
       /\ real' = IF Level(c) = "M" THEN M ELSE HS
       /\ UNCHANGED status

Call(s, f) ==
  IF Len(s) >= MaxDepth
  THEN status' = "stack exhausted" /\ UNCHANGED stack
  ELSE stack' = Push(s, f) /\ UNCHANGED status

EcallCause == CASE mode = "U" -> "ECU" [] mode = "S" -> "ECS" [] mode = "M" -> "ECM"

(***************************************************************************)
(* goto_priv.                                                              *)
(***************************************************************************)
Target == Last(stack).to

\* Between two user levels the switch goes through M first.
GotoUserToUser ==
  /\ Running("goto", "g0")
  /\ IsUser(Target) /\ IsUser(curr)
  /\ Call(At(stack, "toM"), GotoFrame(M))
  /\ UNCHANGED <<mode, spp, medeleg, curr, real, arg, excpt, armed>>

\* Mutated form: no detour through M between two user levels.
BadDeciding == Running("goto", "g0") \/ Running("goto", "toM")

\* Control is past the user-to-user detour.
Deciding ==
  \/ Running("goto", "g0") /\ ~(IsUser(Target) /\ IsUser(curr))
  \/ Running("goto", "toM")

GotoArrived ==
  /\ Deciding
  /\ real = Target
  /\ curr' = Target
  /\ stack' = Front(stack)
  /\ UNCHANGED <<mode, spp, medeleg, real, arg, excpt, armed, status>>

\* From HU the switch to M is made of two, HU to HS and HS to M.
GotoRaiseViaHS ==
  /\ Deciding
  /\ real # Target
  /\ Target = M /\ curr = HU
  /\ Call(At(stack, "viaHS"), GotoFrame(HS))
  /\ UNCHANGED <<mode, spp, medeleg, curr, real, arg, excpt, armed>>

\* Mutated form: the second hop of HU to M is forgotten.
BadGotoSecondHop ==
  /\ Running("goto", "viaHS")
  /\ stack' = Front(stack)
  /\ UNCHANGED <<mode, spp, medeleg, curr, real, arg, excpt, armed, status>>

GotoSecondHop ==
  /\ Running("goto", "viaHS")
  /\ Call(At(stack, "fromHS"), GotoFrame(M))
  /\ UNCHANGED <<mode, spp, medeleg, curr, real, arg, excpt, armed>>

\* ecall(ECALL_GOTO_PRIV, target): the handler's side does the switch.
GotoEcall ==
  /\ Deciding
  /\ real # Target
  /\ Target > curr /\ ~(Target = M /\ curr = HU)
  /\ arg' = Target
  /\ Trap(EcallCause, At(stack, "ecall"))
  /\ UNCHANGED <<medeleg, curr, excpt, armed>>

(***************************************************************************)
(* lower_priv and set_prev_priv: the ERROR branches in their order, then   *)
(* the xPP write, real_priv and the xret.  The assignment to curr_priv     *)
(* comes after the xret, in a step of its own.                             *)
(***************************************************************************)
LowerRefusal(t) ==
  CASE t > curr               -> "lower to a higher priv"
    [] curr = VS /\ t = HU    -> "vs to hu"
    [] curr \in {VU, HU}      -> "unknown current priv"
    [] Rank(mode) < Rank(HartMode(curr)) -> "harness illegal instruction"
    [] OTHER                  -> "none"

Lowering == Deciding /\ real # Target /\ Target <= curr

GotoLowerNothing ==
  /\ Lowering
  /\ Target = curr
  /\ stack' = Front(stack)
  /\ UNCHANGED <<mode, spp, medeleg, curr, real, arg, excpt, armed, status>>

GotoLowerRefused ==
  /\ Lowering
  /\ Target # curr
  /\ LowerRefusal(Target) # "none"
  /\ Stop(LowerRefusal(Target))

\* sstatus.SPP as set_prev_priv leaves it before an sret
PrevPriv(t) == IF curr = HS /\ t \in {HS, VS} THEN "S" ELSE "U"

\* Mutated form: lower_priv does not set real_priv.
BadGotoLower ==
  /\ Lowering
  /\ Target # curr
  /\ LowerRefusal(Target) = "none"
  /\ mode' = IF curr = M THEN HartMode(Target) ELSE PrevPriv(Target)
  /\ spp' = IF curr = M THEN spp ELSE "U"
  /\ stack' = At(stack, "window")
  /\ UNCHANGED <<medeleg, curr, real, arg, excpt, armed, status>>

GotoLower ==
  /\ Lowering
  /\ Target # curr
  /\ LowerRefusal(Target) = "none"
  /\ real' = Target
  /\ mode' = IF curr = M THEN HartMode(Target) ELSE PrevPriv(Target)
  /\ spp' = IF curr = M THEN spp ELSE "U"
  /\ stack' = At(stack, "window")
  /\ UNCHANGED <<medeleg, curr, arg, excpt, armed, status>>

\* Mutated form: lower_priv ends without curr_priv = priv.
BadGotoLowered ==
  /\ Running("goto", "window")
  /\ stack' = Front(stack)
  /\ UNCHANGED <<mode, spp, medeleg, curr, real, arg, excpt, armed, status>>

GotoLowered ==
  /\ Running("goto", "window")
  /\ curr' = Target
  /\ stack' = Front(stack)
  /\ UNCHANGED <<mode, spp, medeleg, real, arg, excpt, armed, status>>

GotoReturn ==
  /\ Running("goto", "fromHS") \/ Running("goto", "ret")
  /\ stack' = Front(stack)
  /\ UNCHANGED <<mode, spp, medeleg, curr, real, arg, excpt, armed, status>>

(***************************************************************************)
(* mhandler and hshandler.                                                 *)
(***************************************************************************)
Handling(pc) == \E h \in Handlers : Running(h, pc)

Cause == Last(stack).cause

\* Mutated form: the handler obeys ecall_args whatever the cause.
BadHandlerServesGoto ==
  /\ Handling("h0")
  /\ arg # None
  /\ Call(At(stack, "h1"), GotoFrame(arg))
  /\ UNCHANGED <<mode, spp, medeleg, curr, real, arg, excpt, armed>>

HandlerServesGoto ==
  /\ Handling("h0")
  /\ Cause \in Ecalls /\ arg # None
  /\ Call(At(stack, "h1"), GotoFrame(arg))
  /\ UNCHANGED <<mode, spp, medeleg, curr, real, arg, excpt, armed>>

HandlerRejects ==
  /\ Handling("h0")
  /\ ~(Cause \in Ecalls /\ arg # None)
  /\ \/ /\ Running("hshandler", "h0") /\ Cause \in Ecalls
        /\ Stop("unknown ecall")
     \/ /\ ~(Running("hshandler", "h0") /\ Cause \in Ecalls)
        /\ ~excpt.testing
        /\ Stop("untested exception")

HandlerAccepts ==
  /\ Handling("h0")
  /\ ~(Cause \in Ecalls /\ arg # None)
  /\ ~(Running("hshandler", "h0") /\ Cause \in Ecalls)
  /\ excpt.testing
  /\ stack' = At(stack, "h1")
  /\ UNCHANGED <<mode, spp, medeleg, curr, real, arg, excpt, armed, status>>

\* The handler's own CSR accesses, the record of an instruction fault, and the
\* a0 test of _return in handlers.S.
HandlerRefusal(h) ==
  CASE Rank(mode) < (IF h = "mhandler" THEN 3 ELSE 1) -> "harness illegal instruction"
    [] Cause \in InstFaults /\ ~excpt.faultInst       -> "no return address"
    [] real = M /\ mode # "M"                         -> "harness illegal instruction"
    [] OTHER -> "none"

\* The frame an exception interrupted goes on after the faulting instruction,
\* which for a goto is the ecall.
Resume(s, advance) ==
  IF s # <<>> /\ advance /\ Last(s).pc = "ecall" THEN At(s, "ret") ELSE s

Advances == Cause \notin Interrupts /\ real \in {M, HS}

\* return_from_exception(real, curr): mret goes where the MPP it wrote says,
\* sret where SPP says, which is not written when real is neither M nor HS.
ReturnMode ==
  IF real = M THEN HartMode(curr)
  ELSE IF real = HS THEN (IF curr \in {VS, HS} THEN "S" ELSE "U")
  ELSE spp

HandlerFails ==
  /\ \E h \in Handlers : Running(h, "h1") /\ HandlerRefusal(h) # "none"
                         /\ Stop(HandlerRefusal(h))

\* Mutated form: the record leaves excpt.testing set.
BadHandlerReturns ==
  /\ \E h \in Handlers :
       /\ Running(h, "h1")
       /\ HandlerRefusal(h) = "none"
       /\ excpt' = [excpt EXCEPT !.triggered = TRUE, !.cause = Cause, !.faultInst = FALSE,
                               !.priv = IF h = "mhandler" THEN M ELSE HS]
       /\ armed' = (armed /\ ~(Cause \in Faults))
       /\ real' = curr
       /\ mode' = ReturnMode
       /\ spp' = IF real = M THEN spp ELSE "U"
       /\ stack' = Resume(Front(stack), Advances)
       /\ UNCHANGED <<medeleg, curr, arg, status>>

\* Mutated form: real_priv becomes the level last asked for.
BadHandlerReturnsTo ==
  /\ \E h \in Handlers :
       /\ Running(h, "h1")
       /\ HandlerRefusal(h) = "none"
       /\ excpt' = [testing |-> FALSE, triggered |-> TRUE,
                    priv |-> IF h = "mhandler" THEN M ELSE HS,
                    cause |-> Cause, faultInst |-> FALSE]
       /\ armed' = (armed /\ ~(Cause \in Faults))
       /\ real' = arg
       /\ mode' = ReturnMode
       /\ spp' = IF real = M THEN spp ELSE "U"
       /\ stack' = Resume(Front(stack), Advances)
       /\ UNCHANGED <<medeleg, curr, arg, status>>

HandlerReturns ==
  /\ \E h \in Handlers :
       /\ Running(h, "h1")
       /\ HandlerRefusal(h) = "none"
       /\ excpt' = [testing |-> FALSE, triggered |-> TRUE,
                    priv |-> IF h = "mhandler" THEN M ELSE HS,
                    cause |-> Cause, faultInst |-> FALSE]
       /\ armed' = (armed /\ ~(Cause \in Faults))
       /\ real' = curr
       /\ mode' = ReturnMode
       /\ spp' = IF real = M THEN spp ELSE "U"
       /\ stack' = Resume(Front(stack), Advances)
       /\ UNCHANGED <<medeleg, curr, arg, status>>

\* mhandler and hshandler end without a return statement: when the build does
\* not leave return_from_exception's value in a0, _return takes the other xret,
\* to an address its own level never wrote.
HandlerReturnsWild ==
  /\ A0Lost
  /\ \E h \in Handlers : Running(h, "h1") /\ HandlerRefusal(h) = "none"
  /\ Stop("wild return")

(***************************************************************************)
(* reset_state.                                                            *)
(***************************************************************************)
ResetGoto ==
  /\ Running("reset", "r0")
  /\ Call(At(stack, "r1"), GotoFrame(M))
  /\ UNCHANGED <<mode, spp, medeleg, curr, real, arg, excpt, armed>>

ResetFails ==
  /\ Running("reset", "r1")
  /\ mode # "M"
  /\ Stop("harness illegal instruction")

\* Mutated forms: reset_state does not delegate the U-mode ecall again, or does
\* not clear medeleg before it does.
BadResetUndelegated ==
  /\ Running("reset", "r1")
  /\ mode = "M"
  /\ medeleg' = {}
  /\ spp' = "U"
  /\ stack' = Front(stack)
  /\ UNCHANGED <<mode, curr, real, arg, excpt, armed, status>>

BadResetKeepsDelegation ==
  /\ Running("reset", "r1")
  /\ mode = "M"
  /\ medeleg' = medeleg \union {"ECU"}
  /\ spp' = "U"
  /\ stack' = Front(stack)
  /\ UNCHANGED <<mode, curr, real, arg, excpt, armed, status>>

ResetCsrs ==
  /\ Running("reset", "r1")
  /\ mode = "M"
  /\ medeleg' = {"ECU"}
  /\ spp' = "U"
  /\ stack' = Front(stack)
  /\ UNCHANGED <<mode, curr, real, arg, excpt, armed, status>>

(***************************************************************************)
(* What a test function does between the harness' operations.              *)
(***************************************************************************)
MaySwitch == InTest /\ (armed => SetupAcrossGoto)

TestGoto ==
  /\ MaySwitch
  /\ \E t \in Priv : <<curr, t>> \in Switches /\ Call(stack, GotoFrame(t))
  /\ UNCHANGED <<mode, spp, medeleg, curr, real, arg, excpt, armed>>

\* goto_priv_u_to_m_direct
TestGotoDirect ==
  /\ MaySwitch
  /\ curr = HU /\ <<HU, M>> \in Switches
  /\ arg' = M
  /\ Trap(EcallCause, <<Goes(GotoFrame(M), "ecall")>>)
  /\ UNCHANGED <<medeleg, curr, excpt, armed>>

\* TEST_SETUP_EXCEPT
TestSetup ==
  /\ InTest
  /\ excpt' = [excpt EXCEPT !.testing = TRUE, !.triggered = FALSE, !.faultInst = FALSE]
  /\ armed' = TRUE
  /\ UNCHANGED <<stack, mode, spp, medeleg, curr, real, arg, status>>

\* The faulting access of a test; TEST_EXEC_EXCEPT stores its return address first.
TestFault ==
  /\ InTest
  /\ armed
  /\ \E c \in Faults :
       /\ excpt' = [excpt EXCEPT !.faultInst = (c \in InstFaults)]
       /\ Trap(c, stack)
  /\ UNCHANGED <<medeleg, curr, arg, armed>>

\* ecall_code(): the exception a test announced is an ecall of its own.
TestBareEcall ==
  /\ InTest
  /\ armed
  /\ curr \in BareEcalls
  /\ armed' = FALSE
  /\ Trap(EcallCause, stack)
  /\ UNCHANGED <<medeleg, curr, arg, excpt>>

TestDelegates ==
  /\ InTest
  /\ mode = "M"
  /\ medeleg' \in Delegs
  /\ UNCHANGED <<stack, mode, spp, curr, real, arg, excpt, armed, status>>

\* TEST_END, and main between two tests
TestReset ==
  /\ InTest
  /\ Call(stack, ResetFrame)
  /\ armed' = FALSE
  /\ UNCHANGED <<mode, spp, medeleg, curr, real, arg, excpt>>

\* TEST_ASSERT on excpt.triggered: the test no longer waits for the fault.
TestAsserts ==
  /\ InTest
  /\ armed
  /\ armed' = FALSE
  /\ UNCHANGED <<stack, mode, spp, medeleg, curr, real, arg, excpt, status>>

(***************************************************************************)
(* An interrupt is taken between two instructions.  A handler entered at a *)
(* level runs with that level's interrupts off.                            *)
(***************************************************************************)
IrqPoint ==
  IF stack = <<>> THEN "test"
  ELSE IF Last(stack).fn \in Handlers THEN "handler" ELSE "goto"

Masked(c) ==
  \/ mode = "M" /\ c \in medeleg
  \/ \E i \in DOMAIN stack :
       \/ stack[i].fn = "mhandler" /\ mode = "M"
       \/ stack[i].fn = "hshandler" /\ mode = "S" /\ Level(c) = "S"

TakeInterrupt ==
  /\ status = "run"
  /\ IrqPoint \in IrqPoints
  /\ \E c \in Irqs : ~Masked(c) /\ Trap(c, stack)
  /\ UNCHANGED <<medeleg, curr, arg, excpt, armed>>

Stopped == status # "run" /\ UNCHANGED vars

-----------------------------------------------------------------------------
Init ==
  /\ stack = <<>>
  /\ mode = "M"
  /\ spp = "U"
  /\ medeleg = {"ECU"}
  /\ curr = M
  /\ real = M
  /\ arg = None
  /\ excpt = [testing |-> FALSE, triggered |-> FALSE, priv |-> VU,
              cause |-> "none", faultInst |-> FALSE]
  /\ armed = FALSE
  /\ status = "run"

Goto ==
  \/ GotoUserToUser \/ GotoArrived \/ GotoRaiseViaHS \/ GotoSecondHop
  \/ GotoEcall \/ GotoLowerNothing \/ GotoLowerRefused \/ GotoLower
  \/ GotoLowered \/ GotoReturn

Handler ==
  \/ HandlerServesGoto \/ HandlerRejects \/ HandlerAccepts
  \/ HandlerFails \/ HandlerReturns \/ HandlerReturnsWild

Reset == ResetGoto \/ ResetFails \/ ResetCsrs

\* What the hart executes once a test has called into the harness.
Harness == Goto \/ Handler \/ Reset

Test ==
  \/ TestGoto \/ TestGotoDirect \/ TestSetup \/ TestFault
  \/ TestBareEcall \/ TestDelegates \/ TestReset \/ TestAsserts

Next == Harness \/ Test \/ TakeInterrupt \/ Stopped

Spec == Init /\ [][Next]_vars

-----------------------------------------------------------------------------
(***************************************************************************)
(* Properties.                                                             *)
(***************************************************************************)
Statuses ==
  {"run", "stack exhausted", "lower to a higher priv", "vs to hu",
   "unknown current priv", "harness illegal instruction", "unknown ecall",
   "untested exception", "no return address", "wild return"}

\* Every variable keeps the type the code gives it.
TypeOK ==
  /\ stack \in Seq(Frames)
  /\ mode \in Modes
  /\ spp \in {"U", "S"}
  /\ medeleg \in SUBSET Causes
  /\ curr \in Priv
  /\ real \in Priv
  /\ arg \in Priv \union {None}
  /\ excpt \in [testing : BOOLEAN, triggered : BOOLEAN, priv : Priv,
                cause : Causes \union {"none"}, faultInst : BOOLEAN]
  /\ armed \in BOOLEAN
  /\ status \in Statuses

\* Test code runs at the level the harness says it does: when no harness code is
\* on the stack curr_priv and real_priv agree, and the hart is in their mode.
TestRunsWhereItThinks ==
  InTest => curr = real /\ mode = HartMode(curr)

\* real_priv follows the hart through every trap, xret and switch, also inside
\* the handlers, where curr_priv still names the interrupted level.
RealIsMode == status = "run" => mode = HartMode(real)

\* No ERROR branch of the harness is reached and its recursion stays within
\* the room of the trap stack.
NeverStops == status = "run"

\* Of the ERROR branches only mhandler's and hshandler's "untested exception!"
\* is reached.
OnlyUntestedStops == status \in {"run", "untested exception"}

\* The guards of lower_priv are redundant: no test, delegation or interrupt makes
\* goto_priv lower to a higher level or out of a user level.
LowerErrorsUnreachable ==
  status \notin {"lower to a higher priv", "unknown current priv"}

\* An ecall never asks for a user level, so that a handler never has to drop the
\* privilege it runs with.
EcallsAskForPrivilege == arg \notin {VU, HU}

\* _return leaves a handler with the xret of the level that was entered.
HandlersReturnAtTheirLevel == status # "wild return"

\* curr_priv changes only on behalf of a goto_priv the test (or reset_state)
\* called: no other trap leaves the test at another level.
OnlySwitchesSwitch ==
  [][curr' # curr => stack # <<>> /\ stack[1].fn \in {"goto", "reset"}]_vars

\* A switch to a level ends with the test running there.
SwitchArrives ==
  \A t \in Priv :
    (stack # <<>> /\ stack[1].fn = "goto" /\ stack[1].to = t)
      ~> (InTest /\ curr = t /\ mode = HartMode(t))

\* reset_state ends in M mode with only the U-mode ecall delegated, whatever
\* level and delegation the test left behind.
ResetArrives ==
  (stack # <<>> /\ stack[1].fn = "reset")
    ~> (InTest /\ curr = M /\ mode = "M" /\ medeleg = {"ECU"})

\* The hart keeps executing the harness' code; it owes a test nothing else.
FairSpec == Spec /\ WF_vars(Harness)
===============================================================================
