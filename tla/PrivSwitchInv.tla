----------------------------- MODULE PrivSwitchInv -----------------------------
(***************************************************************************)
(* The inductive invariant behind PrivSwitch's properties, and the         *)
(* conditions on a test under which it holds.  PrivSwitchProofs proves it  *)
(* inductive; the runs of MCPrivSwitch check it on small instances.        *)
(***************************************************************************)
EXTENDS PrivSwitch

(***************************************************************************)
(* What a test and its environment must respect: the supported switches,   *)
(* delegations that keep the U-mode ecall and no S-mode ecall with the     *)
(* S-level handler, interrupts only while test code runs, and bare ecalls  *)
(* only in M mode.                                                         *)
(***************************************************************************)
Unsupported == {<<VS, HS>>, <<VS, HU>>, <<VU, VS>>, <<HU, VS>>}

Respected ==
  /\ Switches \cap Unsupported = {}
  /\ \A d \in Delegs : "ECU" \in d /\ "ECS" \notin d
  /\ IrqPoints \subseteq {"test"}
  /\ BareEcalls \subseteq {M}

(***************************************************************************)
(* The inductive invariant.  Link says which frame may run on top of which *)
(* waiting frame; TopInv relates the running frame to curr_priv, real_priv *)
(* and ecall_args.                                                         *)
(***************************************************************************)
Link(f, g, a) ==
  \/ f.fn = "goto" /\ f.pc = "toM" /\ IsUser(f.to) /\ g.fn = "goto" /\ g.to = M
  \/ f.fn = "goto" /\ f.pc = "viaHS" /\ f.to = M /\ g.fn = "goto" /\ g.to = HS
  \/ /\ f.fn = "goto" /\ f.pc = "fromHS" /\ f.to = M
     /\ g.fn = "goto" /\ g.to = M /\ g.pc \notin {"viaHS", "fromHS"}
  \/ /\ f.fn = "goto" /\ f.pc = "ecall" /\ f.to = a
     /\ g.fn \in Handlers /\ g.cause \in {"ECU", "ECS"} /\ (g.fn = "mhandler" => a = M)
  \/ f.fn \in Handlers /\ f.pc = "h1" /\ f.cause \in Ecalls /\ g.fn = "goto" /\ g.to = a
  \/ f.fn = "reset" /\ f.pc = "r1" /\ g.fn = "goto" /\ g.to = M

\* The frames of a control stack s while ecall_args asks for a: every frame was
\* called by the one below, only the bottom one can be reset_state or a switch
\* between user levels, and a handler at the bottom that makes a switch serves
\* a bare ecall of M mode.
Shape(s, a) ==
  /\ \A i \in 1..(Len(s) - 1) : Link(s[i], s[i+1], a)
  /\ \A i \in 2..Len(s) : s[i].fn # "reset" /\ s[i].pc # "toM"
  /\ Len(s) > 1 /\ s[1].fn \in Handlers => s[1].fn = "mhandler" /\ a = M

Arrived(t) == curr = t /\ real = t

UnderHandler(k) == Len(stack) > k /\ stack[Len(stack) - k].fn \in Handlers
UnderVia        == Len(stack) > 1 /\ stack[Len(stack) - 1].pc = "viaHS"
UnderFrom       == Len(stack) > 1 /\ stack[Len(stack) - 1].pc = "fromHS"

Switchable(t) ==
  \/ curr = real /\ <<curr, t>> \notin Unsupported
  \/ real = HS /\ IsUser(curr) /\ t \in {HS, M}
  \/ real = M /\ t = M /\ arg = M

AboutToSwitch(t) ==
  /\ Switchable(t)
  /\ UnderHandler(1) => real \in {HS, M}
  /\ UnderVia /\ UnderHandler(2) => real = HS
  /\ UnderFrom => curr = HS /\ real = HS

LevelOf(f) == IF f.fn = "mhandler" THEN M ELSE HS

GotoTop(f) ==
  /\ f.pc # "ecall"
  /\ f.pc = "g0" => AboutToSwitch(f.to)
  /\ f.pc = "toM" => Arrived(M) /\ IsUser(f.to)
  /\ f.pc = "viaHS" => Arrived(HS) /\ f.to = M
  /\ f.pc = "fromHS" => Arrived(M) /\ f.to = M
  /\ f.pc = "ret" => Arrived(f.to)
  /\ f.pc = "window" => real = f.to /\ f.to # M

HandlerTop(f) ==
  /\ Len(stack) > 1 =>
       /\ f.cause \in {"ECU", "ECS"}
       /\ f.pc = "h0" => \/ f.fn = "mhandler" /\ arg = M
                         \/ f.fn = "hshandler" /\ IsUser(curr) /\ arg \in {HS, M}
  /\ Len(stack) = 1 =>
       /\ f.cause \in Ecalls => f.fn = "mhandler" /\ curr = M
       /\ f.fn = "hshandler" => curr # M
  /\ f.pc = "h0" => real = LevelOf(f)
  /\ f.pc = "h1" => IF f.cause \in Ecalls /\ arg # None
                    THEN Arrived(arg) ELSE real = LevelOf(f)

ResetTop(f) ==
  /\ f.pc = "r0" => curr = real
  /\ f.pc = "r1" => Arrived(M)

TopInv ==
  /\ stack = <<>> => curr = real
  /\ stack # <<>> =>
       /\ Last(stack).fn = "goto" => GotoTop(Last(stack))
       /\ Last(stack).fn \in Handlers => HandlerTop(Last(stack))
       /\ Last(stack).fn = "reset" => ResetTop(Last(stack))

ArgInv == arg \in {None, HS, M} /\ (curr = M => arg \in {None, M})

DelegInv == "ECU" \in medeleg /\ "ECS" \notin medeleg

RunInv ==
  /\ mode = HartMode(real)
  /\ DelegInv
  /\ ArgInv
  /\ Shape(stack, arg)
  /\ TopInv

\* While the program runs, every frame of the control stack finds curr_priv,
\* real_priv, ecall_args and medeleg as the code that resumes there expects them.
IInv == TypeOK /\ (status = "run" => RunInv)

(***************************************************************************)
(* What the properties about the ways to stop and to switch need besides.  *)
(***************************************************************************)
\* The frames goto_priv(t) may still put above its own: a rise is an ecall, whose
\* handler calls goto_priv again.
Above(t) ==
  IF IsUser(t) /\ IsUser(curr) THEN 5
  ELSE IF real = t \/ t <= curr THEN 0
  ELSE IF t # M THEN 2
  ELSE IF real = VU THEN 4
  ELSE IF curr = HU THEN 3 ELSE 2

\* The deepest nesting is that of a switch between user levels that starts in VU.
MaxNesting == 6

\* Every frame has room for what the running one may call.
RoomInv ==
  /\ Len(stack) <= MaxNesting
  /\ \A i \in DOMAIN stack : stack[i].pc = "viaHS" => i <= 3
  /\ stack # <<>> =>
       /\ Last(stack).fn = "goto" /\ Last(stack).pc = "g0" =>
            Len(stack) + Above(Last(stack).to) <= MaxNesting
       /\ Last(stack).fn \in Handlers /\ Last(stack).pc = "h0" /\ arg # None
            /\ Last(stack).cause \in Ecalls =>
            Len(stack) + 1 + Above(arg) <= MaxNesting

\* The handler of a bare ecall finds the level that ecall_args asks for.
BareInv ==
  Len(stack) > 1 /\ stack[1].fn \in Handlers =>
    Len(stack) = 2 /\ stack[2].fn = "goto" /\ stack[2].pc = "g0" /\ Arrived(M)

\* A handler about to skip a faulting fetch has the return address of TEST_EXEC_EXCEPT.
AddressInv ==
  stack # <<>> /\ Last(stack).fn \in Handlers /\ Last(stack).cause \in InstFaults =>
    excpt.faultInst

NestInv == RoomInv /\ BareInv /\ AddressInv

\* The whole inductive invariant of a program that respects the conditions
CallsInv == IInv /\ (status = "run" => NestInv)

(***************************************************************************)
(* What holds of every test, also of one that switches where it must not:  *)
(* the calls of goto_priv and of the handlers it serves nest as the code   *)
(* says, and each of them finds what the call above it was made for.  A    *)
(* handler of a fault or an interrupt calls nothing and changes neither    *)
(* curr_priv nor ecall_args, so that it may come on top of anything.       *)
(***************************************************************************)
Quiet(f) == f.fn \in Handlers /\ f.cause \notin Ecalls

\* The frame g may be on top of the waiting frame f.
MayCall(f, g) ==
  \/ f.fn = "goto" /\ f.pc = "ecall" /\ g.fn \in Handlers /\ g.cause \in Ecalls
  \/ f.fn = "goto" /\ f.pc \in {"toM", "fromHS"} /\ g.fn = "goto" /\ g.to = M
  \/ f.fn = "goto" /\ f.pc = "viaHS" /\ g.fn = "goto"
  \/ f.fn \in Handlers /\ f.cause \in Ecalls /\ f.pc = "h1" /\ g.fn = "goto"
  \/ f.fn = "reset" /\ g.fn = "goto"

\* The frame i + 1 of s is an interrupt's or one that the frame i calls; the handler of
\* an ecall switches to the level that the goto_priv it interrupted switches to.
Follows(s, i) ==
  \/ Quiet(s[i + 1]) /\ s[i + 1].cause \in Interrupts
  \/ /\ MayCall(s[i], s[i + 1])
     /\ s[i].fn \in Handlers /\ i > 1 => s[i + 1].to = s[i - 1].to

\* What the frame i of s finds in curr_priv (c) and ecall_args (a) when it goes on
Finds(s, i, c, a) ==
  /\ s[i].fn = "goto" /\ s[i].pc = "toM" => c = M
  /\ s[i].fn = "goto" /\ s[i].pc \in {"fromHS", "ret"} => c = s[i].to
  /\ s[i].fn \in Handlers /\ i > 1 =>
       /\ s[i].pc = "h0" => a = s[i - 1].to
       /\ s[i].pc = "h1" => c = s[i - 1].to

Course(s, c, a) ==
  /\ \A i \in 1..(Len(s) - 1) : Follows(s, i)
  /\ \A i \in 1..Len(s) :
       /\ i > 1 => s[i].fn # "reset"
       /\ s[i].pc \in {"viaHS", "fromHS"} => s[i].to = M
  /\ \A i, j \in 1..Len(s) : i < j /\ Quiet(s[i]) => Quiet(s[j])
  /\ \A i \in 1..Len(s) :
       ~Quiet(s[i]) /\ (i < Len(s) => Quiet(s[i + 1])) => Finds(s, i, c, a)

\* Whatever a test does: goto_priv, the handlers it enters and reset_state nest as the
\* code calls them, a call that returns leaves curr_priv where its caller goes on from,
\* and the handler of an ecall still finds the request that ecall made.
CourseInv == Course(stack, curr, arg)

(***************************************************************************)
(* Without interrupts and with the switches outside TEST_SETUP_EXCEPT and  *)
(* its fault, an announcement is used up by the exception it was made for, *)
(* and no exception comes unannounced.  A waiting handler is past its test *)
(* of excpt.testing.                                                       *)
(***************************************************************************)
Undisturbed == Irqs = {} /\ ~SetupAcrossGoto

OneHandler(pcs) == Len(stack) = 1 /\ stack[1].fn \in Handlers /\ stack[1].pc \in pcs

AnnouncedInv ==
  status = "run" =>
    /\ \A i \in 1..(Len(stack) - 1) : stack[i].pc # "h0"
    /\ armed => /\ excpt.testing /\ ~excpt.triggered
                /\ stack # <<>> => OneHandler(HandlerPcs) /\ stack[1].cause \in Faults
    /\ OneHandler({"h0"}) => excpt.testing

\* Enough room on the trap stack, and a build that keeps a0 to the end of the handlers
SoundBuild == MaxDepth >= MaxNesting /\ ~A0Lost
===============================================================================
