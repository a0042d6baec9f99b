-------------------------- MODULE PrivSwitchService --------------------------
(***************************************************************************)
(* PrivSwitch implements HarnessService.  While harness code is on the     *)
(* stack the service's state is the one the test left when it called, kept *)
(* in the history variable before; it takes its step when the last frame   *)
(* returns to the test.                                                    *)
(***************************************************************************)
EXTENDS PrivSwitchInv

VARIABLE before

Snapshot == [curr |-> curr, medeleg |-> medeleg, arg |-> arg, excpt |-> excpt,
             armed |-> armed]

Seen == IF stack = <<>> THEN Snapshot ELSE before

HInit == Init /\ before = Snapshot
HNext == Next /\ before' = Seen
HSpec == HInit /\ [][HNext]_<<vars, before>>

Service == INSTANCE HarnessService WITH
  at <- Seen.curr, medeleg <- Seen.medeleg, arg <- Seen.arg,
  excpt <- Seen.excpt, armed <- Seen.armed, running <- (status = "run")

\* The interleaved switches, traps and handlers look to a test like the atomic
\* calls of HarnessService, with exactly the record each of them leaves in excpt.
ImplementsService == Service!Spec

-----------------------------------------------------------------------------
(***************************************************************************)
(* The invariant behind ImplementsService: how far each call of the test   *)
(* has come, in terms of what the test left when it made the call.         *)
(***************************************************************************)
Untouched == curr = before.curr /\ real = curr /\ arg = before.arg /\ excpt = before.excpt

\* The record and the request that a switch to t leaves
Outcome(t) ==
  /\ excpt = IF Service!Rises(before.curr, t) THEN Service!RiseRecord(before.curr, t)
             ELSE before.excpt
  /\ arg = IF Service!Rises(before.curr, t) THEN Service!RiseArg(t) ELSE before.arg

Below == IF IsUser(before.curr) THEN "hshandler" ELSE "mhandler"

\* The switch to t that the frame j of the stack makes for the test.  From HU to M
\* it has two hops, the second of which goes from HS to M.
SwitchAt(j, t) ==
  LET f == stack[j]
      n == Len(stack)
  IN  /\ f.fn = "goto" /\ f.to = t
      /\ f.pc # "toM"
      /\ f.pc = "g0" => n = j /\ Untouched
      /\ f.pc = "window" => Outcome(t)
      /\ f.pc \in {"viaHS", "fromHS"} => before.curr = HU
      /\ f.pc = "fromHS" =>
           /\ n = j => Outcome(M)
           /\ n > j => stack[j+1].pc \in {"g0", "ecall", "ret"}
           /\ n > j /\ stack[j+1].pc = "ret" =>
                n = j + 1 /\ excpt = Service!Recorded(M, "ECS") /\ arg = M
           /\ n > j + 1 => stack[j+2].fn = "mhandler"
      /\ f.pc \in {"ecall", "ret"} =>
           /\ t > before.curr
           /\ before.curr = HU /\ t = M => j = 1
      /\ f.pc = "ecall" => n > j /\ stack[j+1].fn = Below
      /\ f.pc = "ret" =>
           /\ n = j
           /\ excpt = IF IsUser(before.curr) THEN Service!Recorded(HS, "ECU")
                      ELSE Service!Recorded(M, "ECS")
           /\ arg = t

\* goto_priv, called by the test
GotoCalled ==
  LET t == stack[1].to
  IN  /\ armed = before.armed /\ (armed => SetupAcrossGoto)
      /\ <<before.curr, t>> \in Switches
      /\ stack[1].pc = "toM" =>
           /\ IsUser(t) /\ IsUser(before.curr)
           /\ IF Len(stack) = 1 THEN Outcome(t) ELSE SwitchAt(2, M)
      /\ stack[1].pc # "toM" => SwitchAt(1, t)

\* reset_state, called by the test
ResetCalled ==
  /\ ~armed
  /\ stack[1].pc = "r0" => Untouched
  /\ stack[1].pc = "r1" => IF Len(stack) = 1 THEN Outcome(M) ELSE SwitchAt(2, M)

\* The exception or interrupt that stopped the test
TestTrapped ==
  LET f == stack[1]
  IN  /\ curr = before.curr /\ arg = before.arg
      /\ f.fn = "hshandler" <=> f.cause \in medeleg /\ curr # M
      /\ excpt.testing = before.excpt.testing
      /\ excpt # before.excpt => f.cause \in Faults
      /\ f.pc = "h1" /\ f.cause # "ECM" => excpt.testing
      /\ \/ f.cause \in Faults /\ armed /\ before.armed
         \/ /\ f.cause \in Irqs /\ armed = before.armed
            /\ ~(curr = M /\ f.cause \in medeleg)
         \/ /\ f.cause = "ECM" /\ ~armed /\ before.armed
            /\ curr = M /\ M \in BareEcalls

\* Every handler above another frame serves the U-mode ecall at the S level or the
\* S-mode ecall in M mode.
ServesEcall ==
  \A i \in 2..Len(stack) :
    /\ stack[i].fn = "hshandler" => stack[i].cause = "ECU"
    /\ stack[i].fn = "mhandler" => stack[i].cause = "ECS"

CalledInv ==
  status = "run" /\ stack # <<>> =>
    /\ medeleg = before.medeleg
    /\ before.curr \in Priv
    /\ ServesEcall
    /\ stack[1].fn = "goto" => GotoCalled
    /\ stack[1].fn = "reset" => ResetCalled
    /\ stack[1].fn \in Handlers => TestTrapped

==============================================================================
