---------------------------- MODULE HarnessService ----------------------------
(***************************************************************************)
(* What rvh_test.c promises to a test function: each of its calls is one   *)
(* step.  A switch takes the test to the level it names; the only trace it *)
(* leaves is in excpt, because a switch that raises the level is itself an *)
(* exception the handlers record.                                          *)
(*                                                                         *)
(* The promise is limited to the switches of the constant Switches and to  *)
(* delegations that hand the U-mode ecall, and not the S-mode one, to the  *)
(* S-level handler.                                                        *)
(***************************************************************************)
EXTENDS Integers

CONSTANTS Switches, Delegs, Faults, Irqs, SetupAcrossGoto, BareEcalls

VU == 0
HU == 1
VS == 2
HS == 3
M  == 4
None == -1

VARIABLES
  at,        \* the level the test runs at
  medeleg,   \* the causes handed to the S-level handler
  arg,       \* the last level asked for by an ecall
  excpt,     \* the exception record the test inspects
  armed,     \* a fault was announced and is still to come
  running    \* FALSE once an ERROR has ended the program

vars == <<at, medeleg, arg, excpt, armed, running>>

User == {VU, HU}

Recorded(level, why) ==
  [testing |-> FALSE, triggered |-> TRUE, priv |-> level, cause |-> why,
   faultInst |-> FALSE]

(***************************************************************************)
(* A rise ends with the record of the handler that returns last: from VU   *)
(* to M the U-mode ecall's handler makes the second ecall itself and so    *)
(* returns after it; from HU to M the two ecalls follow each other.        *)
(***************************************************************************)
Rises(from, to) == to > from \/ {from, to} \subseteq User

RiseRecord(from, to) ==
  IF from \in User /\ ~(from = HU /\ to \in User \union {M})
  THEN Recorded(HS, "ECU")
  ELSE Recorded(M, "ECS")

\* Two user levels are connected through M.
RiseArg(to) == IF to \in User THEN M ELSE to

Switched(from, to) ==
  /\ at' = to
  /\ excpt' = IF Rises(from, to) THEN RiseRecord(from, to) ELSE excpt
  /\ arg' = IF Rises(from, to) THEN RiseArg(to) ELSE arg

MaySwitch == running /\ (armed => SetupAcrossGoto)

Goto ==
  /\ MaySwitch
  /\ \E to \in VU..M : <<at, to>> \in Switches /\ Switched(at, to)
  /\ UNCHANGED <<medeleg, armed, running>>

\* goto_priv_u_to_m_direct: one ecall, whose handler makes the second
GotoDirect ==
  /\ MaySwitch
  /\ at = HU
  /\ at' = M
  /\ arg' = M
  /\ excpt' = Recorded(HS, "ECU")
  /\ UNCHANGED <<medeleg, armed, running>>

Setup ==
  /\ running
  /\ excpt' = [excpt EXCEPT !.testing = TRUE, !.triggered = FALSE, !.faultInst = FALSE]
  /\ armed' = TRUE
  /\ UNCHANGED <<at, medeleg, arg, running>>

Asserts == running /\ armed /\ armed' = FALSE
           /\ UNCHANGED <<at, medeleg, arg, excpt, running>>

Delegates == running /\ at = M /\ medeleg' \in Delegs
             /\ UNCHANGED <<at, arg, excpt, armed, running>>

\* A fault is recorded at the level that handles it, and ends the program when
\* the announcement is gone.
Fault ==
  /\ running /\ armed
  /\ \/ /\ excpt.testing
        /\ \E c \in Faults :
             excpt' = Recorded(IF c \in medeleg /\ at # M THEN HS ELSE M, c)
        /\ armed' = FALSE
        /\ UNCHANGED running
     \/ /\ ~excpt.testing
        /\ running' = FALSE
        /\ UNCHANGED <<excpt, armed>>
  /\ UNCHANGED <<at, medeleg, arg>>

\* An interrupt uses up an announcement although the test still waits for its
\* fault; without one it ends the program.  A delegated one waits while the test
\* is in M mode.
Interrupt ==
  /\ running
  /\ \E c \in Irqs :
       /\ ~(at = M /\ c \in medeleg)
       /\ IF excpt.testing
          THEN excpt' = Recorded(IF c \in medeleg THEN HS ELSE M, c) /\ UNCHANGED running
          ELSE running' = FALSE /\ UNCHANGED excpt
  /\ UNCHANGED <<at, medeleg, arg, armed>>

\* A bare ecall in M mode is recorded and changes no level, although ecall_args
\* still holds an earlier switch.
BareEcall ==
  /\ running /\ armed
  /\ at = M /\ M \in BareEcalls
  /\ excpt' = Recorded(M, "ECM")
  /\ armed' = FALSE
  /\ UNCHANGED <<at, medeleg, arg, running>>

Reset ==
  /\ running
  /\ Switched(at, M)
  /\ medeleg' = {"ECU"}
  /\ armed' = FALSE
  /\ UNCHANGED running

Stopped == ~running /\ UNCHANGED vars

Init ==
  /\ at = M
  /\ medeleg = {"ECU"}
  /\ arg = None
  /\ excpt = [testing |-> FALSE, triggered |-> FALSE, priv |-> VU,
              cause |-> "none", faultInst |-> FALSE]
  /\ armed = FALSE
  /\ running = TRUE

Next ==
  Goto \/ GotoDirect \/ Setup \/ Asserts \/ Delegates \/ Fault \/ Interrupt
       \/ BareEcall \/ Reset \/ Stopped

Spec == Init /\ [][Next]_vars
===============================================================================
