------------------------------ MODULE Interrupts ------------------------------
(***************************************************************************)
(* Interrupts under the harness: the tests of wfi_tests.c and              *)
(* external_interrupt.c enable, raise and delegate them, an interrupt      *)
(* controller drives the external ones, and mhandler and hshandler record  *)
(* and clear them.  An interrupt may come inside lower_priv, between the   *)
(* writes of mstatus.MPP, of mepc, its mret and the assignment to          *)
(* curr_priv, inside goto_priv between its look at real_priv and its       *)
(* assignment to curr_priv, between the two ecalls of a switch from HU to  *)
(* M, and, at level M, inside hshandler.  mhandler runs with mstatus.MIE   *)
(* clear and is one step.                                                  *)
(***************************************************************************)
EXTENDS Integers, Sequences, FiniteSets

CONSTANTS
  Harts,      \* with the H extension or not, whose wfi waits or not, the pins its
              \* controller drives, the registered tests, and how many are run
  Scripts,    \* the steps of every test, a function of its name
  NoTest      \* between two tests

SInts  == {"SSI", "SEI"}
Ints   == SInts \union {"MEI", "VSSI"}
Levels == {"HU", "VS", "HS", "M"}
Fields == {"MIE", "MPIE", "SIE", "SPIE", "TW"}

MCsrs == {"mstatus", "mie", "mip", "mideleg", "medeleg"}
SCsrs == {"sstatus", "sie", "sip"}
HCsrs == {"hie", "hip", "hideleg"}

Steps ==
  [op : {"goto"}, to : Levels]
    \union [op : {"csr"}, csr : MCsrs \union SCsrs \union HCsrs, how : {"set", "clear", "write"},
            bits : SUBSET (Ints \union Fields \union {"ECU", "VSEI"})]
    \union [op : {"setup", "wfi", "end"}]
    \union [op : {"assert"}, triggered : BOOLEAN, causes : SUBSET {"any", "ILI", "MEI", "SEI", "VSEI"},
            privs : SUBSET Levels]

\* A test leaves M for one level at a time, and comes back to M.  It does not ask for HU
\* in HU, where goto_priv goes to M first.
ThroughM(steps) ==
  \A i, j \in DOMAIN steps :
    /\ i < j /\ steps[i].op = "goto" /\ steps[j].op = "goto"
    /\ \A k \in i + 1 .. j - 1 : steps[k].op # "goto"
    => steps[j].to = "M" \/ steps[i].to = "M" \/ (steps[i].to = steps[j].to /\ steps[j].to # "HU")

\* TEST_END switches to M and then resets.
EndsInM(steps) ==
  \A i \in DOMAIN steps : steps[i].op = "end" => i > 1 /\ steps[i - 1] = [op |-> "goto", to |-> "M"]

ASSUME InterruptsAssumption ==
  /\ \A n \in DOMAIN Harts :
       Harts[n] \in [h : BOOLEAN, waits : BOOLEAN, pins : SUBSET {"MEI", "SEI"},
                    tests : SUBSET DOMAIN Scripts, max : Nat]
  /\ NoTest \notin DOMAIN Scripts
  /\ \A t \in DOMAIN Scripts : Scripts[t] \in Seq(Steps) /\ ThroughM(Scripts[t]) /\ EndsInM(Scripts[t])

VARIABLES
  hart,                          \* the name of the hart this run is on
  pins,                          \* the interrupts the controller raises
  test, pc, ran,                 \* the running test, its next step, and how many so far
  curr_priv, real_priv,          \* the harness' variables
  mode, mpp,                     \* what the hart is in, "U", "S" or "M", and mstatus.MPP
  lowering,                      \* where lower_priv is, and the level it goes to
  going,                         \* where the test's goto_priv is outside lower_priv
  handling,                      \* where hshandler is
  mstatus, mie, mip, mideleg, medeleg,
  excpt, test_status,
  status,                        \* "run", "waiting" in wfi, "untested" or "lost"
  last,                          \* history: the interrupts handled since the test's last step
  slipped                        \* history: an interrupt of this test came inside lower_priv
csrs  == <<mstatus, mie, mip, mideleg, medeleg>>
privs == <<curr_priv, real_priv, mode, mpp, lowering, going, handling>>
run   == <<hart, pins, test, ran>>
hist  == <<last, slipped>>
ivars == <<run, pc, privs, csrs, excpt, test_status, status, hist>>

\* lower_priv: MPP is written, mepc too, an interrupt has overwritten mepc, mret is
\* done.  The compiler may place the stores to real_priv and curr_priv anywhere between
\* them: the asm statement clobbers no memory.
Places == {"mpp", "mepc", "overwritten", "mret"}
Stores == {"real", "curr"}
Idle   == [at |-> "none", to |-> "M", stores |-> {}]

\* goto_priv has found the target in real_priv, or has another ecall to make behind the
\* one from HU to HS.
Goings == {"none", "hop"} \union Levels

\* hshandler is entered, has set real_priv, has found the level an ecall asks for in it,
\* is about to record the trap, and to leave.  Spp is the mode the trap came from, and
\* again says that it came from hshandler.
Rooms     == {"enter", "asks", "finds", "record", "leave"}
NoFrame   == [at |-> "none", cause |-> "none", to |-> "M", spp |-> "M", again |-> FALSE]
Frames    == [at : Rooms, cause : Ints \union {"ECU"}, to : {"HS", "M"}, spp : {"U", "S"}, again : BOOLEAN]
InHandler == handling # NoFrame

ModeOf(l) == CASE l = "M" -> "M" [] l \in {"HS", "VS"} -> "S" [] l = "HU" -> "U"

(***************************************************************************)
(* The hart.                                                               *)
(***************************************************************************)
\* VSSI is delegated by hardware.
H         == Harts[hart]
Delegated == mideleg \union IF H.h THEN {"VSSI"} ELSE {}
Raised    == mip \union pins

Writable(csr) ==
  CASE csr = "mstatus" -> Fields
    [] csr = "mie"     -> IF H.h THEN Ints ELSE Ints \ {"VSSI"}
    [] csr = "mip"     -> IF H.h THEN SInts \union {"VSSI"} ELSE SInts
    [] csr = "mideleg" -> SInts
    [] csr = "medeleg" -> {"ECU"}
    [] csr = "sstatus" -> {"SIE", "SPIE"}
    [] csr = "sie"     -> mideleg
    [] csr = "sip"     -> mideleg \intersect {"SSI"}
    [] csr \in HCsrs   -> {}

Written(old, s) ==
  LET bits == s.bits \intersect Writable(s.csr)
  IN  CASE s.how = "set"   -> old \union bits
        [] s.how = "clear" -> old \ bits
        [] s.how = "write" -> (old \ Writable(s.csr)) \union bits

MayAccess(csr) ==
  CASE csr \in MCsrs -> mode = "M"
    [] csr \in SCsrs -> mode # "U"
    [] csr \in HCsrs -> H.h /\ mode # "U"

\* The interrupts the hart takes before its next instruction, by the handler's level
ToM == {i \in (Raised \intersect mie) \ Delegated : mode # "M" \/ "MIE" \in mstatus}
ToS == {i \in Raised \intersect mie \intersect Delegated :
          mode = "U" \/ (mode = "S" /\ "SIE" \in mstatus)}
Taken == IF ToM # {} THEN ToM \X {"M"} ELSE ToS \X {"HS"}

\* A trap clears xIE and return_from_exception clears xPIE, so that the return leaves
\* interrupts off and xPIE on.
AfterTrap(l) ==
  IF l = "M" THEN (mstatus \ {"MIE"}) \union {"MPIE"} ELSE (mstatus \ {"SIE"}) \union {"SPIE"}

-----------------------------------------------------------------------------
(***************************************************************************)
(* The handlers.                                                           *)
(***************************************************************************)
\* Seeded bug: the announcement outlives the exception.
BadRecord(level, cause) ==
  excpt' = [testing |-> excpt.testing, triggered |-> TRUE, cause |-> cause, priv |-> level]

Record(level, cause) ==
  excpt' = [testing |-> FALSE, triggered |-> TRUE, cause |-> cause, priv |-> level]

\* Seeded bug: back to the handler's level.
BadReturnMode(level) == ModeOf(level)

\* hshandler cannot return to M: sret with SPP clear goes to U.
ReturnMode(level) ==
  IF level = "HS" /\ curr_priv = "M" THEN "U" ELSE ModeOf(curr_priv)

Return(level) ==
  /\ real_priv' = curr_priv
  /\ mode' = ReturnMode(level)
  /\ mstatus' = AfterTrap(level)
  /\ mpp' = IF level = "M" THEN "U" ELSE mpp

Fail(how) ==
  /\ status' = how
  /\ UNCHANGED <<run, pc, privs, csrs, excpt, test_status, hist>>

\* Seeded bug: mhandler leaves the interrupt pending.
BadCleared(i, level) == mip

\* CSRC(mip) in mhandler, CSRC(sip) in hshandler
Cleared(i, level) ==
  mip \ ({i} \intersect Writable(IF level = "M" THEN "mip" ELSE "sip"))

\* The trap to hshandler
Enter(cause, to) ==
  /\ handling' = [at |-> "enter", cause |-> cause, to |-> to, spp |-> mode, again |-> InHandler]
  /\ mode' = "S"
  /\ mstatus' = (mstatus \ {"SIE", "SPIE"}) \union (IF "SIE" \in mstatus THEN {"SPIE"} ELSE {})

\* mhandler runs to its end, and returns to curr_priv from inside hshandler too, where
\* it has used up the announcement.
Interrupt ==
  /\ status = "run"
  /\ \E i \in Ints, level \in {"M", "HS"} :
       /\ <<i, level>> \in Taken
       /\ IF ~excpt.testing THEN Fail("untested")
          ELSE /\ \/ /\ level = "M"
                     /\ mip' = Cleared(i, level)
                     /\ Record(level, i)
                     /\ Return(level)
                     /\ lowering' = IF lowering.at = "mepc" THEN [lowering EXCEPT !.at = "overwritten"] ELSE lowering
                     /\ last' = last \union {<<i, level>>}
                     /\ UNCHANGED handling
                  \/ /\ level = "HS"
                     /\ Enter(i, "HS")
                     /\ UNCHANGED <<real_priv, mpp, lowering, mip, excpt, last>>
               /\ slipped' = (slipped \/ lowering # Idle)
               /\ UNCHANGED <<run, pc, curr_priv, going, mie, mideleg, medeleg, test_status, status>>

\* An ecall of goto_priv.  The one to HS that is not delegated mhandler answers with
\* an ecall of its own, and so on until the stack is full.
Behind == IF InHandler THEN [handling EXCEPT !.at = "record"] ELSE NoFrame

Ecall(to) ==
  LET delegated == mode = "U" /\ "ECU" \in medeleg
  IN  \/ /\ delegated
         /\ Enter("ECU", to)
         /\ UNCHANGED <<curr_priv, real_priv, mpp, excpt, status>>
      \/ /\ ~delegated /\ to = "M"
         /\ curr_priv' = "M" /\ real_priv' = "M" /\ mode' = "M" /\ mpp' = "U"
         /\ mstatus' = AfterTrap("M")
         /\ Record("M", CASE mode = "U" -> "ECU" [] mode = "S" -> "ECS" [] mode = "M" -> "ECM")
         /\ handling' = Behind
         /\ UNCHANGED status
      \/ /\ ~delegated /\ to # "M"
         /\ status' = "lost"
         /\ UNCHANGED <<curr_priv, real_priv, mode, mpp, mstatus, excpt, handling>>

\* hshandler.  In U mode, where an interrupt inside it has left it, the next CSR or the
\* sret is an illegal instruction, and its announcement has been used up.
Refused == status' = "untested" /\ UNCHANGED <<privs, mstatus, mip, excpt, last>>

HsEnter ==
  /\ handling.at = "enter"
  /\ IF mode = "U" \/ (handling.cause # "ECU" /\ ~excpt.testing) THEN Refused
     ELSE /\ real_priv' = "HS"
          /\ handling' = [handling EXCEPT !.at = IF handling.cause = "ECU" THEN "asks" ELSE "record"]
          /\ UNCHANGED <<curr_priv, mode, mpp, mstatus, mip, excpt, last, status>>

HsGoto ==
  \/ /\ handling.at = "asks"
     /\ IF real_priv = handling.to
        THEN handling' = [handling EXCEPT !.at = "finds"] /\ UNCHANGED <<curr_priv, real_priv, mode, mpp, mstatus, excpt, status>>
        ELSE Ecall(handling.to)
     /\ UNCHANGED <<mip, last>>
  \/ /\ handling.at = "finds"
     /\ curr_priv' = handling.to
     /\ handling' = [handling EXCEPT !.at = "record"]
     /\ UNCHANGED <<real_priv, mode, mpp, mstatus, mip, excpt, last, status>>

HsRecord ==
  /\ handling.at = "record"
  /\ IF mode = "U" /\ handling.cause # "ECU" THEN Refused
     ELSE /\ mip' = Cleared(handling.cause, "HS")
          /\ Record("HS", handling.cause)
          /\ last' = IF handling.cause = "ECU" THEN last ELSE last \union {<<handling.cause, "HS">>}
          /\ handling' = [handling EXCEPT !.at = "leave"]
          /\ UNCHANGED <<curr_priv, real_priv, mode, mpp, mstatus, status>>

\* return_from_exception for the level in real_priv, which has no case for VS and HU; mepc
\* is written behind an ecall only.
HsLeave ==
  /\ handling.at = "leave"
  /\ IF mode = "U" THEN Refused
     ELSE /\ handling' = IF handling.again
                         THEN [at |-> "record", cause |-> "ECU", to |-> handling.to, spp |-> "U", again |-> FALSE]
                         ELSE NoFrame
          /\ \/ real_priv = "M" /\ Return("M") /\ status' = IF handling.cause = "ECU" THEN status ELSE "lost"
             \/ real_priv = "HS" /\ Return("HS") /\ UNCHANGED status
             \/ /\ real_priv \in {"HU", "VS"}
                /\ real_priv' = curr_priv /\ mode' = handling.spp
                /\ mstatus' = (mstatus \ {"SIE"}) \union {"SPIE"}
                                 \union (IF "SPIE" \in mstatus THEN {"SIE"} ELSE {})
                /\ UNCHANGED <<mpp, status>>
          /\ UNCHANGED <<curr_priv, mip, excpt, last>>

HsHandler ==
  /\ status = "run" /\ Taken = {}
  /\ HsEnter \/ HsGoto \/ HsRecord \/ HsLeave
  /\ UNCHANGED <<run, pc, lowering, going, mie, mideleg, medeleg, test_status, slipped>>

-----------------------------------------------------------------------------
(***************************************************************************)
(* The steps of a test.  None is made while an interrupt is to be taken.   *)
(***************************************************************************)
Upcoming ==
  IF /\ status = "run" /\ lowering = Idle /\ going = "none" /\ ~InHandler /\ Taken = {}
     /\ test # NoTest /\ pc <= Len(Scripts[test])
  THEN {Scripts[test][pc]} ELSE {}

Advance == pc' = pc + 1 /\ last' = {} /\ UNCHANGED <<run, slipped>>

\* An illegal instruction, which nobody delegates
Illegal ==
  IF ~excpt.testing THEN Fail("untested")
  ELSE /\ Record("M", "ILI") /\ Return("M") /\ Advance
       /\ UNCHANGED <<curr_priv, lowering, going, handling, mie, mip, mideleg, medeleg, test_status, status>>

\* goto_priv: already there as far as real_priv knows, up, or down.  From HU the way to M
\* is by HS.
GotoPriv(to) ==
  \/ /\ real_priv = to
     /\ going' = to
     /\ UNCHANGED <<curr_priv, real_priv, mode, mpp, lowering, handling, mstatus, excpt, status>>
  \/ /\ real_priv # to /\ curr_priv = to
     /\ going' = "none"
     /\ UNCHANGED <<curr_priv, real_priv, mode, mpp, lowering, handling, mstatus, excpt, status>>
  \/ /\ real_priv # to /\ curr_priv # to /\ to = "M"
     /\ going' = IF curr_priv = "HU" THEN "hop" ELSE "none"
     /\ Ecall(IF curr_priv = "HU" THEN "HS" ELSE "M")
     /\ UNCHANGED lowering
  \/ /\ real_priv # to /\ curr_priv # to /\ to # "M"
     /\ status' = IF mode = "M" THEN status ELSE IF excpt.testing THEN "lost" ELSE "untested"
     /\ mpp' = ModeOf(to) /\ lowering' = [at |-> "mpp", to |-> to, stores |-> Stores]
     /\ going' = "none"
     /\ UNCHANGED <<curr_priv, real_priv, mode, handling, mstatus, excpt>>

StepGoto(s) ==
  /\ s.op = "goto"
  /\ GotoPriv(s.to)
  /\ Advance
  /\ UNCHANGED <<mie, mip, mideleg, medeleg, test_status>>

\* The rest of goto_priv
GoOn ==
  /\ status = "run" /\ Taken = {} /\ ~InHandler
  /\ \/ /\ going = "hop"
        /\ GotoPriv("M")
     \/ /\ going \in Levels
        /\ curr_priv' = going /\ going' = "none"
        /\ UNCHANGED <<real_priv, mode, mpp, lowering, handling, mstatus, excpt, status>>
  /\ UNCHANGED <<run, pc, mie, mip, mideleg, medeleg, test_status, hist>>

\* The rest of lower_priv.  The return from an interrupt left MPP at U, and with mepc
\* lost the mret returns to itself, which U mode may not execute.
Mret ==
  /\ mode' = mpp /\ mpp' = "U"
  /\ mstatus' = (mstatus \ {"MIE"}) \union {"MPIE"}
                   \union (IF "MPIE" \in mstatus THEN {"MIE"} ELSE {})

LowerPriv ==
  /\ status = "run" /\ Taken = {} /\ ~InHandler
  /\ \/ /\ lowering.at # "mret" /\ lowering # Idle
        /\ IF mode # "M" \/ lowering.at = "overwritten"
           THEN status' = "untested" /\ UNCHANGED <<mode, mpp, mstatus, lowering>>
           ELSE \/ /\ lowering.at = "mpp"
                   /\ lowering' = [lowering EXCEPT !.at = "mepc"]
                   /\ UNCHANGED <<mode, mpp, mstatus, status>>
                \/ /\ lowering.at = "mepc"
                   /\ Mret
                   /\ lowering' = [lowering EXCEPT !.at = "mret"]
                   /\ UNCHANGED status
        /\ UNCHANGED <<curr_priv, real_priv>>
     \/ /\ \E x \in lowering.stores :
             /\ lowering' = [lowering EXCEPT !.stores = @ \ {x}]
             /\ real_priv' = IF x = "real" THEN lowering.to ELSE real_priv
             /\ curr_priv' = IF x = "curr" THEN lowering.to ELSE curr_priv
        /\ UNCHANGED <<mode, mpp, mstatus, status>>
     \/ /\ lowering.at = "mret" /\ lowering.stores = {}
        /\ lowering' = Idle
        /\ UNCHANGED <<curr_priv, real_priv, mode, mpp, mstatus, status>>
  /\ UNCHANGED <<run, pc, going, handling, mie, mip, mideleg, medeleg, excpt, test_status, hist>>

StepCsr(s) ==
  /\ s.op = "csr"
  /\ IF ~MayAccess(s.csr) THEN Illegal
     ELSE /\ mstatus' = IF s.csr \in {"mstatus", "sstatus"} THEN Written(mstatus, s) ELSE mstatus
          /\ mie' = IF s.csr \in {"mie", "sie"} THEN Written(mie, s) ELSE mie
          /\ mip' = IF s.csr \in {"mip", "sip"} THEN Written(mip, s) ELSE mip
          /\ mideleg' = IF s.csr = "mideleg" THEN Written(mideleg, s) ELSE mideleg
          /\ medeleg' = IF s.csr = "medeleg" THEN Written(medeleg, s) ELSE medeleg
          /\ Advance
          /\ UNCHANGED <<privs, excpt, test_status, status>>

StepSetup(s) ==
  /\ s.op = "setup"
  /\ excpt' = [excpt EXCEPT !.testing = TRUE, !.triggered = FALSE]
  /\ Advance
  /\ UNCHANGED <<privs, csrs, test_status, status>>

\* An enabled interrupt that is pending completes wfi, whatever mstatus says.
Awake == Raised \intersect mie # {}

Refuses == mode = "U" \/ ("TW" \in mstatus /\ mode # "M")

StepWfi(s) ==
  /\ s.op = "wfi"
  /\ IF ~Awake /\ Refuses THEN Illegal
     ELSE /\ status' = IF Awake \/ ~H.waits THEN status ELSE "waiting"
          /\ Advance
          /\ UNCHANGED <<privs, csrs, excpt, test_status>>

WakeUp ==
  /\ status = "waiting" /\ Awake
  /\ status' = "run"
  /\ UNCHANGED <<run, pc, privs, csrs, excpt, test_status, hist>>

Verdict(s) ==
  /\ excpt.triggered = s.triggered
  /\ "any" \in s.causes \/ excpt.cause \in s.causes
  /\ excpt.priv \in s.privs

\* Seeded bug: || for &&.
BadStepAssert(s) ==
  /\ s.op = "assert"
  /\ test_status' = (test_status \/ Verdict(s))
  /\ Advance
  /\ UNCHANGED <<privs, csrs, excpt, status>>

StepAssert(s) ==
  /\ s.op = "assert"
  /\ test_status' = (test_status /\ Verdict(s))
  /\ Advance
  /\ UNCHANGED <<privs, csrs, excpt, status>>

-----------------------------------------------------------------------------
\* Seeded bug: pending and enabled interrupts stay.
BadResetCsrs ==
  /\ mode' = "M" /\ mpp' = "U"
  /\ mstatus' = IF mode = "M" THEN {} ELSE AfterTrap("M") \ {"SIE", "SPIE"}
  /\ mideleg' = {} /\ medeleg' = {"ECU"}
  /\ UNCHANGED <<mie, mip>>

\* reset_state.  Where the hart is not in M although the harness thinks so, the first
\* write is an illegal instruction whose handler returns to M.
ResetCsrs ==
  /\ mode' = "M" /\ mpp' = "U"
  /\ mstatus' = IF mode = "M" THEN {} ELSE AfterTrap("M") \ {"SIE", "SPIE"}
  /\ mie' = {} /\ mip' = {} /\ mideleg' = {} /\ medeleg' = {"ECU"}

\* TEST_END after its switch to M, which the scripts end with
TestEnd(s) ==
  /\ s.op = "end"
  /\ IF mode # "M" /\ ~excpt.testing THEN Fail("untested")
     ELSE /\ ResetCsrs
          /\ IF mode # "M" THEN Record("M", "ILI") ELSE UNCHANGED excpt
          /\ test' = NoTest /\ last' = {} /\ slipped' = FALSE
          /\ real_priv' = IF mode # "M" THEN curr_priv ELSE real_priv
          /\ UNCHANGED <<hart, pins, pc, ran, curr_priv, lowering, going, handling, test_status, status>>

Take(s) ==
  StepGoto(s) \/ StepCsr(s) \/ StepSetup(s) \/ StepWfi(s) \/ StepAssert(s) \/ TestEnd(s)

\* One round of main's loop; its reset_state finds all done.
main ==
  /\ status = "run" /\ test = NoTest /\ ran < H.max
  /\ ResetCsrs
  /\ test' \in H.tests /\ pc' = 1 /\ ran' = ran + 1 /\ test_status' = TRUE
  /\ UNCHANGED <<hart, pins, curr_priv, real_priv, lowering, going, handling, excpt, status, hist>>

\* The controller raises or lowers a pin, in a handler as well as in the test.
Controller ==
  /\ status \in {"run", "waiting"} /\ test # NoTest
  /\ \E i \in H.pins : pins' = (pins \union {i}) \ (pins \intersect {i})
  /\ UNCHANGED <<hart, test, ran, pc, privs, csrs, excpt, test_status, status, hist>>

Init ==
  /\ hart \in DOMAIN Harts /\ pins = {}
  /\ test = NoTest /\ pc = 1 /\ ran = 0
  /\ curr_priv = "M" /\ real_priv = "M" /\ mode = "M" /\ mpp = "U"
  /\ lowering = Idle /\ going = "none" /\ handling = NoFrame
  /\ mstatus = {} /\ mie = {} /\ mip = {} /\ mideleg = {} /\ medeleg = {}
  /\ excpt = [testing |-> FALSE, triggered |-> FALSE, cause |-> "none", priv |-> "HU"]
  /\ test_status = TRUE /\ status = "run"
  /\ last = {} /\ slipped = FALSE

Program == Interrupt \/ HsHandler \/ GoOn \/ LowerPriv \/ (\E s \in Upcoming : Take(s)) \/ WakeUp \/ main
Next == Program \/ Controller

\* The hart executes; the controller need not do anything.
Spec == Init /\ [][Next]_ivars /\ WF_ivars(Program)

-----------------------------------------------------------------------------
(***************************************************************************)
(* Properties.                                                             *)
(***************************************************************************)
TypeOK ==
  /\ hart \in DOMAIN Harts /\ pins \subseteq H.pins
  /\ test = NoTest \/ test \in H.tests
  /\ pc \in Nat \ {0} /\ ran \in 0..H.max
  /\ curr_priv \in Levels /\ real_priv \in Levels
  /\ mode \in {"U", "S", "M"} /\ mpp \in {"U", "S", "M"}
  /\ lowering = Idle \/ lowering \in [at : Places, to : Levels \ {"M"}, stores : SUBSET Stores]
  /\ going \in Goings
  /\ handling \in Frames \union {NoFrame}
  /\ mstatus \subseteq Fields /\ mideleg \subseteq SInts /\ medeleg \subseteq {"ECU"}
  /\ mie \subseteq Writable("mie") /\ mip \subseteq Writable("mip")
  /\ status \in {"run", "waiting", "untested", "lost"}
  /\ status # "lost" /\ \/ lowering.at = "overwritten"
                        \/ lowering.at \in {"mpp", "mepc"} /\ mode # "M"
                        \/ InHandler /\ mode = "U"
       => ~excpt.testing

\* A test meets only the interrupts it has enabled itself: nothing a test pended or
\* enabled survives the reset_state behind it, whichever tests these are.
Enabled ==
  UNION {Scripts[test][i].bits : i \in {j \in 1 .. pc - 1 : Scripts[test][j].op = "csr" /\ Scripts[test][j].csr \in {"mie", "sie"}}}

OnlyOwnInterrupts ==
  \A h \in Taken : test # NoTest /\ h[1] \in Enabled

\* mhandler and hshandler clear what they have handled: it does not end the program
\* by coming again before the test goes on.  Three interrupts do: one whose pin is
\* still up; one that hshandler cannot clear through sip and U mode cannot hold off; and
\* one of a VS test whose hshandler was interrupted by mhandler and leaves
\* through no case of return_from_exception, so that sret sets SIE.
ComesAgainOnlyHeld ==
  status = "untested" =>
    \A h \in Taken \intersect last :
      \/ h[1] \in pins
      \/ h[2] = "HS" /\ (mode = "U" \/ \E m \in last : m[2] = "M")

\* Only an interrupt inside lower_priv makes a test run at another level than the
\* harness thinks; where mhandler has returned into hshandler at the test's level, the
\* program is stopped or the handler's ecall brings the level back.  The next test starts
\* in M whatever the last one lost.
LevelLostInSwitchOnly ==
  status = "run" /\ lowering = Idle /\ ~InHandler /\ mode # ModeOf(curr_priv) => slipped /\ test # NoTest

\* Every wfi test passes, whichever ran before it.
WfiTests     == {"wfi_1", "wfi_2", "wfi_3", "wfi_4", "wfi_5", "wfi_6", "wfi_7", "wfi_8", "wfi_9",
                 "wfi_10", "wfi_11", "wfi_12", "wfi_13", "wfi_14", "wfi_15", "wfi_16"}
WfiTestsPass == test \in WfiTests => test_status

\* Without the H extension no test of external_interrupt.c passes, whatever the
\* controller does.  MEI and VSEI do not get to their end: a CSR of the hypervisor is
\* illegal, and the switch to M before it has used up the announcement.  SEI asserts an
\* interrupt that sie, masked by mideleg, cannot enable.
ExternalTests     == {"MEI", "SEI", "VSEI"}
ExternalTestsFail ==
  test \in ExternalTests /\ ~H.h /\ Scripts[test][pc].op = "end" => test = "SEI" /\ ~test_status

\* On a hart that waits, a program of tests that leave an enabled interrupt pending, or
\* whose wfi is refused, comes out of every wfi by itself.
Awaking == H.waits /\ H.tests \subseteq WfiTests
WfiEnds == Awaking => <>(test = NoTest /\ ran = H.max)
=============================================================================
