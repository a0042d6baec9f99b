--------------------------- MODULE InterruptsProofs ---------------------------
(***************************************************************************)
(* Proofs about interrupts under the harness, for every hart and every     *)
(* set of tests, wherever the interrupts come.                             *)
(***************************************************************************)
EXTENDS Interrupts, TLAPS

Causes == Ints \union {"none", "ILI", "ECU", "ECS", "ECM"}

\* What TypeOK leaves out
RecordsOK ==
  /\ excpt \in [testing : BOOLEAN, triggered : BOOLEAN, cause : Causes, priv : Levels]
  /\ last \subseteq Ints \X {"M", "HS"}
  /\ test_status \in BOOLEAN /\ slipped \in BOOLEAN

\* An enabled interrupt was enabled by the running test.
MieOwn == mie \subseteq IF test = NoTest THEN {} ELSE Enabled

\* An interrupt at level M was handled since the test's last step.
Interrupted == \E m \in last : m[2] = "M"

\* mhandler has cleared what it has handled, and behind hshandler S mode takes none.
HeldOff ==
  \A h \in last : /\ h[2] = "M" => h[1] \notin mip
                  /\ h[2] = "HS" => "SIE" \notin mstatus \/ Interrupted

\* hshandler was entered from a test's code, behind the mret of lower_priv if inside it,
\* or from its own ecall, and S mode takes no interrupt in it.
FrameInv ==
  InHandler =>
    /\ "SIE" \notin mstatus
    /\ lowering # Idle => lowering.at = "mret" /\ handling.cause # "ECU"
    /\ handling.at \in {"asks", "finds"} \/ handling.again => handling.cause = "ECU"
    /\ handling.again => /\ ~excpt.testing /\ mode # "U"
                         /\ handling.at # "enter" => real_priv \in {"HS", "M"}
    /\ handling.cause = "ECU" => handling.to = "M" \/ going = "hop"
    /\ handling.cause = "ECU" /\ handling.at \in {"record", "leave"} => curr_priv = handling.to
    /\ handling.at = "leave" => ~excpt.testing
    /\ handling.at # "enter" /\ real_priv \notin {"HS", "M"} => Interrupted

\* The step before was the test's switch to M.
BehindSwitchToM ==
  /\ test # NoTest /\ pc - 1 \in DOMAIN Scripts[test]
  /\ Scripts[test][pc - 1] = [op |-> "goto", to |-> "M"]

\* hshandler is still to do what an ecall asks for.
Asked == handling.cause = "ECU" /\ handling.at \in {"enter", "asks", "finds"}

\* What no interrupt disturbs: where the harness is certain of its level
LevelsInv ==
  /\ test = NoTest => /\ lowering = Idle /\ going = "none" /\ ~InHandler
                      /\ mode = "M" /\ curr_priv = "M" /\ real_priv = "M" /\ ~slipped
  /\ ~InHandler /\ lowering = Idle /\ mode = "M" /\ "M" \in {curr_priv, going} => real_priv = "M"
  /\ BehindSwitchToM => /\ lowering = Idle /\ going \in {"none", "hop", "M"}
                        /\ going = "none" /\ ~Asked => curr_priv = "M"
  /\ lowering # Idle => going = "none"
  /\ lowering # Idle /\ "curr" \notin lowering.stores => curr_priv = lowering.to

\* And what holds as long as no interrupt has come inside lower_priv: in the test, in
\* lower_priv, and in hshandler, which one at level M leaves in the mode of the test
SteadyTest ==
  /\ mode = ModeOf(curr_priv) /\ real_priv = curr_priv
  /\ going \in Levels => going = curr_priv

SteadySwitch ==
  /\ lowering.at # "overwritten"
  /\ lowering.at \in {"mpp", "mepc"} => mode = "M" /\ mpp = ModeOf(lowering.to)
  /\ lowering.at = "mret" => mode = ModeOf(lowering.to)
  /\ "real" \notin lowering.stores => real_priv = lowering.to

SteadyHandler ==
  /\ lowering = Idle /\ curr_priv # "M"
  /\ handling.cause # "ECU" => handling.spp = ModeOf(curr_priv) /\ (going \in Levels => going = curr_priv)
  /\ handling.cause = "ECU" => /\ handling.to = "HS" /\ handling.spp = "U" /\ going = "hop"
                               /\ curr_priv = IF Asked THEN "HU" ELSE "HS"
  /\ mode = "U" \/ (mode = "S" /\ (handling.at = "enter" \/ real_priv = "HS"
                                     \/ (handling.cause # "ECU" /\ real_priv = curr_priv /\ curr_priv # "HU")))

OnCourse ==
  status \in {"run", "waiting"} /\ ~slipped =>
    /\ InHandler => SteadyHandler
    /\ ~InHandler /\ lowering = Idle => SteadyTest
    /\ ~InHandler /\ lowering # Idle => SteadySwitch

IntsInv == TypeOK /\ RecordsOK /\ MieOwn /\ HeldOff /\ FrameInv /\ LevelsInv /\ OnCourse

-----------------------------------------------------------------------------
(***************************************************************************)
(* The steps of a test.                                                    *)
(***************************************************************************)
LEMMA StepFacts ==
  ASSUME TypeOK, NEW s \in Upcoming
  PROVE  /\ status = "run" /\ lowering = Idle /\ going = "none" /\ ~InHandler /\ Taken = {}
         /\ test # NoTest /\ test \in DOMAIN Scripts /\ Scripts[test] \in Seq(Steps)
         /\ pc \in DOMAIN Scripts[test] /\ s = Scripts[test][pc] /\ s \in Steps
<1>1. /\ status = "run" /\ lowering = Idle /\ going = "none" /\ ~InHandler /\ Taken = {} /\ test # NoTest
      /\ pc <= Len(Scripts[test]) /\ s = Scripts[test][pc]
  BY DEF Upcoming
<1>2. test \in DOMAIN Scripts
  BY <1>1, InterruptsAssumption DEF TypeOK, H
<1>3. Scripts[test] \in Seq(Steps)
  BY <1>2, InterruptsAssumption
<1>4. pc \in 1 .. Len(Scripts[test])
  <2>1. pc \in Nat \ {0} /\ pc <= Len(Scripts[test])
    BY <1>1 DEF TypeOK
  <2>2. Len(Scripts[test]) \in Nat
    BY <1>3
  <2> QED
    BY <2>1, <2>2
<1>5. Scripts[test][pc] \in Steps /\ DOMAIN Scripts[test] = 1 .. Len(Scripts[test])
  BY <1>3, <1>4
<1> QED
  BY <1>1, <1>2, <1>3, <1>4, <1>5

LEMMA GotoFields ==
  ASSUME NEW s \in Steps, s.op = "goto"
  PROVE  s.to \in Levels /\ s = [op |-> "goto", to |-> s.to]
  BY DEF Steps

LEMMA CsrFields ==
  ASSUME NEW s \in Steps, s.op = "csr"
  PROVE  s.csr \in MCsrs \union SCsrs \union HCsrs /\ s.how \in {"set", "clear", "write"}
  BY DEF Steps

LEMMA WritableBits ==
  /\ Writable("mstatus") = Fields /\ Writable("sstatus") = {"SIE", "SPIE"}
  /\ Writable("mie") \in {Ints, Ints \ {"VSSI"}} /\ Writable("sie") = mideleg
  /\ Writable("mip") \in {SInts, SInts \union {"VSSI"}} /\ Writable("sip") = mideleg \intersect {"SSI"}
  /\ Writable("mideleg") = SInts /\ Writable("medeleg") = {"ECU"}
<1>1. Writable("mstatus") = Fields
  BY DEF Writable, HCsrs
<1>2. Writable("sstatus") = {"SIE", "SPIE"}
  BY DEF Writable, HCsrs
<1>3. Writable("mie") = IF H.h THEN Ints ELSE Ints \ {"VSSI"}
  BY DEF Writable, HCsrs
<1>4. Writable("sie") = mideleg
  BY DEF Writable, HCsrs
<1>5. Writable("mip") = IF H.h THEN SInts \union {"VSSI"} ELSE SInts
  BY DEF Writable, HCsrs
<1>6. Writable("sip") = mideleg \intersect {"SSI"}
  BY DEF Writable, HCsrs
<1>7. Writable("mideleg") = SInts
  BY DEF Writable, HCsrs
<1>8. Writable("medeleg") = {"ECU"}
  BY DEF Writable, HCsrs
<1> QED
  BY <1>1, <1>2, <1>3, <1>4, <1>5, <1>6, <1>7, <1>8

\* A CSR write changes the bits that are there.
LEMMA WrittenBits ==
  ASSUME NEW s \in Steps, s.op = "csr", NEW old, NEW S, old \subseteq S, Writable(s.csr) \subseteq S
  PROVE  Written(old, s) \subseteq S
<1>1. s.how \in {"set", "clear", "write"}
  BY CsrFields
<1> DEFINE W == Writable(s.csr)
<1>2. Written(old, s) \subseteq old \union W
  <2> HIDE DEF W
  <2>1. Written(old, s) = LET bits == s.bits \intersect W
                          IN  CASE s.how = "set"   -> old \union bits
                                [] s.how = "clear" -> old \ bits
                                [] s.how = "write" -> (old \ W) \union bits
    BY DEF Written, W
  <2> QED
    BY <1>1, <2>1
<1> QED
  BY <1>2

LEMMA TakenFacts ==
  ASSUME NEW x \in Taken
  PROVE  /\ x = <<x[1], x[2]>> /\ x[1] \in Raised \intersect mie /\ x[2] \in {"M", "HS"}
         /\ x[2] = "HS" => mode = "U" \/ (mode = "S" /\ "SIE" \in mstatus)
  BY DEF Taken, ToM, ToS

LEMMA Modes ==
  /\ \A l \in Levels : ModeOf(l) \in {"U", "S", "M"} /\ (ModeOf(l) = "M" <=> l = "M")
  /\ \A l \in Levels, k \in {"M", "HS"} : curr_priv = l => ReturnMode(k) \in {"U", "S", "M"}
  BY DEF Levels, ModeOf, ReturnMode

-----------------------------------------------------------------------------
(***************************************************************************)
(* Types.                                                                  *)
(***************************************************************************)
LEMMA Initially == Init => IntsInv
<1> SUFFICES ASSUME Init PROVE IntsInv
  OBVIOUS
<1>1. H.pins \in SUBSET {"MEI", "SEI"} /\ H.max \in Nat
  BY InterruptsAssumption DEF Init, H
<1>2. TypeOK
  BY <1>1 DEF Init, TypeOK, Levels, Idle, Fields, SInts, Goings, InHandler
<1>3. RecordsOK
  BY DEF Init, RecordsOK, Causes, Levels
<1>4. MieOwn /\ HeldOff
  BY DEF Init, MieOwn, HeldOff
<1>5. FrameInv /\ LevelsInv
  BY DEF Init, FrameInv, LevelsInv, BehindSwitchToM, InHandler
<1>6. OnCourse
  BY DEF Init, OnCourse, SteadyTest, ModeOf, InHandler, Levels
<1> QED
  BY <1>2, <1>3, <1>4, <1>5, <1>6 DEF IntsInv

\* The variables of a switch: what the other steps of a test leave alone
SwitchTypes ==
  /\ curr_priv \in Levels /\ real_priv \in Levels
  /\ mode \in {"U", "S", "M"} /\ mpp \in {"U", "S", "M"}
  /\ lowering = Idle \/ lowering \in [at : Places, to : Levels \ {"M"}, stores : SUBSET Stores]
  /\ going \in Goings /\ handling \in Frames \union {NoFrame}
  /\ mstatus \subseteq Fields
  /\ status \in {"run", "waiting", "untested", "lost"}
  /\ status # "lost" /\ \/ lowering.at = "overwritten"
                        \/ lowering.at \in {"mpp", "mepc"} /\ mode # "M"
                        \/ InHandler /\ mode = "U"
       => ~excpt.testing

LEMMA SwitchTypesHold == ASSUME TypeOK PROVE SwitchTypes
  BY DEF TypeOK, SwitchTypes

LEMMA OtherwiseKept ==
  ASSUME TypeOK, SwitchTypes', pc' \in Nat \ {0}, mip' \subseteq mip,
         UNCHANGED <<hart, pins, test, ran, mie, mideleg, medeleg>>
  PROVE  TypeOK'
<1>1. H' = H /\ Writable("mie")' = Writable("mie") /\ Writable("mip")' = Writable("mip")
  BY DEF H, Writable
<1> QED
  BY <1>1 DEF TypeOK, SwitchTypes

LEMMA Names == Idle.at = "none" /\ Idle.stores = {} /\ NoFrame.at = "none" /\ NoFrame.cause = "none"
  BY DEF Idle, NoFrame

LEMMA InFrame == ASSUME TypeOK, InHandler PROVE handling \in Frames
  BY DEF TypeOK, InHandler

LEMMA EnterTypes ==
  ASSUME TypeOK, NEW cause \in Ints \union {"ECU"}, NEW to \in {"HS", "M"}, mode # "M", Enter(cause, to)
  PROVE  /\ handling' \in Frames /\ handling'.at = "enter" /\ handling'.cause = cause
         /\ handling'.to = to /\ handling'.again = InHandler /\ handling'.spp = mode
         /\ InHandler' /\ mode' = "S" /\ mstatus' \subseteq Fields /\ "SIE" \notin mstatus'
<1>1. /\ handling' = [at |-> "enter", cause |-> cause, to |-> to, spp |-> mode, again |-> InHandler]
      /\ mode' = "S"
      /\ mstatus' = (mstatus \ {"SIE", "SPIE"}) \union (IF "SIE" \in mstatus THEN {"SPIE"} ELSE {})
  BY DEF Enter
<1>2. mode \in {"U", "S"} /\ mstatus \subseteq Fields
  BY DEF TypeOK
<1>3. mstatus' \subseteq Fields /\ "SIE" \notin mstatus'
  BY <1>1, <1>2 DEF Fields
<1>4. InHandler \in BOOLEAN
  BY DEF InHandler
<1>5. handling' \in Frames
  BY <1>1, <1>2, <1>4 DEF Frames, Rooms
<1>6. handling' # NoFrame
  BY <1>1, Names
<1> QED
  BY <1>1, <1>3, <1>5, <1>6 DEF InHandler

LEMMA ReturnTypes ==
  ASSUME TypeOK, NEW level \in {"M", "HS"}, Return(level)
  PROVE  /\ real_priv' = curr_priv /\ mode' = ReturnMode(level) /\ mode' \in {"U", "S", "M"}
         /\ mpp' \in {"U", mpp} /\ mstatus' = AfterTrap(level) /\ mstatus' \subseteq Fields
         /\ "SIE" \in mstatus' => "SIE" \in mstatus
<1>1. real_priv' = curr_priv /\ mode' = ReturnMode(level) /\ mpp' \in {"U", mpp} /\ mstatus' = AfterTrap(level)
  BY DEF Return
<1>2. mode' \in {"U", "S", "M"}
  BY <1>1, Modes DEF TypeOK
<1>3. mstatus' \subseteq Fields /\ ("SIE" \in mstatus' => "SIE" \in mstatus)
  BY <1>1 DEF AfterTrap, TypeOK, Fields
<1> QED
  BY <1>1, <1>2, <1>3

\* What an ecall does
LEMMA EcallFacts ==
  ASSUME TypeOK, NEW to \in {"HS", "M"}, Ecall(to)
  PROVE  \/ /\ mode = "U" /\ Enter("ECU", to)
            /\ UNCHANGED <<curr_priv, real_priv, mpp, excpt, status>>
         \/ /\ to = "M"
            /\ curr_priv' = "M" /\ real_priv' = "M" /\ mode' = "M" /\ mpp' = "U"
            /\ mstatus' = AfterTrap("M") /\ mstatus' \subseteq Fields /\ ("SIE" \in mstatus' => "SIE" \in mstatus)
            /\ \E c \in Causes : excpt' = [testing |-> FALSE, triggered |-> TRUE, cause |-> c, priv |-> "M"]
            /\ handling' = Behind /\ UNCHANGED status
         \/ /\ to # "M" /\ status' = "lost"
            /\ UNCHANGED <<curr_priv, real_priv, mode, mpp, mstatus, excpt, handling>>
<1>1. CASE mode = "U" /\ "ECU" \in medeleg
  BY <1>1 DEF Ecall
<1>2. CASE ~(mode = "U" /\ "ECU" \in medeleg) /\ to = "M"
  <2>1. /\ curr_priv' = "M" /\ real_priv' = "M" /\ mode' = "M" /\ mpp' = "U"
        /\ mstatus' = AfterTrap("M")
        /\ Record("M", CASE mode = "U" -> "ECU" [] mode = "S" -> "ECS" [] mode = "M" -> "ECM")
        /\ handling' = Behind /\ UNCHANGED status
    BY <1>2 DEF Ecall
  <2>2. mstatus' \subseteq Fields /\ ("SIE" \in mstatus' => "SIE" \in mstatus)
    BY <2>1 DEF AfterTrap, TypeOK, Fields
  <2>3. (CASE mode = "U" -> "ECU" [] mode = "S" -> "ECS" [] mode = "M" -> "ECM") \in Causes
    BY DEF TypeOK, Causes
  <2> QED
    BY <1>2, <2>1, <2>2, <2>3 DEF Record
<1>3. CASE ~(mode = "U" /\ "ECU" \in medeleg) /\ to # "M"
  BY <1>3 DEF Ecall
<1> QED
  BY <1>1, <1>2, <1>3

LEMMA BehindTypes ==
  ASSUME TypeOK
  PROVE  /\ Behind \in Frames \union {NoFrame}
         /\ ~InHandler => Behind = NoFrame
         /\ InHandler => /\ Behind \in Frames /\ Behind.at = "record" /\ Behind.cause = handling.cause
                         /\ Behind.to = handling.to /\ Behind.again = handling.again
                         /\ Behind.spp = handling.spp /\ Behind # NoFrame
<1>1. CASE ~InHandler
  BY <1>1 DEF Behind
<1>2. CASE InHandler
  <2>1. handling \in Frames /\ Behind = [handling EXCEPT !.at = "record"]
    BY <1>2, InFrame DEF Behind
  <2>2. Behind \in Frames /\ Behind.at = "record"
    BY <2>1 DEF Frames, Rooms
  <2> QED
    BY <1>2, <2>1, <2>2, Names DEF Frames
<1> QED
  BY <1>1, <1>2

LEMMA EcallTypes ==
  ASSUME TypeOK, RecordsOK, status = "run", lowering = Idle, NEW to \in {"HS", "M"}, Ecall(to),
         lowering' = Idle, going' \in Goings
  PROVE  SwitchTypes' /\ excpt' \in [testing : BOOLEAN, triggered : BOOLEAN, cause : Causes, priv : Levels]
<1>1. CASE /\ mode = "U" /\ Enter("ECU", to)
           /\ UNCHANGED <<curr_priv, real_priv, mpp, excpt, status>>
  <2>1. handling' \in Frames /\ mode' = "S" /\ mstatus' \subseteq Fields
    BY <1>1, EnterTypes
  <2> QED
    BY <1>1, <2>1, Names DEF TypeOK, RecordsOK, SwitchTypes
<1>3. CASE /\ status' = "lost"
           /\ UNCHANGED <<curr_priv, real_priv, mode, mpp, mstatus, excpt, handling>>
  BY <1>3 DEF TypeOK, RecordsOK, SwitchTypes
<1>2. CASE /\ UNCHANGED status
           /\ curr_priv' = "M" /\ real_priv' = "M" /\ mode' = "M" /\ mpp' = "U"
           /\ mstatus' \subseteq Fields
           /\ \E c \in Causes : excpt' = [testing |-> FALSE, triggered |-> TRUE, cause |-> c, priv |-> "M"]
           /\ handling' = Behind
  <2>1. excpt' \in [testing : BOOLEAN, triggered : BOOLEAN, cause : Causes, priv : Levels] /\ ~excpt'.testing
    BY <1>2 DEF Levels
  <2>2. handling' \in Frames \union {NoFrame}
    BY <1>2, BehindTypes
  <2> QED
    BY <1>2, <2>1, <2>2 DEF SwitchTypes, Levels
<1> QED
  BY <1>1, <1>2, <1>3, EcallFacts

LEMMA InterruptTypes ==
  ASSUME TypeOK, RecordsOK, Interrupt
  PROVE  TypeOK' /\ RecordsOK'
<1>1. PICK i \in Ints, level \in {"M", "HS"} :
        /\ <<i, level>> \in Taken
        /\ IF ~excpt.testing THEN Fail("untested")
           ELSE /\ \/ /\ level = "M"
                      /\ mip' = Cleared(i, level)
                      /\ Record(level, i)
                      /\ Return(level)
                      /\ lowering' = IF lowering.at = "mepc" THEN [lowering EXCEPT !.at = "overwritten"] ELSE lowering
                      /\ last' = last \union {<<i, level>>}
                      /\ UNCHANGED handling
                   \/ /\ level = "HS"
                      /\ Enter(i, "HS")
                      /\ UNCHANGED <<real_priv, mpp, lowering, mip, excpt, last>>
                /\ slipped' = (slipped \/ lowering # Idle)
                /\ UNCHANGED <<run, pc, curr_priv, going, mie, mideleg, medeleg, test_status, status>>
  BY DEF Interrupt
<1>0. SwitchTypes /\ pc \in Nat \ {0}
  BY SwitchTypesHold DEF TypeOK
<1>2. CASE ~excpt.testing
  <2>1. status' = "untested" /\ UNCHANGED <<run, pc, privs, csrs, excpt, test_status, hist>>
    BY <1>1, <1>2 DEF Fail
  <2>2. SwitchTypes'
    BY <1>0, <1>2, <2>1 DEF SwitchTypes, privs, csrs, InHandler
  <2>3. TypeOK'
    BY <1>0, <2>1, <2>2, OtherwiseKept DEF run, csrs
  <2> QED
    BY <2>1, <2>3 DEF RecordsOK, hist
<1>3. CASE excpt.testing
  <2>0. /\ slipped' = (slipped \/ lowering # Idle)
        /\ UNCHANGED <<hart, pins, test, ran, pc, curr_priv, going, mie, mideleg, medeleg, test_status, status>>
    BY <1>1, <1>3 DEF run
  <2>1. CASE /\ level = "M"
             /\ mip' = Cleared(i, level)
             /\ Record(level, i)
             /\ Return(level)
             /\ lowering' = IF lowering.at = "mepc" THEN [lowering EXCEPT !.at = "overwritten"] ELSE lowering
             /\ last' = last \union {<<i, level>>}
             /\ UNCHANGED handling
    <3>1. /\ mip' \subseteq mip /\ ~excpt'.testing
          /\ excpt' = [testing |-> FALSE, triggered |-> TRUE, cause |-> i, priv |-> level]
      BY <2>1 DEF Cleared, Record
    <3>2. /\ real_priv' = curr_priv /\ mode' \in {"U", "S", "M"} /\ mpp' \in {"U", mpp}
          /\ mstatus' \subseteq Fields
      BY <2>1, ReturnTypes
    <3>3. lowering' = Idle \/ lowering' \in [at : Places, to : Levels \ {"M"}, stores : SUBSET Stores]
      <4>1. CASE lowering = Idle
        BY <2>1, <4>1 DEF Idle
      <4>2. CASE lowering \in [at : Places, to : Levels \ {"M"}, stores : SUBSET Stores]
        <5>1. [lowering EXCEPT !.at = "overwritten"] \in [at : Places, to : Levels \ {"M"}, stores : SUBSET Stores]
          BY <4>2 DEF Places
        <5> QED
          BY <2>1, <4>2, <5>1
      <4> QED
        BY <1>0, <4>1, <4>2 DEF SwitchTypes
    <3>4. SwitchTypes'
      BY <1>0, <2>0, <2>1, <3>1, <3>2, <3>3 DEF SwitchTypes
    <3>5. TypeOK'
      BY <1>0, <2>0, <3>1, <3>4, OtherwiseKept
    <3>6. last' \subseteq Ints \X {"M", "HS"} /\ slipped' \in BOOLEAN
      <4>1. last \subseteq Ints \X {"M", "HS"} /\ slipped \in BOOLEAN
        BY DEF RecordsOK
      <4>2. <<i, level>> \in Ints \X {"M", "HS"}
        OBVIOUS
      <4>3. last' \subseteq Ints \X {"M", "HS"}
        BY <2>1, <4>1, <4>2
      <4>4. slipped' \in BOOLEAN
        BY <2>0, <4>1
      <4> QED
        BY <4>3, <4>4
    <3> QED
      BY <2>0, <3>1, <3>5, <3>6 DEF RecordsOK, Causes, Levels
  <2>2. CASE /\ level = "HS"
             /\ Enter(i, "HS")
             /\ UNCHANGED <<real_priv, mpp, lowering, mip, excpt, last>>
    <3>1. mode # "M"
      BY <1>1, <2>2, TakenFacts
    <3>2. handling' \in Frames /\ mode' = "S" /\ mstatus' \subseteq Fields
      BY <2>2, <3>1, EnterTypes
    <3>3. SwitchTypes'
      <4>1. \/ lowering'.at = "overwritten"
            \/ lowering'.at \in {"mpp", "mepc"} /\ mode' # "M"
            \/ InHandler' /\ mode' = "U"
            => lowering.at = "overwritten" \/ (lowering.at \in {"mpp", "mepc"} /\ mode # "M")
        BY <2>2, <3>1, <3>2
      <4> QED
        BY <1>0, <2>0, <2>2, <3>2, <4>1 DEF SwitchTypes
    <3>4. TypeOK'
      BY <1>0, <2>0, <2>2, <3>3, OtherwiseKept
    <3> QED
      BY <2>0, <2>2, <3>4 DEF RecordsOK
  <2> QED
    BY <1>1, <1>3, <2>1, <2>2
<1> QED
  BY <1>2, <1>3

LEMMA LowerTypes ==
  ASSUME TypeOK, RecordsOK, LowerPriv
  PROVE  TypeOK' /\ RecordsOK'
<1>1. /\ UNCHANGED <<hart, pins, test, ran, pc, mie, mip, mideleg, medeleg, excpt, test_status, last, slipped>>
      /\ UNCHANGED <<going, handling>> /\ status = "run" /\ ~InHandler /\ ~InHandler'
  BY DEF LowerPriv, run, hist, InHandler
<1>2. RecordsOK'
  BY <1>1 DEF RecordsOK
<1>0. SwitchTypes /\ pc \in Nat \ {0}
  BY SwitchTypesHold DEF TypeOK
<1>3. CASE lowering = Idle
  BY <1>3, Names DEF LowerPriv
<1>4. CASE lowering \in [at : Places, to : Levels \ {"M"}, stores : SUBSET Stores]
  <2>1. CASE /\ lowering.at # "mret" /\ lowering # Idle
             /\ IF mode # "M" \/ lowering.at = "overwritten"
                THEN status' = "untested" /\ UNCHANGED <<mode, mpp, mstatus, lowering>>
                ELSE \/ /\ lowering.at = "mpp"
                        /\ lowering' = [lowering EXCEPT !.at = "mepc"]
                        /\ UNCHANGED <<mode, mpp, mstatus, status>>
                     \/ /\ lowering.at = "mepc"
                        /\ Mret
                        /\ lowering' = [lowering EXCEPT !.at = "mret"]
                        /\ UNCHANGED status
             /\ UNCHANGED <<curr_priv, real_priv>>
    <3>1. ASSUME mode # "M" \/ lowering.at = "overwritten" PROVE SwitchTypes'
      BY <1>0, <1>1, <2>1, <3>1 DEF SwitchTypes
    <3>2. ASSUME mode = "M" /\ lowering.at = "mpp" PROVE SwitchTypes'
      <4>1. lowering' \in [at : Places, to : Levels \ {"M"}, stores : SUBSET Stores] /\ lowering'.at = "mepc"
        BY <1>4, <2>1, <3>2 DEF Places
      <4> QED
        BY <1>0, <1>1, <2>1, <3>2, <4>1 DEF SwitchTypes
    <3>3. ASSUME mode = "M" /\ lowering.at = "mepc" PROVE SwitchTypes'
      <4>1. lowering' \in [at : Places, to : Levels \ {"M"}, stores : SUBSET Stores] /\ lowering'.at = "mret"
        BY <1>4, <2>1, <3>3 DEF Places
      <4>2. mode' = mpp /\ mpp' = "U" /\ mstatus' \subseteq Fields /\ status' = status
        BY <2>1, <3>3 DEF Mret, TypeOK, Fields
      <4> QED
        BY <1>0, <1>1, <2>1, <3>3, <4>1, <4>2 DEF SwitchTypes
    <3>5. SwitchTypes'
      BY <1>4, <2>1, <3>1, <3>2, <3>3 DEF Places
    <3> QED
      BY <1>0, <1>1, <1>2, <3>5, OtherwiseKept
  <2>2. CASE /\ \E x \in lowering.stores :
                  /\ lowering' = [lowering EXCEPT !.stores = @ \ {x}]
                  /\ real_priv' = IF x = "real" THEN lowering.to ELSE real_priv
                  /\ curr_priv' = IF x = "curr" THEN lowering.to ELSE curr_priv
             /\ UNCHANGED <<mode, mpp, mstatus, status>>
    <3>1. /\ lowering' \in [at : Places, to : Levels \ {"M"}, stores : SUBSET Stores]
          /\ lowering'.at = lowering.at
      BY <1>4, <2>2
    <3>2. curr_priv' \in Levels /\ real_priv' \in Levels
      BY <1>4, <2>2 DEF TypeOK
    <3>3. SwitchTypes'
      BY <1>0, <1>1, <2>2, <3>1, <3>2 DEF SwitchTypes
    <3> QED
      BY <1>0, <1>1, <1>2, <3>3, OtherwiseKept
  <2>3. CASE /\ lowering.at = "mret" /\ lowering.stores = {}
             /\ lowering' = Idle
             /\ UNCHANGED <<curr_priv, real_priv, mode, mpp, mstatus, status>>
    <3>1. SwitchTypes'
      BY <1>0, <1>1, <2>3, Names DEF SwitchTypes
    <3> QED
      BY <1>0, <1>1, <1>2, <3>1, OtherwiseKept
  <2> QED
    BY <2>1, <2>2, <2>3 DEF LowerPriv
<1> QED
  BY <1>0, <1>3, <1>4 DEF SwitchTypes

\* What hshandler's steps do
LEMMA Moved ==
  ASSUME NEW f \in Frames, NEW r \in Rooms
  PROVE  /\ [f EXCEPT !.at = r] \in Frames /\ [f EXCEPT !.at = r].at = r
         /\ [f EXCEPT !.at = r].cause = f.cause /\ [f EXCEPT !.at = r].to = f.to
         /\ [f EXCEPT !.at = r].spp = f.spp /\ [f EXCEPT !.at = r].again = f.again
         /\ [f EXCEPT !.at = r] # NoFrame
<1>1. [f EXCEPT !.at = r] \in Frames /\ [f EXCEPT !.at = r].at = r
  BY DEF Frames
<1>2. NoFrame.at \notin Rooms
  BY DEF NoFrame, Rooms
<1> QED
  BY <1>1, <1>2 DEF Frames

\* A step of hshandler from one of its places to the next
To(r) ==
  /\ handling' \in Frames /\ InHandler' /\ handling'.at = r
  /\ handling'.cause = handling.cause /\ handling'.to = handling.to
  /\ handling'.spp = handling.spp /\ handling'.again = handling.again

LEMMA ToFacts ==
  ASSUME NEW r \in Rooms, handling \in Frames, handling' = [handling EXCEPT !.at = r]
  PROVE  To(r)
  BY Moved DEF To, InHandler

LEMMA HsFacts ==
  ASSUME TypeOK, HsHandler
  PROVE  /\ InHandler /\ handling \in Frames /\ status = "run"
         /\ UNCHANGED <<hart, pins, test, ran, pc, lowering, going, mie, mideleg, medeleg, test_status, slipped>>
         /\ \/ /\ status' = "untested"
               /\ UNCHANGED <<privs, mstatus, mip, excpt, last>>
            \/ /\ handling.at = "enter" /\ mode # "U" /\ real_priv' = "HS"
               /\ To(IF handling.cause = "ECU" THEN "asks" ELSE "record")
               /\ UNCHANGED <<curr_priv, mode, mpp, mstatus, mip, excpt, last, status>>
            \/ /\ handling.at = "asks" /\ real_priv = handling.to /\ To("finds")
               /\ UNCHANGED <<curr_priv, real_priv, mode, mpp, mstatus, mip, excpt, last, status>>
            \/ /\ handling.at = "asks" /\ real_priv # handling.to /\ Ecall(handling.to)
               /\ UNCHANGED <<mip, last>>
            \/ /\ handling.at = "finds" /\ curr_priv' = handling.to /\ To("record")
               /\ UNCHANGED <<real_priv, mode, mpp, mstatus, mip, excpt, last, status>>
            \/ /\ handling.at = "record" /\ mip' \subseteq mip /\ To("leave")
               /\ excpt' = [testing |-> FALSE, triggered |-> TRUE, cause |-> handling.cause, priv |-> "HS"]
               /\ last' = IF handling.cause = "ECU" THEN last ELSE last \union {<<handling.cause, "HS">>}
               /\ UNCHANGED <<curr_priv, real_priv, mode, mpp, mstatus, status>>
            \/ /\ handling.at = "leave" /\ mode # "U"
               /\ handling' = IF handling.again
                              THEN [at |-> "record", cause |-> "ECU", to |-> handling.to, spp |-> "U", again |-> FALSE]
                              ELSE NoFrame
               /\ \/ real_priv = "M" /\ Return("M") /\ status' = IF handling.cause = "ECU" THEN status ELSE "lost"
                  \/ real_priv = "HS" /\ Return("HS") /\ UNCHANGED status
                  \/ /\ real_priv \in {"HU", "VS"}
                     /\ real_priv' = curr_priv /\ mode' = handling.spp
                     /\ mstatus' = (mstatus \ {"SIE"}) \union {"SPIE"}
                                      \union (IF "SPIE" \in mstatus THEN {"SIE"} ELSE {})
                     /\ UNCHANGED <<mpp, status>>
               /\ UNCHANGED <<curr_priv, mip, excpt, last>>
<1>1. handling.at # "none" /\ status = "run"
      /\ UNCHANGED <<hart, pins, test, ran, pc, lowering, going, mie, mideleg, medeleg, test_status, slipped>>
  BY DEF HsHandler, HsEnter, HsGoto, HsRecord, HsLeave, run
<1>2. InHandler /\ handling \in Frames
  BY <1>1, Names, InFrame DEF InHandler
<1>3. CASE Refused
  BY <1>1, <1>2, <1>3 DEF Refused
<1>4. CASE HsEnter /\ ~Refused
  <2>1. (IF handling.cause = "ECU" THEN "asks" ELSE "record") \in Rooms
    BY DEF Rooms
  <2>2. /\ handling.at = "enter" /\ mode # "U" /\ real_priv' = "HS"
        /\ handling' = [handling EXCEPT !.at = IF handling.cause = "ECU" THEN "asks" ELSE "record"]
        /\ UNCHANGED <<curr_priv, mode, mpp, mstatus, mip, excpt, last, status>>
    BY <1>4 DEF HsEnter
  <2>3. To(IF handling.cause = "ECU" THEN "asks" ELSE "record")
    BY <1>2, <2>1, <2>2, ToFacts
  <2> QED
    BY <1>1, <1>2, <2>2, <2>3
<1>5. CASE HsGoto
  <2>1. CASE handling.at = "asks" /\ real_priv = handling.to
    <3>1. /\ handling' = [handling EXCEPT !.at = "finds"]
          /\ UNCHANGED <<curr_priv, real_priv, mode, mpp, mstatus, mip, excpt, last, status>>
      BY <1>5, <2>1 DEF HsGoto
    <3>2. To("finds")
      BY <1>2, <3>1, ToFacts DEF Rooms
    <3> QED
      BY <1>1, <1>2, <2>1, <3>1, <3>2
  <2>2. CASE handling.at = "asks" /\ real_priv # handling.to
    BY <1>1, <1>2, <1>5, <2>2 DEF HsGoto
  <2>3. CASE handling.at = "finds"
    <3>1. /\ handling' = [handling EXCEPT !.at = "record"] /\ curr_priv' = handling.to
          /\ UNCHANGED <<real_priv, mode, mpp, mstatus, mip, excpt, last, status>>
      BY <1>5, <2>3 DEF HsGoto
    <3>2. To("record")
      BY <1>2, <3>1, ToFacts DEF Rooms
    <3> QED
      BY <1>1, <1>2, <2>3, <3>1, <3>2
  <2> QED
    BY <1>5, <2>1, <2>2, <2>3 DEF HsGoto
<1>6. CASE HsRecord /\ ~Refused
  <2>1. /\ handling.at = "record"
        /\ mip' = Cleared(handling.cause, "HS")
        /\ Record("HS", handling.cause)
        /\ last' = IF handling.cause = "ECU" THEN last ELSE last \union {<<handling.cause, "HS">>}
        /\ handling' = [handling EXCEPT !.at = "leave"]
        /\ UNCHANGED <<curr_priv, real_priv, mode, mpp, mstatus, status>>
    BY <1>6 DEF HsRecord
  <2>2. To("leave") /\ mip' \subseteq mip
    BY <1>2, <2>1, ToFacts DEF Rooms, Cleared
  <2> QED
    BY <1>1, <1>2, <2>1, <2>2 DEF Record
<1>7. CASE HsLeave /\ ~Refused
  BY <1>1, <1>2, <1>7 DEF HsLeave
<1> QED
  BY <1>3, <1>4, <1>5, <1>6, <1>7 DEF HsHandler

LEMMA HsTypes ==
  ASSUME TypeOK, RecordsOK, FrameInv, HsHandler
  PROVE  TypeOK' /\ RecordsOK'
<1>1. /\ InHandler /\ handling \in Frames /\ status = "run" /\ SwitchTypes /\ pc \in Nat \ {0}
      /\ UNCHANGED <<hart, pins, test, ran, pc, lowering, going, mie, mideleg, medeleg, test_status, slipped>>
      /\ handling.cause \in Ints \union {"ECU"} /\ handling.to \in {"HS", "M"} /\ handling.spp \in {"U", "S"}
  BY HsFacts, SwitchTypesHold DEF TypeOK, Frames
<1>2. lowering = Idle \/ lowering.at = "mret"
  BY <1>1 DEF FrameInv
<1>3. ASSUME SwitchTypes', mip' \subseteq mip,
             excpt' \in [testing : BOOLEAN, triggered : BOOLEAN, cause : Causes, priv : Levels],
             last' \subseteq Ints \X {"M", "HS"}
      PROVE  TypeOK' /\ RecordsOK'
  BY <1>1, <1>3, OtherwiseKept DEF RecordsOK
<1>4. /\ excpt \in [testing : BOOLEAN, triggered : BOOLEAN, cause : Causes, priv : Levels]
      /\ last \subseteq Ints \X {"M", "HS"}
  BY DEF RecordsOK
<1>5. ASSUME NEW r \in Rooms, To(r), UNCHANGED <<mode, mpp, mstatus, status>>, ~excpt'.testing \/ excpt' = excpt,
             curr_priv' \in Levels, real_priv' \in Levels
      PROVE  SwitchTypes'
  BY <1>1, <1>5 DEF SwitchTypes, To
<1>6. CASE /\ status' = "untested"
           /\ UNCHANGED <<privs, mstatus, mip, excpt, last>>
  <2>1. SwitchTypes'
    BY <1>1, <1>6 DEF SwitchTypes, privs, InHandler
  <2> QED
    BY <1>3, <1>4, <1>6, <2>1
<1>7. CASE /\ handling.at = "enter" /\ real_priv' = "HS"
           /\ To(IF handling.cause = "ECU" THEN "asks" ELSE "record")
           /\ UNCHANGED <<curr_priv, mode, mpp, mstatus, mip, excpt, last, status>>
  <2>1. SwitchTypes'
    BY <1>1, <1>5, <1>7 DEF SwitchTypes, Levels, Rooms
  <2> QED
    BY <1>3, <1>4, <1>7, <2>1
<1>8. CASE /\ handling.at = "asks" /\ To("finds")
           /\ UNCHANGED <<curr_priv, real_priv, mode, mpp, mstatus, mip, excpt, last, status>>
  <2>1. SwitchTypes'
    BY <1>1, <1>5, <1>8 DEF SwitchTypes, Rooms
  <2> QED
    BY <1>3, <1>4, <1>8, <2>1
<1>9. CASE /\ handling.at = "asks" /\ Ecall(handling.to) /\ UNCHANGED <<mip, last>>
  <2>1. handling.cause = "ECU" /\ lowering = Idle
    BY <1>1, <1>9 DEF FrameInv
  <2>2. SwitchTypes' /\ excpt' \in [testing : BOOLEAN, triggered : BOOLEAN, cause : Causes, priv : Levels]
    BY <1>1, <1>9, <2>1, EcallTypes DEF SwitchTypes
  <2> QED
    BY <1>3, <1>4, <1>9, <2>2
<1>10. CASE /\ handling.at = "finds" /\ curr_priv' = handling.to /\ To("record")
            /\ UNCHANGED <<real_priv, mode, mpp, mstatus, mip, excpt, last, status>>
  <2>1. SwitchTypes'
    BY <1>1, <1>5, <1>10 DEF SwitchTypes, Levels, Rooms
  <2> QED
    BY <1>3, <1>4, <1>10, <2>1
<1>11. CASE /\ handling.at = "record" /\ mip' \subseteq mip /\ To("leave")
            /\ excpt' = [testing |-> FALSE, triggered |-> TRUE, cause |-> handling.cause, priv |-> "HS"]
            /\ last' = IF handling.cause = "ECU" THEN last ELSE last \union {<<handling.cause, "HS">>}
            /\ UNCHANGED <<curr_priv, real_priv, mode, mpp, mstatus, status>>
  <2>1. SwitchTypes'
    BY <1>1, <1>5, <1>11 DEF SwitchTypes, Rooms
  <2>2. excpt' \in [testing : BOOLEAN, triggered : BOOLEAN, cause : Causes, priv : Levels]
    BY <1>1, <1>11 DEF Causes, Levels
  <2>3. last' \subseteq Ints \X {"M", "HS"}
    <3>1. handling.cause # "ECU" => <<handling.cause, "HS">> \in Ints \X {"M", "HS"}
      BY <1>1
    <3> QED
      BY <1>4, <1>11, <3>1
  <2> QED
    BY <1>3, <1>11, <2>1, <2>2, <2>3
<1>12. CASE /\ handling.at = "leave" /\ mode # "U"
            /\ handling' = IF handling.again
                           THEN [at |-> "record", cause |-> "ECU", to |-> handling.to, spp |-> "U", again |-> FALSE]
                           ELSE NoFrame
            /\ \/ real_priv = "M" /\ Return("M") /\ status' = IF handling.cause = "ECU" THEN status ELSE "lost"
               \/ real_priv = "HS" /\ Return("HS") /\ UNCHANGED status
               \/ /\ real_priv \in {"HU", "VS"}
                  /\ real_priv' = curr_priv /\ mode' = handling.spp
                  /\ mstatus' = (mstatus \ {"SIE"}) \union {"SPIE"}
                                   \union (IF "SPIE" \in mstatus THEN {"SIE"} ELSE {})
                  /\ UNCHANGED <<mpp, status>>
            /\ UNCHANGED <<curr_priv, mip, excpt, last>>
  <2>1. /\ real_priv' = curr_priv /\ mode' \in {"U", "S", "M"} /\ mpp' \in {"U", mpp}
        /\ mstatus' \subseteq Fields /\ status' \in {"run", "lost"}
    <3>1. CASE Return("M") \/ Return("HS")
      BY <1>1, <1>12, <3>1, ReturnTypes
    <3>2. CASE ~(Return("M") \/ Return("HS"))
      BY <1>1, <1>12, <3>2 DEF SwitchTypes, Fields
    <3> QED
      BY <3>1, <3>2
  <2>2. handling' \in Frames \union {NoFrame}
    BY <1>1, <1>12 DEF Frames, Rooms
  <2>3. ~excpt.testing
    BY <1>1, <1>12 DEF FrameInv
  <2>4. SwitchTypes'
    BY <1>1, <1>12, <2>1, <2>2, <2>3 DEF SwitchTypes
  <2> QED
    BY <1>3, <1>4, <1>12, <2>4
<1> QED
  BY <1>6, <1>7, <1>8, <1>9, <1>10, <1>11, <1>12, HsFacts

LEMMA AdvanceFacts ==
  ASSUME TypeOK, Advance
  PROVE  /\ pc' \in Nat \ {0} /\ pc' = pc + 1 /\ last' = {}
         /\ UNCHANGED <<hart, pins, test, ran, slipped>>
         /\ H' = H /\ Writable("mie")' = Writable("mie") /\ Writable("mip")' = Writable("mip")
<1>1. pc' = pc + 1 /\ last' = {} /\ UNCHANGED <<hart, pins, test, ran, slipped>>
  BY DEF Advance, run
<1>2. pc \in Nat \ {0}
  BY DEF TypeOK
<1>3. pc' \in Nat \ {0}
  BY <1>1, <1>2
<1> QED
  BY <1>1, <1>3 DEF H, Writable

LEMMA FailTypes ==
  ASSUME TypeOK, RecordsOK, status = "run", Fail("untested")
  PROVE  TypeOK' /\ RecordsOK'
<1>1. status' = "untested" /\ UNCHANGED <<run, pc, privs, csrs, excpt, test_status, hist>>
  BY DEF Fail
<1>2. SwitchTypes /\ pc \in Nat \ {0}
  BY SwitchTypesHold DEF TypeOK
<1>3. SwitchTypes'
  BY <1>1, <1>2 DEF SwitchTypes, privs, csrs, InHandler
<1>4. TypeOK'
  BY <1>1, <1>2, <1>3, OtherwiseKept DEF run, csrs
<1> QED
  BY <1>1, <1>4 DEF RecordsOK, hist

LEMMA IllegalTypes ==
  ASSUME TypeOK, RecordsOK, status = "run", lowering = Idle, ~InHandler, Illegal
  PROVE  TypeOK' /\ RecordsOK'
<1>1. CASE ~excpt.testing
  BY <1>1, FailTypes DEF Illegal
<1>2. CASE excpt.testing
  <2>1. /\ Record("M", "ILI") /\ Return("M") /\ Advance
        /\ UNCHANGED <<curr_priv, lowering, going, handling, mie, mip, mideleg, medeleg, test_status, status>>
    BY <1>2 DEF Illegal
  <2>2. pc' \in Nat \ {0} /\ last' = {} /\ UNCHANGED <<hart, pins, test, ran, slipped>>
    BY <2>1, AdvanceFacts
  <2>3. real_priv' = curr_priv /\ mode' \in {"U", "S", "M"} /\ mpp' \in {"U", mpp} /\ mstatus' \subseteq Fields
    BY <2>1, ReturnTypes
  <2>5. RecordsOK' /\ ~excpt'.testing
    BY <2>1, <2>2 DEF Record, RecordsOK, Causes, Levels
  <2>6. SwitchTypes
    BY SwitchTypesHold
  <2>7. SwitchTypes'
    BY <2>1, <2>3, <2>5, <2>6 DEF SwitchTypes
  <2> QED
    BY <2>1, <2>2, <2>5, <2>7, OtherwiseKept
<1> QED
  BY <1>1, <1>2

\* What goto_priv does in a test
LEMMA GotoFacts ==
  ASSUME NEW to \in Levels, GotoPriv(to)
  PROVE  \/ /\ real_priv = to /\ going' = to
            /\ UNCHANGED <<curr_priv, real_priv, mode, mpp, lowering, handling, mstatus, excpt, status>>
         \/ /\ real_priv # to /\ curr_priv = to /\ going' = "none"
            /\ UNCHANGED <<curr_priv, real_priv, mode, mpp, lowering, handling, mstatus, excpt, status>>
         \/ /\ real_priv # to /\ curr_priv # to /\ to = "M" /\ curr_priv = "HU" /\ going' = "hop"
            /\ Ecall("HS") /\ UNCHANGED lowering
         \/ /\ real_priv # to /\ curr_priv # to /\ to = "M" /\ curr_priv # "HU" /\ going' = "none"
            /\ Ecall("M") /\ UNCHANGED lowering
         \/ /\ to # "M" /\ going' = "none"
            /\ status' = IF mode = "M" THEN status ELSE IF excpt.testing THEN "lost" ELSE "untested"
            /\ mpp' = ModeOf(to) /\ lowering' = [at |-> "mpp", to |-> to, stores |-> Stores]
            /\ UNCHANGED <<curr_priv, real_priv, mode, handling, mstatus, excpt>>
<1>1. CASE to = "M"
  <2>1. CASE real_priv # to /\ curr_priv # to
    <3>1. CASE curr_priv = "HU"
      BY <1>1, <2>1, <3>1 DEF GotoPriv
    <3>2. CASE curr_priv # "HU"
      BY <1>1, <2>1, <3>2 DEF GotoPriv
    <3> QED
      BY <3>1, <3>2
  <2>2. CASE ~(real_priv # to /\ curr_priv # to)
    BY <1>1, <2>2 DEF GotoPriv
  <2> QED
    BY <2>1, <2>2
<1>2. CASE to # "M"
  BY <1>2 DEF GotoPriv
<1> QED
  BY <1>1, <1>2

LEMMA GotoPrivTypes ==
  ASSUME TypeOK, RecordsOK, status = "run", lowering = Idle, ~InHandler, NEW to \in Levels, GotoPriv(to)
  PROVE  SwitchTypes' /\ excpt' \in [testing : BOOLEAN, triggered : BOOLEAN, cause : Causes, priv : Levels]
<1>1. /\ SwitchTypes
      /\ excpt \in [testing : BOOLEAN, triggered : BOOLEAN, cause : Causes, priv : Levels]
  BY SwitchTypesHold DEF RecordsOK
<1>2. CASE /\ going' \in {to, "none"}
           /\ UNCHANGED <<curr_priv, real_priv, mode, mpp, lowering, handling, mstatus, excpt, status>>
  BY <1>1, <1>2 DEF SwitchTypes, Goings, InHandler
<1>3. CASE going' \in {"hop", "none"} /\ (Ecall("HS") \/ Ecall("M")) /\ UNCHANGED lowering
  <2>1. going' \in Goings
    BY <1>3 DEF Goings
  <2> QED
    BY <1>3, <2>1, EcallTypes
<1>4. CASE /\ to # "M" /\ going' = "none"
           /\ status' = IF mode = "M" THEN status ELSE IF excpt.testing THEN "lost" ELSE "untested"
           /\ mpp' = ModeOf(to) /\ lowering' = [at |-> "mpp", to |-> to, stores |-> Stores]
           /\ UNCHANGED <<curr_priv, real_priv, mode, handling, mstatus, excpt>>
  <2>1. lowering' \in [at : Places, to : Levels \ {"M"}, stores : SUBSET Stores] /\ lowering'.at = "mpp"
    BY <1>4 DEF Places
  <2>2. mpp' \in {"U", "S", "M"} /\ going' \in Goings /\ ~InHandler'
    BY <1>4, Modes DEF Goings, InHandler
  <2> QED
    BY <1>1, <1>4, <2>1, <2>2 DEF SwitchTypes
<1> QED
  BY <1>2, <1>3, <1>4, GotoFacts

LEMMA GotoTypes ==
  ASSUME TypeOK, RecordsOK, NEW s \in Upcoming, StepGoto(s)
  PROVE  TypeOK' /\ RecordsOK'
<1>1. s.to \in Levels /\ status = "run" /\ lowering = Idle /\ ~InHandler
  BY StepFacts, GotoFields DEF StepGoto
<1>2. /\ GotoPriv(s.to) /\ last' = {} /\ pc' \in Nat \ {0}
      /\ UNCHANGED <<hart, pins, test, ran, slipped, mie, mip, mideleg, medeleg, test_status>>
  BY AdvanceFacts DEF StepGoto
<1>3. SwitchTypes' /\ excpt' \in [testing : BOOLEAN, triggered : BOOLEAN, cause : Causes, priv : Levels]
  BY <1>1, <1>2, GotoPrivTypes
<1> QED
  BY <1>2, <1>3, OtherwiseKept DEF RecordsOK

LEMMA GoOnTypes ==
  ASSUME TypeOK, RecordsOK, LevelsInv, GoOn
  PROVE  TypeOK' /\ RecordsOK'
<1>1. /\ status = "run" /\ ~InHandler /\ going \in {"hop"} \union Levels
      /\ UNCHANGED <<hart, pins, test, ran, pc, mie, mip, mideleg, medeleg, test_status, last, slipped>>
  BY DEF GoOn, run, hist
<1>2. lowering = Idle /\ pc \in Nat \ {0} /\ SwitchTypes
  BY <1>1, SwitchTypesHold DEF LevelsInv, TypeOK, Levels
<1>3. SwitchTypes' /\ excpt' \in [testing : BOOLEAN, triggered : BOOLEAN, cause : Causes, priv : Levels]
  <2>1. CASE GotoPriv("M")
    BY <1>1, <1>2, <2>1, GotoPrivTypes DEF Levels
  <2>2. CASE /\ going \in Levels /\ curr_priv' = going /\ going' = "none"
             /\ UNCHANGED <<real_priv, mode, mpp, lowering, handling, mstatus, excpt, status>>
    BY <1>2, <2>2 DEF SwitchTypes, RecordsOK, Goings, InHandler
  <2> QED
    BY <2>1, <2>2 DEF GoOn
<1> QED
  BY <1>1, <1>2, <1>3, OtherwiseKept DEF RecordsOK

LEMMA CsrTypes ==
  ASSUME TypeOK, RecordsOK, NEW s \in Upcoming, StepCsr(s)
  PROVE  TypeOK' /\ RecordsOK'
<1>1. s \in Steps /\ s.op = "csr" /\ status = "run" /\ lowering = Idle /\ ~InHandler
  BY StepFacts DEF StepCsr
<1>2. CASE ~MayAccess(s.csr)
  BY <1>1, <1>2, IllegalTypes DEF StepCsr
<1>3. CASE MayAccess(s.csr)
  <2>1. /\ mstatus' = IF s.csr \in {"mstatus", "sstatus"} THEN Written(mstatus, s) ELSE mstatus
        /\ mie' = IF s.csr \in {"mie", "sie"} THEN Written(mie, s) ELSE mie
        /\ mip' = IF s.csr \in {"mip", "sip"} THEN Written(mip, s) ELSE mip
        /\ mideleg' = IF s.csr = "mideleg" THEN Written(mideleg, s) ELSE mideleg
        /\ medeleg' = IF s.csr = "medeleg" THEN Written(medeleg, s) ELSE medeleg
        /\ Advance
        /\ UNCHANGED <<curr_priv, real_priv, mode, mpp, lowering, going, handling, excpt, test_status, status>>
    BY <1>3 DEF StepCsr, privs
  <2>2. /\ pc' \in Nat \ {0} /\ last' = {} /\ UNCHANGED <<hart, pins, test, ran, slipped>>
        /\ H' = H /\ Writable("mie")' = Writable("mie") /\ Writable("mip")' = Writable("mip")
    BY <2>1, AdvanceFacts
  <2>3. RecordsOK'
    BY <2>1, <2>2 DEF RecordsOK
  <2>4. mstatus' \subseteq Fields
    <3>1. s.csr \in {"mstatus", "sstatus"} => Writable(s.csr) \subseteq Fields
      BY WritableBits DEF Fields
    <3> QED
      BY <1>1, <2>1, <3>1, WrittenBits DEF TypeOK
  <2>5. mie' \subseteq Writable("mie")
    <3>1. mideleg \subseteq Writable("mie")
      BY WritableBits DEF TypeOK, SInts, Ints
    <3>2. s.csr \in {"mie", "sie"} => Writable(s.csr) \subseteq Writable("mie")
      BY <3>1, WritableBits
    <3> QED
      BY <1>1, <2>1, <3>2, WrittenBits DEF TypeOK
  <2>6. mip' \subseteq Writable("mip")
    <3>1. s.csr \in {"mip", "sip"} => Writable(s.csr) \subseteq Writable("mip")
      BY WritableBits DEF SInts
    <3> QED
      BY <1>1, <2>1, <3>1, WrittenBits DEF TypeOK
  <2>7. mideleg' \subseteq SInts
    <3>1. Writable("mideleg") \subseteq SInts
      BY WritableBits
    <3> QED
      BY <1>1, <2>1, <3>1, WrittenBits DEF TypeOK
  <2>8. medeleg' \subseteq {"ECU"}
    <3>1. Writable("medeleg") \subseteq {"ECU"}
      BY WritableBits
    <3> QED
      BY <1>1, <2>1, <3>1, WrittenBits DEF TypeOK
  <2> QED
    BY <2>1, <2>2, <2>3, <2>4, <2>5, <2>6, <2>7, <2>8 DEF TypeOK, InHandler
<1> QED
  BY <1>2, <1>3

LEMMA OtherStepTypes ==
  ASSUME TypeOK, RecordsOK, NEW s \in Upcoming,
         StepSetup(s) \/ StepWfi(s) \/ StepAssert(s)
  PROVE  TypeOK' /\ RecordsOK'
<1>1. status = "run" /\ lowering = Idle /\ ~InHandler
  BY StepFacts
<1>2. CASE StepSetup(s)
  <2>1. /\ excpt' = [excpt EXCEPT !.testing = TRUE, !.triggered = FALSE]
        /\ Advance
        /\ UNCHANGED <<curr_priv, real_priv, mode, mpp, lowering, going, handling, csrs, test_status, status>>
    BY <1>2 DEF StepSetup, privs
  <2>2. RecordsOK'
    BY <2>1, AdvanceFacts DEF RecordsOK
  <2>3. lowering' = Idle /\ Idle.at = "none"
    BY <1>1, <2>1 DEF Idle
  <2> QED
    BY <1>1, <2>1, <2>2, <2>3, AdvanceFacts DEF TypeOK, csrs, InHandler
<1>3. CASE StepWfi(s)
  <2>1. CASE ~Awake /\ Refuses
    BY <1>1, <1>3, <2>1, IllegalTypes DEF StepWfi
  <2>2. CASE ~(~Awake /\ Refuses)
    <3>1. /\ status' \in {status, "waiting"} /\ Advance
          /\ UNCHANGED <<curr_priv, real_priv, mode, mpp, lowering, going, handling, csrs, excpt, test_status>>
      BY <1>3, <2>2 DEF StepWfi, privs
    <3>2. RecordsOK'
      BY <3>1, AdvanceFacts DEF RecordsOK
    <3> QED
      BY <1>1, <3>1, <3>2, AdvanceFacts DEF TypeOK, csrs, InHandler
  <2> QED
    BY <2>1, <2>2
<1>4. CASE StepAssert(s)
  <2>1. /\ test_status' = (test_status /\ Verdict(s)) /\ Advance
        /\ UNCHANGED <<curr_priv, real_priv, mode, mpp, lowering, going, handling, csrs, excpt, status>>
    BY <1>4 DEF StepAssert, privs
  <2>2. RecordsOK'
    <3>1. test_status' \in BOOLEAN
      BY <2>1 DEF RecordsOK
    <3> QED
      BY <2>1, <3>1, AdvanceFacts DEF RecordsOK
  <2> QED
    BY <2>1, <2>2, AdvanceFacts DEF TypeOK, csrs, InHandler
<1> QED
  BY <1>2, <1>3, <1>4

LEMMA ResetTypes ==
  ASSUME TypeOK, ResetCsrs
  PROVE  /\ mode' = "M" /\ mpp' = "U" /\ mstatus' \subseteq Fields
         /\ mie' = {} /\ mip' = {} /\ mideleg' = {} /\ medeleg' = {"ECU"}
  BY DEF ResetCsrs, AfterTrap, TypeOK, Fields

LEMMA EndTypes ==
  ASSUME TypeOK, RecordsOK, NEW s \in Upcoming, TestEnd(s)
  PROVE  TypeOK' /\ RecordsOK'
<1>1. status = "run" /\ lowering = Idle /\ ~InHandler
  BY StepFacts
<1>2. CASE mode # "M" /\ ~excpt.testing
  BY <1>1, <1>2, FailTypes DEF TestEnd
<1>3. CASE ~(mode # "M" /\ ~excpt.testing)
  <2>1. /\ ResetCsrs
        /\ IF mode # "M" THEN Record("M", "ILI") ELSE UNCHANGED excpt
        /\ test' = NoTest /\ last' = {} /\ slipped' = FALSE
        /\ real_priv' = IF mode # "M" THEN curr_priv ELSE real_priv
        /\ UNCHANGED <<hart, pins, pc, ran, curr_priv, lowering, going, handling, test_status, status>>
    BY <1>3 DEF TestEnd
  <2>2. H' = H
    BY <2>1 DEF H
  <2>3. RecordsOK'
    <3>1. excpt' = excpt \/ excpt' = [testing |-> FALSE, triggered |-> TRUE, cause |-> "ILI", priv |-> "M"]
      BY <2>1 DEF Record
    <3>2. excpt' \in [testing : BOOLEAN, triggered : BOOLEAN, cause : Causes, priv : Levels]
      <4>1. "ILI" \in Causes /\ "M" \in Levels
        BY DEF Causes, Levels
      <4>2. excpt \in [testing : BOOLEAN, triggered : BOOLEAN, cause : Causes, priv : Levels]
        BY DEF RecordsOK
      <4>3. CASE excpt' = [testing |-> FALSE, triggered |-> TRUE, cause |-> "ILI", priv |-> "M"]
        BY <4>1, <4>3
      <4>4. CASE excpt' = excpt
        BY <4>2, <4>4
      <4> QED
        BY <3>1, <4>3, <4>4
    <3> QED
      BY <2>1, <3>2 DEF RecordsOK
  <2>4. Idle.at = "none"
    BY DEF Idle
  <2>5. TypeOK'
    BY <1>1, <2>1, <2>2, <2>4, ResetTypes DEF TypeOK, SInts, InHandler
  <2> QED
    BY <2>3, <2>5
<1> QED
  BY <1>2, <1>3

LEMMA MainTypes ==
  ASSUME TypeOK, RecordsOK, LevelsInv, main
  PROVE  TypeOK' /\ RecordsOK'
<1>1. /\ status = "run" /\ lowering = Idle /\ ~InHandler /\ ran < H.max
      /\ ResetCsrs /\ test' \in H.tests /\ pc' = 1 /\ ran' = ran + 1 /\ test_status' = TRUE
      /\ UNCHANGED <<hart, pins, curr_priv, real_priv, lowering, going, handling, excpt, status, last, slipped>>
  BY DEF main, LevelsInv, hist
<1>2. H' = H
  BY <1>1 DEF H
<1>3. RecordsOK'
  BY <1>1 DEF RecordsOK
<1>4. Idle.at = "none"
  BY DEF Idle
<1>5. ran' \in 0 .. H.max
  <2>1. H.max \in Nat /\ ran \in 0 .. H.max
    BY InterruptsAssumption DEF TypeOK, H
  <2> QED
    BY <1>1, <2>1
<1>6. TypeOK'
  BY <1>1, <1>2, <1>4, <1>5, ResetTypes DEF TypeOK, SInts, InHandler
<1> QED
  BY <1>3, <1>6

LEMMA OutsideTypes ==
  ASSUME TypeOK, RecordsOK, WakeUp \/ Controller
  PROVE  TypeOK' /\ RecordsOK'
<1>1. CASE WakeUp
  <2>1. /\ status' = "run" /\ status = "waiting"
        /\ UNCHANGED <<run, pc, privs, csrs, excpt, test_status, hist>>
    BY <1>1 DEF WakeUp
  <2>2. H' = H /\ Writable("mie")' = Writable("mie") /\ Writable("mip")' = Writable("mip")
    BY <2>1 DEF H, Writable, run
  <2> QED
    BY <2>1, <2>2 DEF TypeOK, RecordsOK, run, privs, csrs, hist, InHandler
<1>2. CASE Controller
  <2>1. PICK i \in H.pins : pins' = (pins \union {i}) \ (pins \intersect {i})
    BY <1>2 DEF Controller
  <2>2. UNCHANGED <<hart, test, ran, pc, privs, csrs, excpt, test_status, status, hist>>
    BY <1>2 DEF Controller
  <2>3. H' = H /\ Writable("mie")' = Writable("mie") /\ Writable("mip")' = Writable("mip")
    BY <2>2 DEF H, Writable
  <2>4. pins' \subseteq H.pins
    BY <2>1 DEF TypeOK
  <2>5. RecordsOK'
    BY <2>2 DEF RecordsOK, hist
  <2> QED
    BY <2>2, <2>3, <2>4, <2>5 DEF TypeOK, privs, csrs, InHandler
<1> QED
  BY <1>1, <1>2

LEMMA StepTypes ==
  ASSUME TypeOK, RecordsOK, FrameInv, LevelsInv, [Next]_ivars
  PROVE  TypeOK' /\ RecordsOK'
<1>1. CASE UNCHANGED ivars
  <2>1. UNCHANGED <<hart, pins, test, ran, pc, privs, csrs, excpt, test_status, status, hist>>
    BY <1>1 DEF ivars, run
  <2>2. H' = H /\ Writable("mie")' = Writable("mie") /\ Writable("mip")' = Writable("mip")
    BY <2>1 DEF H, Writable
  <2>3. RecordsOK'
    BY <2>1 DEF RecordsOK, hist
  <2> QED
    BY <2>1, <2>2, <2>3 DEF TypeOK, privs, csrs, InHandler
<1>2. CASE \E s \in Upcoming : Take(s)
  BY <1>2, GotoTypes, CsrTypes, OtherStepTypes, EndTypes DEF Take
<1>3. CASE Interrupt \/ HsHandler \/ GoOn \/ LowerPriv \/ WakeUp \/ main \/ Controller
  BY <1>3, InterruptTypes, HsTypes, GoOnTypes, LowerTypes, OutsideTypes, MainTypes
<1> QED
  BY <1>1, <1>2, <1>3 DEF Next, Program

-----------------------------------------------------------------------------
(***************************************************************************)
(* What is enabled was enabled by the running test.                        *)
(***************************************************************************)
\* The steps behind a test, and the step it makes now
LEMMA Enabling ==
  ASSUME TypeOK, NEW s \in Upcoming, pc' = pc + 1, test' = test
  PROVE  /\ Enabled \subseteq Enabled'
         /\ s.op = "csr" /\ s.csr \in {"mie", "sie"} => s.bits \subseteq Enabled'
<1>1. pc \in Nat \ {0} /\ s = Scripts[test][pc]
  BY StepFacts DEF TypeOK
<1>2. 1 .. pc' - 1 = (1 .. pc - 1) \union {pc}
  BY <1>1
<1> QED
  BY <1>1, <1>2 DEF Enabled

LEMMA OwnStep ==
  ASSUME TypeOK, MieOwn, [Next]_ivars
  PROVE  MieOwn'
<1>1. CASE UNCHANGED <<test, pc, mie>>
  BY <1>1 DEF MieOwn, Enabled
<1>2. ASSUME mie' = {} PROVE MieOwn'
  BY <1>2 DEF MieOwn
<1>3. ASSUME NEW s \in Upcoming, Take(s) PROVE MieOwn'
  <2>1. test # NoTest /\ status = "run" /\ s \in Steps
    BY StepFacts
  <2>2. ASSUME Advance, mie' = mie PROVE MieOwn'
    BY <2>1, <2>2, AdvanceFacts, Enabling DEF MieOwn
  <2>3. ASSUME Fail("untested") PROVE MieOwn'
    BY <1>1, <2>3 DEF Fail, run, csrs
  <2>4. ASSUME Illegal PROVE MieOwn'
    BY <2>2, <2>3, <2>4 DEF Illegal
  <2>5. CASE StepGoto(s)
    BY <2>2, <2>5 DEF StepGoto
  <2>6. CASE StepSetup(s) \/ StepAssert(s)
    BY <2>2, <2>6 DEF StepSetup, StepAssert, csrs
  <2>7. CASE StepWfi(s)
    BY <2>2, <2>4, <2>7 DEF StepWfi, csrs
  <2>8. CASE TestEnd(s)
    BY <1>2, <2>3, <2>8 DEF TestEnd, ResetCsrs
  <2>9. CASE StepCsr(s)
    <3>1. CASE ~MayAccess(s.csr)
      BY <2>4, <2>9, <3>1 DEF StepCsr
    <3>2. CASE MayAccess(s.csr)
      <4>1. Advance /\ mie' = IF s.csr \in {"mie", "sie"} THEN Written(mie, s) ELSE mie
        BY <2>9, <3>2 DEF StepCsr
      <4>2. pc' = pc + 1 /\ test' = test
        BY <4>1, AdvanceFacts
      <4>3. CASE s.csr \in {"mie", "sie"}
        <5>1. Written(mie, s) \subseteq mie \union s.bits
          <6>1. s.how \in {"set", "clear", "write"}
            BY <2>1, <2>9, CsrFields DEF StepCsr
          <6> QED
            BY <6>1 DEF Written
        <5>2. s.bits \subseteq Enabled' /\ Enabled \subseteq Enabled'
          BY <2>9, <4>2, <4>3, Enabling DEF StepCsr
        <5> QED
          BY <2>1, <4>1, <4>2, <4>3, <5>1, <5>2 DEF MieOwn
      <4>4. CASE s.csr \notin {"mie", "sie"}
        BY <2>2, <4>1, <4>4
      <4> QED
        BY <4>3, <4>4
    <3> QED
      BY <3>1, <3>2
  <2> QED
    BY <1>3, <2>5, <2>6, <2>7, <2>8, <2>9 DEF Take
<1>4. CASE Interrupt
  BY <1>1, <1>4 DEF Interrupt, Fail, run, csrs
<1>5. CASE HsHandler \/ GoOn \/ LowerPriv \/ WakeUp
  BY <1>1, <1>5 DEF HsHandler, GoOn, LowerPriv, WakeUp, run, csrs
<1>6. CASE main
  BY <1>2, <1>6 DEF main, ResetCsrs
<1>7. CASE Controller
  BY <1>1, <1>7 DEF Controller, csrs
<1>8. CASE UNCHANGED ivars
  BY <1>1, <1>8 DEF ivars, run, csrs
<1> QED
  BY <1>3, <1>4, <1>5, <1>6, <1>7, <1>8 DEF Next, Program

-----------------------------------------------------------------------------
(***************************************************************************)
(* What has been handled does not come again by itself.                    *)
(***************************************************************************)
LEMMA HeldStep ==
  ASSUME TypeOK, RecordsOK, FrameInv, HeldOff, [Next]_ivars
  PROVE  HeldOff'
<1>1. ASSUME last' = {} PROVE HeldOff'
  BY <1>1 DEF HeldOff
<1>2. ASSUME last' = last, mip' \subseteq mip, "SIE" \in mstatus' => "SIE" \in mstatus PROVE HeldOff'
  BY <1>2 DEF HeldOff, Interrupted
<1>3. CASE Interrupt
  <2>1. CASE Fail("untested")
    BY <1>2, <2>1 DEF Fail, csrs, hist
  <2>2. CASE ~Fail("untested")
    <3>1. PICK i \in Ints, level \in {"M", "HS"} :
            \/ level = "M" /\ mip' = Cleared(i, level) /\ last' = last \union {<<i, level>>}
            \/ level = "HS" /\ mode # "M" /\ Enter(i, "HS") /\ UNCHANGED <<mip, last>>
      BY <1>3, <2>2, TakenFacts DEF Interrupt
    <3>2. CASE level = "M" /\ mip' = Cleared(i, level) /\ last' = last \union {<<i, level>>}
      <4>1. mip' = mip \ ({i} \intersect Writable("mip"))
        BY <3>2 DEF Cleared
      <4>2. mip' \subseteq mip /\ i \notin mip'
        BY <4>1 DEF TypeOK
      <4>3. <<i, level>> \in last' /\ <<i, level>>[2] = "M"
        BY <3>2
      <4>4. Interrupted'
        BY <4>3 DEF Interrupted
      <4>5. ASSUME NEW h \in last', h[2] = "M" PROVE h[1] \notin mip'
        BY <3>2, <4>2, <4>5 DEF HeldOff
      <4> QED
        BY <4>4, <4>5 DEF HeldOff
    <3>3. CASE level = "HS" /\ mode # "M" /\ Enter(i, "HS") /\ UNCHANGED <<mip, last>>
      <4>1. "SIE" \notin mstatus'
        BY <3>3, EnterTypes
      <4> QED
        BY <1>2, <3>3, <4>1
    <3> QED
      BY <3>1, <3>2, <3>3
  <2> QED
    BY <2>1, <2>2
<1>4. CASE LowerPriv
  <2>1. mstatus' = mstatus \/ Mret
    BY <1>4 DEF LowerPriv
  <2>2. "SIE" \in mstatus' => "SIE" \in mstatus
    BY <2>1 DEF Mret
  <2> QED
    BY <1>2, <1>4, <2>2 DEF LowerPriv, hist
<1>5. ASSUME NEW s \in Upcoming, Take(s) PROVE HeldOff'
  <2>1. CASE Fail("untested")
    BY <1>2, <2>1 DEF Fail, csrs, hist
  <2>2. CASE Advance
    BY <1>1, <2>2, AdvanceFacts
  <2>3. CASE Illegal
    BY <2>1, <2>2, <2>3 DEF Illegal
  <2>4. CASE TestEnd(s)
    BY <1>1, <2>1, <2>4 DEF TestEnd
  <2> QED
    BY <1>5, <2>2, <2>3, <2>4 DEF Take, StepGoto, StepCsr, StepSetup, StepWfi, StepAssert
<1>6. CASE main
  <2>1. mip' = {} /\ last' = last
    BY <1>6 DEF main, ResetCsrs, hist
  <2>2. "SIE" \in mstatus' => "SIE" \in mstatus
    BY <1>6 DEF main, ResetCsrs, AfterTrap
  <2> QED
    BY <1>2, <2>1, <2>2
<1>7. CASE WakeUp \/ Controller \/ UNCHANGED ivars
  BY <1>2, <1>7 DEF WakeUp, Controller, ivars, csrs, hist
<1>8. ASSUME NEW to \in {"HS", "M"}, Ecall(to) PROVE "SIE" \in mstatus' => "SIE" \in mstatus
  <2>1. CASE mode = "U" /\ Enter("ECU", to)
    BY <2>1, EnterTypes
  <2>2. CASE ~(mode = "U" /\ Enter("ECU", to))
    BY <1>8, <2>2, EcallFacts
  <2> QED
    BY <2>1, <2>2
<1>9. CASE GoOn
  <2>1. mip' = mip /\ last' = last
    BY <1>9 DEF GoOn, hist
  <2>2. "SIE" \in mstatus' => "SIE" \in mstatus
    <3>1. CASE GotoPriv("M")
      BY <1>8, <3>1, GotoFacts DEF Levels
    <3>2. CASE UNCHANGED mstatus
      BY <3>2
    <3> QED
      BY <1>9, <3>1, <3>2 DEF GoOn
  <2> QED
    BY <1>2, <2>1, <2>2
<1>10. CASE HsHandler
  <2>1. InHandler /\ handling \in Frames /\ handling.to \in {"HS", "M"}
    BY <1>10, HsFacts DEF Frames
  <2>2. CASE UNCHANGED <<mstatus, mip, last>>
    BY <1>2, <2>2
  <2>3. CASE Ecall(handling.to) /\ UNCHANGED <<mip, last>>
    BY <1>2, <1>8, <2>1, <2>3
  <2>4. CASE /\ mip' \subseteq mip
             /\ last' = IF handling.cause = "ECU" THEN last ELSE last \union {<<handling.cause, "HS">>}
             /\ UNCHANGED mstatus
    <3>1. "SIE" \notin mstatus'
      BY <2>1, <2>4 DEF FrameInv
    <3>2. ASSUME NEW h \in last', h[2] = "M" PROVE h[1] \notin mip'
      <4>1. h \in last
        BY <2>4, <3>2
      <4> QED
        BY <2>4, <3>2, <4>1 DEF HeldOff
    <3> QED
      BY <3>1, <3>2 DEF HeldOff
  <2>5. CASE (Return("M") \/ Return("HS")) /\ UNCHANGED <<mip, last>>
    <3>1. "SIE" \in mstatus' => "SIE" \in mstatus
      BY <2>5, ReturnTypes
    <3> QED
      BY <1>2, <2>5, <3>1
  <2>6. CASE handling.at = "leave" /\ real_priv \in {"HU", "VS"} /\ UNCHANGED <<mip, last>>
    <3>1. Interrupted
      BY <2>1, <2>6 DEF FrameInv
    <3> QED
      BY <2>6, <3>1 DEF HeldOff, Interrupted
  <2> QED
    BY <1>10, <2>2, <2>3, <2>4, <2>5, <2>6, HsFacts
<1> QED
  BY <1>3, <1>4, <1>5, <1>6, <1>7, <1>9, <1>10 DEF Next, Program

-----------------------------------------------------------------------------
(***************************************************************************)
(* hshandler.                                                              *)
(***************************************************************************)
\* An ecall of a test
\* What an interrupt does
LEMMA InterruptFacts ==
  ASSUME TypeOK, RecordsOK, FrameInv, Interrupt
  PROVE  /\ status = "run" /\ Taken # {}
         /\ \/ Fail("untested")
            \/ /\ excpt.testing
               /\ slipped' = (slipped \/ lowering # Idle)
               /\ UNCHANGED <<hart, pins, test, ran, pc, curr_priv, going, mie, mideleg, medeleg, test_status, status>>
               /\ \/ /\ real_priv' = curr_priv /\ mode' = ModeOf(curr_priv)
                     /\ ~excpt'.testing /\ Interrupted' /\ ("SIE" \in mstatus' => "SIE" \in mstatus)
                     /\ lowering' = IF lowering.at = "mepc" THEN [lowering EXCEPT !.at = "overwritten"] ELSE lowering
                     /\ UNCHANGED handling
                  \/ /\ ~InHandler /\ mode # "M" /\ (lowering = Idle \/ lowering.at = "mret")
                     /\ \E i \in Ints : handling'.cause = i
                     /\ InHandler' /\ handling'.at = "enter" /\ ~handling'.again /\ handling'.spp = mode
                     /\ handling'.to = "HS" /\ handling' \in Frames
                     /\ mode' = "S" /\ "SIE" \notin mstatus'
                     /\ UNCHANGED <<real_priv, mpp, lowering, excpt, last>>
<1>1. PICK i \in Ints, level \in {"M", "HS"} :
        /\ <<i, level>> \in Taken
        /\ IF ~excpt.testing THEN Fail("untested")
           ELSE /\ \/ /\ level = "M"
                      /\ mip' = Cleared(i, level)
                      /\ Record(level, i)
                      /\ Return(level)
                      /\ lowering' = IF lowering.at = "mepc" THEN [lowering EXCEPT !.at = "overwritten"] ELSE lowering
                      /\ last' = last \union {<<i, level>>}
                      /\ UNCHANGED handling
                   \/ /\ level = "HS"
                      /\ Enter(i, "HS")
                      /\ UNCHANGED <<real_priv, mpp, lowering, mip, excpt, last>>
                /\ slipped' = (slipped \/ lowering # Idle)
                /\ UNCHANGED <<run, pc, curr_priv, going, mie, mideleg, medeleg, test_status, status>>
  BY DEF Interrupt
<1>0. status = "run" /\ Taken # {}
  BY <1>1 DEF Interrupt
<1>2. CASE ~excpt.testing
  BY <1>0, <1>1, <1>2
<1>3. CASE excpt.testing
  <2>0. /\ slipped' = (slipped \/ lowering # Idle)
        /\ UNCHANGED <<hart, pins, test, ran, pc, curr_priv, going, mie, mideleg, medeleg, test_status, status>>
    BY <1>1, <1>3 DEF run
  <2>1. CASE /\ level = "M"
             /\ Record(level, i)
             /\ Return(level)
             /\ lowering' = IF lowering.at = "mepc" THEN [lowering EXCEPT !.at = "overwritten"] ELSE lowering
             /\ last' = last \union {<<i, level>>}
             /\ UNCHANGED handling
    <3>1. real_priv' = curr_priv /\ mode' = ModeOf(curr_priv) /\ ("SIE" \in mstatus' => "SIE" \in mstatus)
      BY <2>1, ReturnTypes DEF ReturnMode
    <3>2. ~excpt'.testing
      BY <2>1 DEF Record
    <3>3. <<i, level>> \in last' /\ <<i, level>>[2] = "M"
      BY <2>1
    <3>4. Interrupted'
      BY <3>3 DEF Interrupted
    <3> QED
      BY <1>0, <1>3, <2>0, <2>1, <3>1, <3>2, <3>4
  <2>2. CASE /\ level = "HS"
             /\ Enter(i, "HS")
             /\ UNCHANGED <<real_priv, mpp, lowering, mip, excpt, last>>
    <3>1. mode = "U" \/ (mode = "S" /\ "SIE" \in mstatus)
      BY <1>1, <2>2, TakenFacts
    <3>2. ~InHandler
      BY <1>0, <1>3, <3>1 DEF TypeOK, FrameInv
    <3>3. lowering = Idle \/ lowering.at = "mret"
      BY <1>0, <1>3, <3>1 DEF TypeOK, Places
    <3>4. /\ InHandler' /\ handling'.at = "enter" /\ handling'.again = InHandler /\ handling'.spp = mode
          /\ handling'.cause = i /\ mode' = "S" /\ "SIE" \notin mstatus' /\ handling'.to = "HS" /\ handling' \in Frames
      BY <2>2, <3>1, EnterTypes
    <3> QED
      BY <1>0, <1>3, <2>0, <2>2, <3>1, <3>2, <3>3, <3>4
  <2> QED
    BY <1>1, <1>3, <2>1, <2>2
<1> QED
  BY <1>2, <1>3

LEMMA EcallFrame ==
  ASSUME TypeOK, ~InHandler, lowering = Idle, UNCHANGED lowering, NEW to \in {"HS", "M"}, Ecall(to),
         to = "HS" => going' = "hop"
  PROVE  FrameInv'
<1>1. CASE mode = "U" /\ Enter("ECU", to)
  <2>1. /\ handling'.at = "enter" /\ handling'.cause = "ECU" /\ handling'.to = to
        /\ ~handling'.again /\ "SIE" \notin mstatus'
    BY <1>1, EnterTypes
  <2> QED
    BY <2>1 DEF FrameInv
<1>2. CASE handling' = Behind \/ handling' = handling
  BY <1>2, BehindTypes DEF FrameInv, InHandler
<1> QED
  BY <1>1, <1>2, EcallFacts

LEMMA GotoFrame ==
  ASSUME TypeOK, ~InHandler, lowering = Idle, NEW to \in Levels, GotoPriv(to)
  PROVE  FrameInv'
<1>1. CASE UNCHANGED handling
  BY <1>1 DEF FrameInv, InHandler
<1>2. CASE Ecall("HS") /\ going' = "hop" /\ UNCHANGED lowering
  BY <1>2, EcallFrame
<1>3. CASE Ecall("M") /\ UNCHANGED lowering
  BY <1>3, EcallFrame
<1> QED
  BY <1>1, <1>2, <1>3, GotoFacts

LEMMA FrameStep ==
  ASSUME TypeOK, RecordsOK, FrameInv, LevelsInv, [Next]_ivars
  PROVE  FrameInv'
<1>1. ASSUME ~InHandler, UNCHANGED handling PROVE FrameInv'
  BY <1>1 DEF FrameInv, InHandler
<1>2. ASSUME UNCHANGED <<privs, mstatus, excpt, last>> PROVE FrameInv'
  BY <1>2 DEF FrameInv, InHandler, Interrupted, privs
<1>3. CASE Interrupt
  <2>1. CASE Fail("untested")
    BY <1>2, <2>1 DEF Fail, hist, csrs
  <2>2. CASE /\ UNCHANGED <<curr_priv, going, handling>> /\ excpt.testing
             /\ ~excpt'.testing /\ Interrupted' /\ ("SIE" \in mstatus' => "SIE" \in mstatus)
             /\ lowering' = IF lowering.at = "mepc" THEN [lowering EXCEPT !.at = "overwritten"] ELSE lowering
    <3>1. InHandler => lowering' = lowering
      BY <2>2, Names DEF FrameInv
    <3> QED
      BY <2>2, <3>1 DEF FrameInv, InHandler
  <2>3. CASE /\ lowering = Idle \/ lowering.at = "mret"
             /\ \E i \in Ints : handling'.cause = i
             /\ handling'.at = "enter" /\ ~handling'.again
             /\ "SIE" \notin mstatus'
             /\ UNCHANGED lowering
    <3>1. handling'.cause # "ECU"
      BY <2>3 DEF Ints, SInts
    <3> QED
      BY <2>3, <3>1 DEF FrameInv
  <2> QED
    BY <1>3, <2>1, <2>2, <2>3, InterruptFacts
<1>4. CASE HsHandler
  <2>0. /\ InHandler /\ handling \in Frames /\ handling.to \in {"HS", "M"}
        /\ UNCHANGED <<lowering, going>>
    BY <1>4, HsFacts DEF Frames
  <2>1. CASE UNCHANGED <<privs, mstatus, excpt, last>>
    BY <1>2, <2>1
  <2>2. CASE /\ handling.at = "enter" /\ real_priv' = "HS"
             /\ To(IF handling.cause = "ECU" THEN "asks" ELSE "record")
             /\ UNCHANGED <<curr_priv, mode, mpp, mstatus, mip, excpt, last, status>>
    BY <2>0, <2>2 DEF FrameInv, To
  <2>3. CASE /\ handling.at = "asks" /\ To("finds")
             /\ UNCHANGED <<curr_priv, real_priv, mode, mpp, mstatus, mip, excpt, last, status>>
    BY <2>0, <2>3 DEF FrameInv, To, Interrupted
  <2>4. CASE /\ handling.at = "asks" /\ Ecall(handling.to) /\ UNCHANGED last
    <3>1. /\ handling.cause = "ECU" /\ lowering' = Idle
          /\ handling.to = "M" \/ going' = "hop"
      BY <2>0, <2>4 DEF FrameInv
    <3>2. CASE /\ mode = "U" /\ Enter("ECU", handling.to)
               /\ UNCHANGED <<curr_priv, real_priv, mpp, excpt, status>>
      <4>1. /\ handling'.at = "enter" /\ handling'.cause = "ECU" /\ handling'.to = handling.to
            /\ mode' = "S" /\ "SIE" \notin mstatus'
        BY <3>2, <2>0, EnterTypes
      <4>2. ~excpt'.testing
        BY <1>4, <2>0, <3>2, HsFacts DEF TypeOK
      <4> QED
        BY <3>1, <4>1, <4>2 DEF FrameInv
    <3>3. CASE /\ handling.to = "M"
               /\ curr_priv' = "M" /\ real_priv' = "M" /\ mode' = "M"
               /\ "SIE" \in mstatus' => "SIE" \in mstatus
               /\ \E c \in Causes : excpt' = [testing |-> FALSE, triggered |-> TRUE, cause |-> c, priv |-> "M"]
               /\ handling' = Behind
      <4>1. handling'.at = "record" /\ handling'.cause = "ECU" /\ handling'.to = "M"
        BY <2>0, <3>1, <3>3, BehindTypes
      <4>2. ~excpt'.testing
        BY <3>3
      <4> QED
        BY <2>0, <3>1, <3>3, <4>1, <4>2 DEF FrameInv
    <3>4. CASE UNCHANGED <<curr_priv, real_priv, mode, mpp, mstatus, excpt, handling>>
      BY <2>0, <2>4, <3>4 DEF FrameInv, Interrupted, InHandler
    <3> QED
      BY <2>0, <2>4, <3>2, <3>3, <3>4, EcallFacts
  <2>5. CASE /\ handling.at = "finds" /\ curr_priv' = handling.to /\ To("record")
             /\ UNCHANGED <<real_priv, mode, mpp, mstatus, mip, excpt, last, status>>
    BY <2>0, <2>5 DEF FrameInv, To, Interrupted
  <2>6. CASE /\ handling.at = "record" /\ To("leave")
             /\ excpt' = [testing |-> FALSE, triggered |-> TRUE, cause |-> handling.cause, priv |-> "HS"]
             /\ last' = IF handling.cause = "ECU" THEN last ELSE last \union {<<handling.cause, "HS">>}
             /\ UNCHANGED <<curr_priv, real_priv, mode, mpp, mstatus, status>>
    <3>1. Interrupted => Interrupted'
      BY <2>6 DEF Interrupted
    <3>2. ~excpt'.testing
      BY <2>6
    <3> QED
      BY <2>0, <2>6, <3>1, <3>2 DEF FrameInv, To
  <2>7. CASE /\ handling.at = "leave"
             /\ handling' = IF handling.again
                            THEN [at |-> "record", cause |-> "ECU", to |-> handling.to, spp |-> "U", again |-> FALSE]
                            ELSE NoFrame
             /\ \/ real_priv = "M" /\ Return("M")
                \/ real_priv = "HS" /\ Return("HS")
                \/ real_priv \in {"HU", "VS"}
             /\ UNCHANGED <<curr_priv, excpt, last>>
    <3>1. CASE handling.again
      <4>1. /\ handling.cause = "ECU" /\ curr_priv = handling.to /\ "SIE" \notin mstatus /\ lowering = Idle
            /\ handling.to = "M" \/ going = "hop"
        BY <2>0, <2>7, <3>1 DEF FrameInv
      <4>2. Return("M") \/ Return("HS")
        BY <2>0, <2>7, <3>1 DEF FrameInv
      <4>3. real_priv' = curr_priv /\ "SIE" \notin mstatus'
        BY <4>1, <4>2, ReturnTypes
      <4>4. handling'.at = "record" /\ handling'.cause = "ECU" /\ handling'.to = handling.to /\ ~handling'.again
        BY <2>7, <3>1
      <4> QED
        BY <2>0, <2>7, <4>1, <4>3, <4>4 DEF FrameInv
    <3>2. CASE ~handling.again
      BY <2>7, <3>2 DEF FrameInv, InHandler
    <3> QED
      BY <3>1, <3>2
  <2> QED
    BY <1>4, <2>1, <2>2, <2>3, <2>4, <2>5, <2>6, <2>7, HsFacts
<1>5. CASE GoOn
  <2>1. ~InHandler /\ lowering = Idle
    BY <1>5 DEF GoOn, LevelsInv, Levels
  <2>2. CASE GotoPriv("M")
    BY <2>1, <2>2, GotoFrame DEF Levels
  <2>3. CASE ~GotoPriv("M")
    BY <1>1, <1>5, <2>1, <2>3 DEF GoOn
  <2> QED
    BY <2>2, <2>3
<1>6. ASSUME NEW s \in Upcoming, Take(s) PROVE FrameInv'
  <2>1. ~InHandler /\ lowering = Idle /\ s \in Steps
    BY StepFacts
  <2>2. CASE StepGoto(s)
    BY <2>1, <2>2, GotoFacts, GotoFields, GotoFrame DEF StepGoto
  <2>3. CASE Fail("untested") \/ Illegal
    BY <1>1, <2>1, <2>3 DEF Fail, Illegal, privs
  <2>4. CASE StepCsr(s) \/ StepSetup(s) \/ StepWfi(s) \/ StepAssert(s) \/ TestEnd(s)
    BY <1>1, <2>1, <2>3, <2>4 DEF StepCsr, StepSetup, StepWfi, StepAssert, TestEnd, privs
  <2> QED
    BY <1>6, <2>2, <2>4 DEF Take
<1>7. CASE LowerPriv
  BY <1>1, <1>7 DEF LowerPriv
<1>8. CASE main
  BY <1>1, <1>8 DEF main, LevelsInv
<1>9. CASE WakeUp \/ Controller \/ UNCHANGED ivars
  BY <1>2, <1>9 DEF WakeUp, Controller, ivars, csrs, hist
<1> QED
  BY <1>3, <1>4, <1>5, <1>6, <1>7, <1>8, <1>9 DEF Next, Program

-----------------------------------------------------------------------------
(***************************************************************************)
(* The harness' levels.                                                    *)
(***************************************************************************)
\* Behind a step, the step before the next one is this one.
LEMMA StepBehind ==
  ASSUME TypeOK, NEW s \in Upcoming, pc' = pc + 1, test' = test
  PROVE  BehindSwitchToM' <=> s = [op |-> "goto", to |-> "M"]
<1>1. pc \in Nat /\ pc \in DOMAIN Scripts[test] /\ s = Scripts[test][pc] /\ test # NoTest
  BY StepFacts DEF TypeOK
<1>2. pc' - 1 = pc
  BY <1>1
<1> QED
  BY <1>1, <1>2 DEF BehindSwitchToM

\* A step to the test's end stands behind a switch to M.
LEMMA EndBehind ==
  ASSUME TypeOK, NEW s \in Upcoming, s.op = "end"
  PROVE  BehindSwitchToM
<1>1. pc \in DOMAIN Scripts[test] /\ s = Scripts[test][pc] /\ test # NoTest /\ Scripts[test] \in Seq(Steps)
  BY StepFacts
<1>2. pc > 1 /\ Scripts[test][pc - 1] = [op |-> "goto", to |-> "M"]
  BY <1>1, StepFacts, InterruptsAssumption DEF EndsInM
<1>3. DOMAIN Scripts[test] = 1 .. Len(Scripts[test]) /\ Len(Scripts[test]) \in Nat
  BY <1>1
<1>4. pc - 1 \in DOMAIN Scripts[test]
  BY <1>1, <1>2, <1>3
<1> QED
  BY <1>1, <1>2, <1>4 DEF BehindSwitchToM

\* What a step of lower_priv does
LEMMA LowerFacts ==
  ASSUME TypeOK, LowerPriv
  PROVE  /\ lowering # Idle /\ lowering \in [at : Places, to : Levels \ {"M"}, stores : SUBSET Stores]
         /\ \/ /\ status' = "untested" /\ UNCHANGED <<lowering, curr_priv, real_priv, mode, mpp>>
            \/ /\ lowering.at = "mpp" /\ lowering' = [lowering EXCEPT !.at = "mepc"]
               /\ UNCHANGED <<curr_priv, real_priv, mode, mpp>>
            \/ /\ lowering.at = "mepc" /\ lowering' = [lowering EXCEPT !.at = "mret"]
               /\ mode' = mpp /\ UNCHANGED <<curr_priv, real_priv>>
            \/ /\ \E x \in lowering.stores :
                    /\ lowering' = [lowering EXCEPT !.stores = @ \ {x}]
                    /\ real_priv' = IF x = "real" THEN lowering.to ELSE real_priv
                    /\ curr_priv' = IF x = "curr" THEN lowering.to ELSE curr_priv
               /\ UNCHANGED <<mode, mpp>>
            \/ /\ lowering.at = "mret" /\ lowering.stores = {} /\ lowering' = Idle
               /\ UNCHANGED <<curr_priv, real_priv, mode, mpp>>
         /\ status = "run" /\ ~InHandler /\ UNCHANGED <<test, pc, slipped, going, handling>>
<1>1. /\ Idle.at = "none" /\ Idle.stores = {}
      /\ status = "run" /\ ~InHandler /\ UNCHANGED <<test, pc, slipped, going, handling>>
  BY DEF Idle, LowerPriv, run, hist
<1>2. lowering # Idle
  BY <1>1 DEF LowerPriv
<1>3. lowering \in [at : Places, to : Levels \ {"M"}, stores : SUBSET Stores]
  BY <1>2 DEF TypeOK
<1>4. CASE /\ IF mode # "M" \/ lowering.at = "overwritten"
              THEN status' = "untested" /\ UNCHANGED <<mode, mpp, mstatus, lowering>>
              ELSE \/ /\ lowering.at = "mpp"
                      /\ lowering' = [lowering EXCEPT !.at = "mepc"]
                      /\ UNCHANGED <<mode, mpp, mstatus, status>>
                   \/ /\ lowering.at = "mepc"
                      /\ Mret
                      /\ lowering' = [lowering EXCEPT !.at = "mret"]
                      /\ UNCHANGED status
           /\ UNCHANGED <<curr_priv, real_priv>>
  BY <1>1, <1>2, <1>3, <1>4 DEF Mret
<1>5. CASE /\ \E x \in lowering.stores :
                /\ lowering' = [lowering EXCEPT !.stores = @ \ {x}]
                /\ real_priv' = IF x = "real" THEN lowering.to ELSE real_priv
                /\ curr_priv' = IF x = "curr" THEN lowering.to ELSE curr_priv
           /\ UNCHANGED <<mode, mpp, mstatus, status>>
  BY <1>1, <1>2, <1>3, <1>5
<1>6. CASE /\ lowering.at = "mret" /\ lowering.stores = {}
           /\ lowering' = Idle
           /\ UNCHANGED <<curr_priv, real_priv, mode, mpp, mstatus, status>>
  BY <1>1, <1>2, <1>3, <1>6
<1> QED
  BY <1>4, <1>5, <1>6 DEF LowerPriv

LEMMA LevelsStep ==
  ASSUME TypeOK, RecordsOK, FrameInv, LevelsInv, MieOwn, [Next]_ivars
  PROVE  LevelsInv'
<1>1. ASSUME UNCHANGED <<test, pc, lowering, going, handling, curr_priv, real_priv, mode, slipped>>
      PROVE  LevelsInv'
  BY <1>1 DEF LevelsInv, BehindSwitchToM, InHandler, Asked
<1>2. ASSUME Fail("untested") PROVE LevelsInv'
  BY <1>1, <1>2 DEF Fail, run, privs, hist
<1>3. ASSUME test # NoTest, UNCHANGED <<test, pc, going>>, lowering' = Idle <=> lowering = Idle,
             lowering' # Idle /\ "curr" \notin lowering'.stores => curr_priv' = lowering'.to,
             ~InHandler' /\ lowering' = Idle /\ mode' = "M" /\ "M" \in {curr_priv', going} => real_priv' = "M",
             going = "none" /\ ~Asked' => curr_priv' = "M" \/ (~Asked /\ curr_priv' = curr_priv)
      PROVE  LevelsInv'
  <2>1. BehindSwitchToM' <=> BehindSwitchToM
    BY <1>3 DEF BehindSwitchToM
  <2> QED
    BY <1>3, <2>1 DEF LevelsInv
<1>4. ASSUME InHandler, HsHandler PROVE test # NoTest
  BY <1>4 DEF LevelsInv
<1>5. CASE Interrupt
  <2>1. test # NoTest
    <3>1. PICK x \in Taken : TRUE
      BY <1>5, InterruptFacts
    <3> QED
      BY <3>1, TakenFacts DEF MieOwn
  <2>2. CASE Fail("untested")
    BY <1>2, <2>2
  <2>3. lowering # Idle /\ "curr" \notin lowering.stores => curr_priv = lowering.to
    BY DEF LevelsInv
  <2>4. CASE /\ UNCHANGED <<test, pc, curr_priv, going, handling>>
             /\ real_priv' = curr_priv /\ mode' = ModeOf(curr_priv)
             /\ lowering' = IF lowering.at = "mepc" THEN [lowering EXCEPT !.at = "overwritten"] ELSE lowering
    <3>1. mode' = "M" => real_priv' = "M"
      BY <2>4, Modes DEF TypeOK
    <3>2. /\ lowering' = Idle <=> lowering = Idle
          /\ lowering' # Idle => lowering'.stores = lowering.stores /\ lowering'.to = lowering.to
      <4>1. CASE lowering' = lowering
        BY <4>1
      <4>2. CASE lowering.at = "mepc" /\ lowering' = [lowering EXCEPT !.at = "overwritten"]
        <5>1. lowering \in [at : Places, to : Levels \ {"M"}, stores : SUBSET Stores]
          BY <4>2, Names DEF TypeOK
        <5> QED
          BY <4>2, <5>1, Names
      <4> QED
        BY <2>4, <4>1, <4>2
    <3>3. Asked' <=> Asked
      BY <2>4 DEF Asked
    <3> QED
      BY <1>3, <2>1, <2>3, <2>4, <3>1, <3>2, <3>3
  <2>5. CASE /\ ~InHandler /\ InHandler' /\ \E i \in Ints : handling'.cause = i
             /\ UNCHANGED <<test, pc, curr_priv, going, lowering>>
    <3>1. ~Asked
      BY <2>5, Names DEF Asked, InHandler
    <3> QED
      BY <1>3, <2>1, <2>3, <2>5, <3>1
  <2> QED
    BY <1>5, <2>2, <2>4, <2>5, InterruptFacts
<1>6. CASE HsHandler
  <2>0. /\ InHandler /\ handling \in Frames /\ handling.to \in {"HS", "M"} /\ test # NoTest
        /\ UNCHANGED <<test, pc, lowering, going, slipped>>
        /\ lowering # Idle /\ "curr" \notin lowering.stores => curr_priv = lowering.to
    BY <1>4, <1>6, HsFacts DEF Frames, LevelsInv
  <2>1. CASE UNCHANGED privs
    BY <1>1, <2>0, <2>1 DEF privs
  <2>2. CASE /\ To(IF handling.cause = "ECU" THEN "asks" ELSE "record") /\ handling.at = "enter"
             /\ UNCHANGED curr_priv
    BY <1>3, <2>0, <2>2 DEF To, Asked
  <2>3. CASE /\ handling.at = "asks" /\ To("finds") /\ UNCHANGED curr_priv
    BY <1>3, <2>0, <2>3 DEF To, Asked
  <2>4. CASE /\ handling.at = "asks" /\ Ecall(handling.to)
    <3>1. handling.cause = "ECU" /\ lowering = Idle
      BY <2>0, <2>4 DEF FrameInv
    <3>2. CASE Enter("ECU", handling.to) /\ mode = "U"
      <4>1. InHandler' /\ Asked'
        BY <2>0, <3>2, EnterTypes DEF Asked
      <4> QED
        BY <1>3, <2>0, <3>1, <4>1
    <3>3. CASE /\ curr_priv' = "M" /\ handling' = Behind
      <4>1. InHandler'
        BY <2>0, <3>3, BehindTypes DEF InHandler
      <4> QED
        BY <1>3, <2>0, <3>1, <3>3, <4>1
    <3>4. CASE UNCHANGED <<curr_priv, real_priv, mode, mpp, mstatus, excpt, handling>>
      BY <1>1, <2>0, <3>4
    <3> QED
      BY <2>0, <2>4, <3>2, <3>3, <3>4, EcallFacts
  <2>5. CASE /\ handling.at = "finds" /\ curr_priv' = handling.to /\ To("record")
    <3>1. lowering = Idle /\ (handling.to = "M" \/ going = "hop")
      BY <2>0, <2>5 DEF FrameInv
    <3> QED
      BY <1>3, <2>0, <2>5, <3>1 DEF To
  <2>6. CASE /\ handling.at = "record" /\ To("leave") /\ UNCHANGED curr_priv
    BY <1>3, <2>0, <2>6 DEF To, Asked
  <2>7. CASE /\ handling.at = "leave"
             /\ handling' = IF handling.again
                            THEN [at |-> "record", cause |-> "ECU", to |-> handling.to, spp |-> "U", again |-> FALSE]
                            ELSE NoFrame
             /\ \/ real_priv = "M" /\ Return("M")
                \/ real_priv = "HS" /\ Return("HS")
                \/ mode' = handling.spp
             /\ UNCHANGED curr_priv
    <3>1. ~Asked
      BY <2>7 DEF Asked
    <3>2. mode' = "M" => real_priv' = "M"
      <4>1. handling.spp # "M"
        BY <2>0 DEF Frames
      <4>2. ReturnMode("M") = "M" => curr_priv = "M"
        BY Modes DEF ReturnMode, TypeOK
      <4>3. ReturnMode("HS") # "M"
        BY Modes DEF ReturnMode, TypeOK
      <4> QED
        BY <2>7, <4>1, <4>2, <4>3, ReturnTypes
    <3> QED
      BY <1>3, <2>0, <2>7, <3>1, <3>2
  <2> QED
    BY <1>6, <2>1, <2>2, <2>3, <2>4, <2>5, <2>6, <2>7, HsFacts
<1>7. ASSUME test # NoTest, lowering = Idle, ~InHandler, NEW to \in Levels, GotoPriv(to),
             test' = test, BehindSwitchToM' => to = "M"
      PROVE  LevelsInv'
  <2>0. /\ ~Asked /\ test' # NoTest /\ Stores # {} /\ "curr" \in Stores
        /\ mode = "M" /\ curr_priv = "M" => real_priv = "M"
    BY <1>7, Names DEF Asked, InHandler, LevelsInv, Stores
  <2>1. CASE /\ real_priv = to /\ going' = to
             /\ UNCHANGED <<curr_priv, real_priv, mode, mpp, lowering, handling, mstatus, excpt, status>>
    BY <1>7, <2>0, <2>1 DEF LevelsInv, InHandler
  <2>2. CASE /\ curr_priv = to /\ going' = "none"
             /\ UNCHANGED <<curr_priv, real_priv, mode, mpp, lowering, handling, mstatus, excpt, status>>
    BY <1>7, <2>0, <2>2 DEF LevelsInv, InHandler
  <2>3. CASE /\ to = "M" /\ curr_priv = "HU" /\ going' = "hop" /\ Ecall("HS") /\ UNCHANGED lowering
    <3>1. CASE Enter("ECU", "HS") /\ mode = "U"
      <4>1. InHandler'
        BY <3>1, EnterTypes
      <4> QED
        BY <1>7, <2>0, <2>3, <4>1 DEF LevelsInv
    <3>2. CASE UNCHANGED <<curr_priv, real_priv, mode, mpp, mstatus, excpt, handling>>
      BY <1>7, <2>0, <2>3, <3>2 DEF LevelsInv
    <3> QED
      BY <2>3, <3>1, <3>2, EcallFacts
  <2>4. CASE /\ to = "M" /\ going' = "none" /\ Ecall("M") /\ UNCHANGED lowering
    <3>1. CASE Enter("ECU", "M") /\ mode = "U"
      <4>1. InHandler' /\ Asked'
        BY <3>1, EnterTypes DEF Asked
      <4> QED
        BY <1>7, <2>0, <2>4, <4>1 DEF LevelsInv
    <3>2. CASE curr_priv' = "M" /\ real_priv' = "M"
      BY <1>7, <2>0, <2>4, <3>2 DEF LevelsInv
    <3> QED
      BY <2>4, <3>1, <3>2, EcallFacts
  <2>5. CASE /\ to # "M" /\ going' = "none"
             /\ lowering' = [at |-> "mpp", to |-> to, stores |-> Stores]
    BY <1>7, <2>0, <2>5, Names DEF LevelsInv
  <2> QED
    BY <1>7, <2>1, <2>2, <2>3, <2>4, <2>5, GotoFacts
<1>8. CASE GoOn
  <2>1. /\ test # NoTest /\ lowering = Idle /\ ~InHandler /\ going # "none" /\ UNCHANGED <<test, pc, slipped>>
    BY <1>8 DEF GoOn, LevelsInv, Levels, run, hist
  <2>2. BehindSwitchToM' <=> BehindSwitchToM
    BY <2>1 DEF BehindSwitchToM
  <2>3. CASE GotoPriv("M")
    BY <1>7, <2>1, <2>3 DEF Levels
  <2>4. CASE /\ going \in Levels /\ curr_priv' = going /\ going' = "none"
             /\ UNCHANGED <<real_priv, mode, lowering, handling>>
    BY <2>1, <2>2, <2>4 DEF LevelsInv, InHandler, Levels
  <2> QED
    BY <1>8, <2>3, <2>4 DEF GoOn
<1>9. CASE LowerPriv
  <2>1. /\ lowering # Idle /\ lowering \in [at : Places, to : Levels \ {"M"}, stores : SUBSET Stores]
        /\ ~InHandler /\ ~InHandler' /\ UNCHANGED <<test, pc, slipped, going, handling>>
    BY <1>9, LowerFacts DEF InHandler
  <2>2. /\ test # NoTest /\ going = "none" /\ ~BehindSwitchToM'
        /\ "curr" \notin lowering.stores => curr_priv = lowering.to
    BY <2>1 DEF LevelsInv, BehindSwitchToM
  <2>3. CASE lowering' = lowering /\ UNCHANGED <<curr_priv, real_priv>>
    BY <2>1, <2>2, <2>3 DEF LevelsInv
  <2>4. CASE /\ lowering' = [lowering EXCEPT !.at = "mepc"] \/ lowering' = [lowering EXCEPT !.at = "mret"]
             /\ UNCHANGED <<curr_priv, real_priv>>
    <3>1. lowering'.to = lowering.to /\ lowering'.stores = lowering.stores /\ lowering' # Idle
      BY <2>1, <2>4, Names
    <3> QED
      BY <2>1, <2>2, <2>4, <3>1 DEF LevelsInv
  <2>5. CASE \E x \in lowering.stores :
               /\ lowering' = [lowering EXCEPT !.stores = @ \ {x}]
               /\ curr_priv' = IF x = "curr" THEN lowering.to ELSE curr_priv
    <3>1. lowering'.to = lowering.to /\ lowering'.at = lowering.at /\ lowering' # Idle
      BY <2>1, <2>5, Names DEF Places
    <3>2. "curr" \notin lowering'.stores => curr_priv' = lowering'.to
      BY <2>1, <2>2, <2>5
    <3> QED
      BY <2>1, <2>2, <3>1, <3>2 DEF LevelsInv
  <2>6. CASE lowering.stores = {} /\ lowering' = Idle /\ UNCHANGED curr_priv
    BY <2>1, <2>2, <2>6 DEF LevelsInv
  <2> QED
    BY <1>9, <2>3, <2>4, <2>5, <2>6, LowerFacts
<1>10. ASSUME NEW s \in Upcoming, Take(s) PROVE LevelsInv'
  <2>1. /\ test # NoTest /\ lowering = Idle /\ going = "none" /\ ~InHandler /\ s \in Steps /\ ~Asked
    BY StepFacts, Names DEF Asked, InHandler
  <2>2. ASSUME Advance, s.op # "goto", UNCHANGED <<lowering, going, handling, curr_priv>>,
               mode' = "M" /\ curr_priv = "M" => real_priv' = "M"
        PROVE  LevelsInv'
    <3>1. ~BehindSwitchToM' /\ test' = test
      BY <2>2, StepBehind, AdvanceFacts
    <3> QED
      BY <2>1, <2>2, <3>1 DEF LevelsInv, InHandler
  <2>3. ASSUME Illegal, s.op # "goto" PROVE LevelsInv'
    BY <1>2, <2>2, <2>3 DEF Illegal, Return
  <2>4. mode = "M" /\ curr_priv = "M" => real_priv = "M"
    BY <2>1 DEF LevelsInv
  <2>5. CASE StepCsr(s) \/ StepSetup(s) \/ StepWfi(s) \/ StepAssert(s)
    BY <2>2, <2>3, <2>4, <2>5 DEF StepCsr, StepSetup, StepWfi, StepAssert, privs
  <2>6. CASE StepGoto(s)
    <3>1. s.to \in Levels /\ test' = test /\ (BehindSwitchToM' => s.to = "M")
      BY <2>1, <2>6, StepBehind, AdvanceFacts, GotoFields DEF StepGoto
    <3> QED
      BY <1>7, <2>1, <2>6, <3>1 DEF StepGoto
  <2>7. CASE TestEnd(s)
    <3>1. CASE Fail("untested")
      BY <1>2, <3>1
    <3>2. CASE ~Fail("untested")
      <4>1. curr_priv = "M"
        BY <2>1, <2>7, EndBehind DEF TestEnd, LevelsInv
      <4> QED
        BY <2>1, <2>4, <2>7, <3>2, <4>1 DEF TestEnd, ResetCsrs, LevelsInv, BehindSwitchToM, InHandler
    <3> QED
      BY <3>1, <3>2
  <2> QED
    BY <1>10, <2>5, <2>6, <2>7 DEF Take
<1>11. CASE main
  <2>1. test' # NoTest
    BY <1>11, InterruptsAssumption DEF main, TypeOK, H
  <2>2. /\ lowering' = Idle /\ going' = "none" /\ ~InHandler' /\ curr_priv' = "M" /\ real_priv' = "M"
    BY <1>11 DEF main, LevelsInv, InHandler
  <2> QED
    BY <2>1, <2>2 DEF LevelsInv
<1>12. CASE WakeUp \/ Controller \/ UNCHANGED ivars
  BY <1>1, <1>12 DEF WakeUp, Controller, ivars, run, privs, hist
<1> QED
  BY <1>5, <1>6, <1>8, <1>9, <1>10, <1>11, <1>12 DEF Next, Program

LEMMA CourseStep ==
  ASSUME TypeOK, RecordsOK, FrameInv, LevelsInv, OnCourse, MieOwn, [Next]_ivars
  PROVE  OnCourse'
<1> SUFFICES ASSUME status' \in {"run", "waiting"}, ~slipped'
             PROVE  OnCourse'
  BY DEF OnCourse
<1>1. ASSUME ~slipped, status \in {"run", "waiting"},
             UNCHANGED <<lowering, going, handling, curr_priv, real_priv, mode, mpp>>
      PROVE  OnCourse'
  BY <1>1 DEF OnCourse, SteadyTest, SteadySwitch, SteadyHandler, InHandler, Asked, ModeOf
<1>2. ASSUME ~InHandler', lowering' = Idle, SteadyTest' PROVE OnCourse'
  BY <1>2 DEF OnCourse
<1>3. ASSUME InHandler', SteadyHandler' PROVE OnCourse'
  BY <1>3 DEF OnCourse
<1>4. ASSUME ~InHandler', lowering' # Idle, SteadySwitch' PROVE OnCourse'
  BY <1>4 DEF OnCourse
<1>5. ~Fail("untested")
  BY DEF Fail
<1>6. CASE Interrupt
  <2>1. /\ status = "run" /\ lowering = Idle /\ ~slipped /\ excpt.testing /\ UNCHANGED <<curr_priv, going>>
        /\ curr_priv \in Levels
    BY <1>5, <1>6, InterruptFacts DEF TypeOK
  <2>2. CASE /\ real_priv' = curr_priv /\ mode' = ModeOf(curr_priv)
             /\ lowering' = IF lowering.at = "mepc" THEN [lowering EXCEPT !.at = "overwritten"] ELSE lowering
             /\ UNCHANGED handling
    <3>1. lowering' = Idle
      BY <2>1, <2>2, Names
    <3>2. CASE ~InHandler
      <4>1. SteadyTest'
        BY <2>1, <2>2, <3>2 DEF OnCourse, SteadyTest
      <4> QED
        BY <1>2, <2>2, <3>1, <3>2, <4>1 DEF InHandler
    <3>3. CASE InHandler
      <4>1. SteadyHandler /\ handling \in Frames
        BY <2>1, <3>3, InFrame DEF OnCourse
      <4>2. handling.cause = "ECU" /\ ~Asked => handling.at # "enter"
        BY DEF Asked
      <4>3. handling.cause # "ECU" \/ curr_priv \in {"HU", "HS"}
        BY <4>1 DEF SteadyHandler
      <4>4. mode' = "U" \/ (mode' = "S" /\ (handling'.at = "enter" \/ real_priv' = "HS"
                               \/ (handling'.cause # "ECU" /\ real_priv' = curr_priv' /\ curr_priv' # "HU")))
        BY <2>1, <2>2, <4>1, <4>3 DEF SteadyHandler, ModeOf, Levels
      <4>5. SteadyHandler'
        BY <2>1, <2>2, <3>1, <4>1, <4>4 DEF SteadyHandler, Asked
      <4> QED
        BY <1>3, <2>2, <3>3, <4>5 DEF InHandler
    <3> QED
      BY <3>2, <3>3
  <2>3. CASE /\ ~InHandler /\ mode # "M"
             /\ \E i \in Ints : handling'.cause = i
             /\ InHandler' /\ handling'.at = "enter" /\ handling'.spp = mode
             /\ mode' = "S"
             /\ UNCHANGED <<real_priv, mpp, lowering>>
    <3>1. SteadyTest
      BY <2>1, <2>3 DEF OnCourse
    <3>2. handling'.cause # "ECU" /\ curr_priv # "M"
      BY <2>1, <2>3, <3>1, Modes DEF SteadyTest, Ints, SInts
    <3>3. SteadyHandler'
      BY <2>1, <2>3, <3>1, <3>2 DEF SteadyTest, SteadyHandler, ModeOf
    <3> QED
      BY <1>3, <2>3, <3>3
  <2> QED
    BY <1>5, <1>6, <2>2, <2>3, InterruptFacts
<1>7. CASE HsHandler
  <2>0. /\ InHandler /\ handling \in Frames /\ status = "run" /\ ~slipped
        /\ UNCHANGED <<lowering, going>>
        /\ SteadyHandler /\ mode \in {"U", "S"} /\ lowering' = Idle
        /\ curr_priv \in Levels /\ real_priv \in Levels
    BY <1>7, HsFacts DEF OnCourse, SteadyHandler, TypeOK
  <2>1. handling.cause = "ECU" => handling.to = "HS"
    BY <2>0 DEF SteadyHandler
  <2>2. CASE /\ handling.at = "enter" /\ mode # "U" /\ real_priv' = "HS"
             /\ To(IF handling.cause = "ECU" THEN "asks" ELSE "record")
             /\ UNCHANGED <<curr_priv, mode>>
    <3>1. SteadyHandler'
      BY <2>0, <2>2 DEF SteadyHandler, To, Asked, ModeOf
    <3> QED
      BY <1>3, <2>2, <3>1 DEF To
  <2>3. CASE /\ handling.at = "asks" /\ To("finds") /\ UNCHANGED <<curr_priv, real_priv, mode>>
    <3>1. SteadyHandler'
      BY <2>0, <2>3 DEF SteadyHandler, To, Asked, ModeOf
    <3> QED
      BY <1>3, <2>3, <3>1 DEF To
  <2>4. CASE /\ handling.at = "asks" /\ real_priv # handling.to /\ Ecall(handling.to)
    <3>1. handling.cause = "ECU" /\ handling.to = "HS" /\ mode = "U"
      BY <2>0, <2>1, <2>4 DEF FrameInv, SteadyHandler
    <3>2. Enter("ECU", "HS") /\ UNCHANGED <<curr_priv, real_priv>>
      BY <3>1, <2>4, EcallFacts
    <3>3. /\ handling'.at = "enter" /\ handling'.cause = "ECU" /\ handling'.to = "HS" /\ handling'.spp = mode
          /\ InHandler' /\ mode' = "S"
      BY <3>1, <3>2, EnterTypes
    <3>4. SteadyHandler'
      BY <2>0, <2>4, <3>1, <3>2, <3>3 DEF SteadyHandler, Asked
    <3> QED
      BY <1>3, <3>3, <3>4
  <2>5. CASE /\ handling.at = "finds" /\ curr_priv' = handling.to /\ To("record")
             /\ UNCHANGED <<real_priv, mode>>
    <3>1. handling.cause = "ECU"
      BY <2>0, <2>5 DEF FrameInv
    <3>2. SteadyHandler'
      BY <2>0, <2>1, <2>5, <3>1 DEF SteadyHandler, To, Asked
    <3> QED
      BY <1>3, <2>5, <3>2 DEF To
  <2>6. CASE /\ handling.at = "record" /\ To("leave") /\ UNCHANGED <<curr_priv, real_priv, mode>>
    <3>1. SteadyHandler'
      BY <2>0, <2>6 DEF SteadyHandler, To, Asked, ModeOf
    <3> QED
      BY <1>3, <2>6, <3>1 DEF To
  <2>7. CASE /\ handling.at = "leave" /\ mode # "U"
             /\ handling' = IF handling.again
                            THEN [at |-> "record", cause |-> "ECU", to |-> handling.to, spp |-> "U", again |-> FALSE]
                            ELSE NoFrame
             /\ \/ real_priv = "M" /\ Return("M") /\ status' = IF handling.cause = "ECU" THEN status ELSE "lost"
                \/ real_priv = "HS" /\ Return("HS") /\ UNCHANGED status
                \/ /\ real_priv \in {"HU", "VS"}
                   /\ real_priv' = curr_priv /\ mode' = handling.spp
             /\ UNCHANGED curr_priv
    <3>1. /\ ~Asked /\ curr_priv # "M"
          /\ handling.cause = "ECU" => curr_priv = "HS" /\ going = "hop" /\ real_priv = "HS"
          /\ handling.cause # "ECU" => handling.spp = ModeOf(curr_priv) /\ (going \in Levels => going = curr_priv)
      BY <2>0, <2>7 DEF SteadyHandler, Asked
    <3>2. real_priv' = curr_priv /\ mode' = ModeOf(curr_priv)
      <4>1. real_priv # "M"
        BY <2>0, <2>7, <3>1 DEF SteadyHandler
      <4>2. CASE real_priv = "HS"
        BY <2>7, <3>1, <4>2, ReturnTypes DEF ReturnMode
      <4>3. CASE real_priv \in {"HU", "VS"}
        BY <2>7, <3>1, <4>3
      <4> QED
        BY <2>0, <4>1, <4>2, <4>3 DEF Levels
    <3>3. CASE handling.again
      <4>1. handling.cause = "ECU"
        BY <2>0, <3>3 DEF FrameInv
      <4>2. /\ handling'.at = "record" /\ handling'.cause = "ECU" /\ handling'.to = "HS" /\ handling'.spp = "U"
            /\ mode' = "S" /\ real_priv' = "HS" /\ curr_priv' = "HS" /\ going' = "hop"
        BY <2>0, <2>1, <2>7, <3>1, <3>2, <3>3, <4>1 DEF ModeOf
      <4>3. SteadyHandler' /\ InHandler'
        BY <2>0, <4>2, Names DEF SteadyHandler, Asked, InHandler
      <4> QED
        BY <1>3, <4>3
    <3>4. CASE ~handling.again
      <4>1. SteadyTest'
        BY <2>0, <2>7, <3>1, <3>2 DEF SteadyTest, Levels
      <4> QED
        BY <1>2, <2>0, <2>7, <3>4, <4>1 DEF InHandler
    <3> QED
      BY <3>3, <3>4
  <2> QED
    BY <1>7, <2>2, <2>3, <2>4, <2>5, <2>6, <2>7, HsFacts
<1>8. ASSUME status = "run", ~slipped, lowering = Idle, ~InHandler, NEW to \in Levels, GotoPriv(to)
      PROVE  OnCourse'
  <2>0. SteadyTest /\ curr_priv \in Levels
    BY <1>8 DEF OnCourse, TypeOK
  <2>1. CASE /\ (real_priv = to /\ going' = to) \/ going' = "none"
             /\ UNCHANGED <<curr_priv, real_priv, mode, mpp, lowering, handling, mstatus, excpt, status>>
    <3>1. SteadyTest'
      BY <2>0, <2>1 DEF SteadyTest, Levels
    <3> QED
      BY <1>2, <1>8, <2>1, <3>1 DEF InHandler
  <2>2. CASE /\ curr_priv = "HU" /\ going' = "hop" /\ Ecall("HS") /\ UNCHANGED lowering
    <3>1. mode = "U"
      BY <2>0, <2>2 DEF SteadyTest, ModeOf
    <3>2. Enter("ECU", "HS") /\ UNCHANGED <<curr_priv, real_priv>>
      BY <2>2, EcallFacts
    <3>3. /\ handling'.at = "enter" /\ handling'.cause = "ECU" /\ handling'.to = "HS" /\ handling'.spp = "U"
          /\ InHandler' /\ mode' = "S"
      BY <3>1, <3>2, EnterTypes
    <3>4. SteadyHandler'
      BY <1>8, <2>2, <3>2, <3>3 DEF SteadyHandler, Asked
    <3> QED
      BY <1>3, <3>3, <3>4
  <2>3. CASE /\ curr_priv # "HU" /\ going' = "none" /\ Ecall("M") /\ UNCHANGED lowering
    <3>1. mode # "U"
      BY <2>0, <2>3 DEF SteadyTest, ModeOf, Levels
    <3>2. curr_priv' = "M" /\ real_priv' = "M" /\ mode' = "M" /\ handling' = NoFrame
      BY <1>8, <2>3, <3>1, EcallFacts, BehindTypes
    <3>3. SteadyTest'
      BY <2>3, <3>2 DEF SteadyTest, ModeOf, Levels
    <3> QED
      BY <1>2, <1>8, <2>3, <3>2, <3>3 DEF InHandler
  <2>4. CASE /\ to # "M" /\ going' = "none"
             /\ status' = IF mode = "M" THEN status ELSE IF excpt.testing THEN "lost" ELSE "untested"
             /\ mpp' = ModeOf(to) /\ lowering' = [at |-> "mpp", to |-> to, stores |-> Stores]
             /\ UNCHANGED <<curr_priv, real_priv, mode, handling, mstatus, excpt>>
    <3>1. mode' = "M" /\ lowering'.at = "mpp" /\ lowering'.to = to /\ "real" \in lowering'.stores /\ lowering' # Idle
      BY <2>4, Names DEF Stores
    <3>2. SteadySwitch'
      <4>1. mpp' = ModeOf(lowering'.to)
        BY <2>4, <3>1
      <4> QED
        BY <3>1, <4>1 DEF SteadySwitch
    <3> QED
      BY <1>4, <1>8, <2>4, <3>1, <3>2 DEF InHandler
  <2> QED
    BY <1>8, <2>1, <2>2, <2>3, <2>4, GotoFacts
<1>9. CASE GoOn
  <2>1. /\ status = "run" /\ ~slipped /\ lowering = Idle /\ ~InHandler
        /\ curr_priv \in Levels /\ real_priv \in Levels /\ SteadyTest
    BY <1>9 DEF GoOn, LevelsInv, Levels, hist, OnCourse, TypeOK
  <2>2. CASE GotoPriv("M")
    BY <1>8, <2>1, <2>2 DEF Levels
  <2>3. CASE /\ going \in Levels /\ curr_priv' = going /\ going' = "none"
             /\ UNCHANGED <<real_priv, mode, lowering, handling>>
    <3>1. SteadyTest'
      BY <2>1, <2>3 DEF SteadyTest, Levels
    <3> QED
      BY <1>2, <2>1, <2>3, <3>1 DEF InHandler
  <2> QED
    BY <1>9, <2>2, <2>3 DEF GoOn
<1>10. CASE LowerPriv
  <2>1. /\ status = "run" /\ ~slipped /\ ~InHandler /\ ~InHandler' /\ lowering # Idle /\ going' = "none"
        /\ lowering \in [at : Places, to : Levels \ {"M"}, stores : SUBSET Stores]
        /\ SteadySwitch
    BY <1>10, LowerFacts DEF OnCourse, LevelsInv, InHandler
  <2>2. CASE /\ lowering.at = "mpp" /\ lowering' = [lowering EXCEPT !.at = "mepc"]
             /\ UNCHANGED <<curr_priv, real_priv, mode, mpp>>
    <3>1. lowering'.at = "mepc" /\ lowering'.to = lowering.to /\ lowering'.stores = lowering.stores
          /\ lowering' # Idle
      BY <2>1, <2>2, Names
    <3>2. SteadySwitch'
      BY <2>1, <2>2, <3>1 DEF SteadySwitch
    <3> QED
      BY <1>4, <2>1, <3>1, <3>2
  <2>3. CASE /\ lowering.at = "mepc" /\ lowering' = [lowering EXCEPT !.at = "mret"]
             /\ mode' = mpp /\ UNCHANGED <<curr_priv, real_priv>>
    <3>1. lowering'.at = "mret" /\ lowering'.to = lowering.to /\ lowering'.stores = lowering.stores
          /\ lowering' # Idle
      BY <2>1, <2>3, Names
    <3>2. SteadySwitch'
      <4>1. mode' = ModeOf(lowering'.to)
        BY <2>1, <2>3, <3>1 DEF SteadySwitch
      <4> QED
        BY <2>1, <2>3, <3>1, <4>1 DEF SteadySwitch
    <3> QED
      BY <1>4, <2>1, <3>1, <3>2
  <2>4. CASE /\ \E x \in lowering.stores :
                  /\ lowering' = [lowering EXCEPT !.stores = @ \ {x}]
                  /\ real_priv' = IF x = "real" THEN lowering.to ELSE real_priv
             /\ UNCHANGED <<mode, mpp>>
    <3>1. lowering'.at = lowering.at /\ lowering'.to = lowering.to /\ lowering' # Idle
      BY <2>1, <2>4, Names DEF Places
    <3>2. "real" \notin lowering'.stores => real_priv' = lowering'.to
      BY <2>1, <2>4 DEF SteadySwitch
    <3>3. SteadySwitch'
      BY <2>1, <2>4, <3>1, <3>2 DEF SteadySwitch
    <3> QED
      BY <1>4, <2>1, <3>1, <3>3
  <2>5. CASE /\ lowering.at = "mret" /\ lowering.stores = {} /\ lowering' = Idle
             /\ UNCHANGED <<curr_priv, real_priv, mode, mpp>>
    <3>1. curr_priv = lowering.to /\ real_priv = lowering.to /\ mode = ModeOf(lowering.to)
      BY <2>1, <2>5 DEF SteadySwitch, LevelsInv
    <3>2. SteadyTest'
      BY <2>1, <2>5, <3>1 DEF SteadyTest, Levels
    <3> QED
      BY <1>2, <2>1, <2>5, <3>2
  <2> QED
    BY <1>10, <2>2, <2>3, <2>4, <2>5, LowerFacts
<1>11. ASSUME NEW s \in Upcoming, Take(s) PROVE OnCourse'
  <2>1. /\ status = "run" /\ lowering = Idle /\ going = "none" /\ ~InHandler
        /\ s \in Steps /\ curr_priv \in Levels
    BY StepFacts DEF TypeOK
  <2>2. ASSUME Advance, UNCHANGED privs PROVE OnCourse'
    BY <1>1, <2>1, <2>2, AdvanceFacts DEF privs
  <2>3. ASSUME Illegal PROVE OnCourse'
    <3>1. Advance /\ Return("M") /\ UNCHANGED <<curr_priv, lowering, going, handling>>
      BY <1>5, <2>3 DEF Illegal
    <3>2. SteadyTest'
      BY <2>1, <3>1 DEF Return, ReturnMode, SteadyTest, Levels
    <3> QED
      BY <1>2, <2>1, <3>1, <3>2 DEF InHandler
  <2>4. CASE StepCsr(s) \/ StepSetup(s) \/ StepWfi(s) \/ StepAssert(s)
    BY <2>2, <2>3, <2>4 DEF StepCsr, StepSetup, StepWfi, StepAssert
  <2>5. CASE StepGoto(s)
    BY <1>8, <2>1, <2>5, AdvanceFacts, GotoFields DEF StepGoto
  <2>6. CASE TestEnd(s)
    <3>1. /\ mode' = "M" /\ UNCHANGED <<curr_priv, lowering, going, handling>>
          /\ real_priv' = IF mode # "M" THEN curr_priv ELSE real_priv
      BY <1>5, <2>6 DEF TestEnd, ResetCsrs
    <3>2. curr_priv = "M" /\ (mode = "M" => real_priv = "M")
      BY <2>1, <2>6, EndBehind, Names DEF TestEnd, LevelsInv, Asked, InHandler
    <3>3. SteadyTest'
      BY <2>1, <3>1, <3>2 DEF SteadyTest, ModeOf, Levels
    <3> QED
      BY <1>2, <2>1, <3>1, <3>3 DEF InHandler
  <2> QED
    BY <1>11, <2>4, <2>5, <2>6 DEF Take
<1>12. CASE main
  <2>1. /\ lowering' = Idle /\ ~InHandler' /\ going' = "none"
        /\ curr_priv' = "M" /\ real_priv' = "M" /\ mode' = "M"
    BY <1>12 DEF main, ResetCsrs, LevelsInv, InHandler
  <2>2. SteadyTest'
    BY <2>1 DEF SteadyTest, ModeOf, Levels
  <2> QED
    BY <1>2, <2>1, <2>2
<1>13. CASE WakeUp \/ Controller \/ UNCHANGED ivars
  <2>1. UNCHANGED <<lowering, going, handling, curr_priv, real_priv, mode, mpp, slipped>> /\ status \in {"run", "waiting"}
    BY <1>13 DEF WakeUp, Controller, ivars, privs, hist
  <2> QED
    BY <1>1, <2>1
<1> QED
  BY <1>6, <1>7, <1>9, <1>10, <1>11, <1>12, <1>13 DEF Next, Program

-----------------------------------------------------------------------------
(***************************************************************************)
(* Theorems.                                                               *)
(***************************************************************************)
\* Whatever the tests are and wherever their interrupts come: mie holds only what the
\* running one has enabled, a handled interrupt is cleared or held off, hshandler is entered
\* from the test, the end of lower_priv or its own ecall, and curr_priv, real_priv and the
\* hart's mode stand as SteadyTest, SteadySwitch and SteadyHandler say as long as no
\* interrupt has come inside lower_priv.
THEOREM Invariance == Spec => []IntsInv
<1>1. IntsInv /\ [Next]_ivars => IntsInv'
  <2> SUFFICES ASSUME IntsInv, [Next]_ivars PROVE IntsInv'
    OBVIOUS
  <2> QED
    BY StepTypes, OwnStep, HeldStep, FrameStep, LevelsStep, CourseStep DEF IntsInv
<1> QED
  BY <1>1, Initially, PTL DEF Spec

\* The variables of the harness and of the hart have their types, and no announcement
\* stands where lower_priv is about to execute an instruction its mode may not.
THEOREM Types == Spec => []TypeOK
  BY Invariance, PTL DEF IntsInv

\* A test meets only the interrupts it has enabled itself, whatever the test before it
\* left pending or enabled.
THEOREM OwnInterrupts == Spec => []OnlyOwnInterrupts
<1>1. IntsInv => OnlyOwnInterrupts
  BY TakenFacts DEF IntsInv, MieOwn, OnlyOwnInterrupts
<1> QED
  BY <1>1, Invariance, PTL

\* A handled interrupt ends the program by coming again only where its pin is still up,
\* where U mode cannot hold off what hshandler cannot clear, or where mhandler has
\* interrupted hshandler.
THEOREM ComesAgain == Spec => []ComesAgainOnlyHeld
<1>1. IntsInv => ComesAgainOnlyHeld
  <2> SUFFICES ASSUME IntsInv, NEW h \in Taken \intersect last
               PROVE  h[1] \in pins \/ (h[2] = "HS" /\ (mode = "U" \/ Interrupted))
    BY DEF ComesAgainOnlyHeld, Interrupted
  <2>1. h[2] = "M" => h[1] \notin mip
    BY DEF IntsInv, HeldOff
  <2>2. h[2] = "HS" => "SIE" \notin mstatus \/ Interrupted
    BY DEF IntsInv, HeldOff
  <2>3. h[1] \in mip \union pins /\ h[2] \in {"M", "HS"} /\ (h[2] = "HS" => mode = "U" \/ "SIE" \in mstatus)
    BY TakenFacts DEF Raised
  <2> QED
    BY <2>1, <2>2, <2>3
<1> QED
  BY <1>1, Invariance, PTL

\* The level the harness believes in is the hart's, in every switch and handler a test gets
\* through, unless one of its interrupts has come inside lower_priv; and the next test
\* starts in M.
THEOREM LevelKept == Spec => []LevelLostInSwitchOnly
<1>1. IntsInv => LevelLostInSwitchOnly
  <2> SUFFICES ASSUME IntsInv, status = "run", lowering = Idle, ~InHandler, mode # ModeOf(curr_priv)
               PROVE  slipped /\ test # NoTest
    BY DEF LevelLostInSwitchOnly
  <2>1. test # NoTest
    BY DEF IntsInv, LevelsInv, ModeOf
  <2>2. slipped
    BY DEF IntsInv, OnCourse, SteadyTest
  <2> QED
    BY <2>1, <2>2
<1> QED
  BY <1>1, Invariance, PTL
=============================================================================
