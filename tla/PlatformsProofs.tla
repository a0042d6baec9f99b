--------------------------- MODULE PlatformsProofs ---------------------------
(***************************************************************************)
\* Proofs about printing and ending, for every text, buffer, FIFO and
\* trap.
(***************************************************************************)
EXTENDS Platforms, FiniteSetTheorems, TLAPS

-----------------------------------------------------------------------------
(***************************************************************************)
\* The invariants of the console.
(***************************************************************************)
Calls == [who : {"main", "handler"}, next : Nat \ {0}, at : Points, index : 0 .. BufSize]

\* The calls of putchar that run, and the character each is at
Shape ==
  /\ trap \in Traps /\ text \in Seq(Kinds)
  /\ calls \in Seq(Calls) /\ Len(calls) <= 2
  /\ \A i \in DOMAIN calls :
       /\ calls[i].who = IF i = 1 THEN "main" ELSE "handler"
       /\ calls[i].next <= Len(Text(calls[i].who)) + (IF calls[i].at = "call" THEN 1 ELSE 0)
       /\ i < Len(calls) => calls[i].at \in trap.at

Cells ==
  /\ buf \in [1 .. BufSize -> AnyChar \union {Empty}] /\ buflen \in 0 .. BufSize
  /\ tohost \in {None, Exit} \union {Write(n) : n \in 0 .. BufSize}
  /\ fromhost \in {0, 1} /\ answers \in Nat
  /\ status \in {"running", "exited", "overrun"}
  /\ PLAT = "spike" => printed \in Seq(AnyChar) /\ shown \in Seq(AnyChar \union {Empty})

Unread     == IF tohost.kind = "write" THEN 1 ELSE 0
Waiting(i) == IF i <= Len(calls) /\ calls[i].at = "wait" THEN 1 ELSE 0

\* Each call that waits has one request unread, owed or answered at most.
Owed ==
  /\ calls # <<>> => answers + fromhost + Unread <= Waiting(1) + Waiting(2)
  /\ calls = <<>> => Unread = 0 /\ answers + fromhost <= 2
  /\ calls = <<>> /\ trap.at \subseteq {"call"} => answers + fromhost = 0

\* The program was interrupted with a full buffer.
Interrupted ==
  /\ Len(calls) = 2 /\ calls[1].at \in {"test", "send", "wait", "reset"}
  /\ calls[1].at # "test" => calls[1].index = BufSize

\* Else no call finds the buffer full.
RoomLeft ==
  /\ status = "running" /\ calls # <<>> =>
       /\ Cur.at \in {"call", "store"} => buflen < BufSize \/ Interrupted
       /\ Cur.at = "store" => Cur.index < BufSize \/ Interrupted
       /\ Len(calls) = 2 /\ calls[1].at = "store" => calls[1].index < BufSize
       /\ Len(calls) = 1 /\ Cur.at \in {"send", "wait", "reset"} => buflen < BufSize \/ Cur.index = BufSize
  /\ status = "overrun" => Interrupted

\* The characters that wait in buf for the host
Held == IF Cur.at \in {"call", "store", "test", "send"} \/ (Cur.at = "wait" /\ tohost.kind = "write")
        THEN buflen ELSE 0

\* What has been printed has been shown, or is held in buf, or is about to be stored.
InOrder ==
  /\ Len(printed) = Len(shown) + Held + (IF Cur.at = "store" THEN 1 ELSE 0)
  /\ \A i \in DOMAIN shown : shown[i] = printed[i]
  /\ \A i \in 1 .. Held : buf[i] = printed[Len(shown) + i]
  /\ Cur.at \in {"store", "test"} => printed[Len(printed)] = CurChar
  /\ Cur.at \in {"store", "send", "wait"} => Cur.index = buflen
  /\ Cur.at \in {"test", "send", "wait"} => buflen > 0
  /\ tohost.kind = "write" => Cur.at = "wait" /\ tohost = Write(buflen)
  /\ \A i \in DOMAIN printed :
       NewlineChar(printed[i]) => i <= Len(shown) \/ (i = Len(printed) /\ Cur.at # "call")

\* Traps come between two characters only, or none has come.
Orderly == PLAT = "spike" /\ status = "running" /\ calls # <<>> /\ (Calm \/ (~trap.returns /\ Len(calls) = 1))

StreamInv ==
  /\ Orderly => InOrder
  /\ calls = <<>> /\ Calm =>
       /\ Len(shown) <= Len(printed)
       /\ \A i \in DOMAIN shown : shown[i] = printed[i]
       /\ \A i \in DOMAIN printed : NewlineChar(printed[i]) => i <= Len(shown)

InBuf(n) == {buf[i] : i \in 1 .. n}

\* What a handler that prints an ERROR has found in buf, it gives to the host.
Keeping ==
  /\ answers = 0 /\ fromhost = 0 /\ Cur.at # "reset"
  /\ Before \subseteq ToSet(shown) \union InBuf(buflen)
  /\ Cur.at \in {"store", "send", "wait"} => Cur.index = buflen
  /\ Cur.at \in {"send", "wait"} => Before \subseteq ToSet(shown) \union InBuf(Cur.index)
  /\ tohost.kind = "write" => tohost.len <= buflen /\ Before \subseteq ToSet(shown) \union InBuf(tohost.len)
  /\ Cur.at = "wait" => tohost = Write(Cur.index)
  /\ Cur.at = "call" => (Cur.next = 1 /\ ~HandlerPrinted) \/ (Cur.next > 1 /\ Text(Cur.who)[Cur.next - 1] # "n")

\* The places the program's characters have in its text
Ahead == \A i \in DOMAIN printed :
           /\ printed[i][1] = "main"
           /\ printed[i][2] <= Cur.next /\ (Cur.at = "call" => printed[i][2] < Cur.next)

KeptInv ==
  PLAT = "spike" /\ ~trap.returns =>
    /\ status # "overrun" /\ Len(calls) = 2 => Before \subseteq ToSet(shown) \/ Keeping
    /\ calls = <<>> /\ HandlerPrinted => Before \subseteq ToSet(shown)
    /\ Len(calls) = 1 => Ahead

\* The request to exit comes from a program that prints no more.
Ending == tohost.kind = "exit" \/ status = "exited" => calls = <<>> /\ PLAT = "spike"

ConsoleInv == Shape /\ Cells /\ Owed /\ RoomLeft /\ StreamInv /\ KeptInv /\ Ending

-----------------------------------------------------------------------------
(***************************************************************************)
\* The invariants of the UART.
(***************************************************************************)
FifoInv ==
  HasUart =>
    /\ printed \in Seq(AnyByte) /\ shown \in Seq(AnyByte) /\ fifo \in Seq(AnyByte)
    /\ Len(printed) = Len(shown) + Len(fifo) /\ Len(fifo) <= FifoSize
    /\ \A i \in DOMAIN shown : shown[i] = printed[i]
    /\ \A i \in DOMAIN fifo : fifo[i] = printed[Len(shown) + i]
    /\ Instant => fifo = <<>>

UartTypes ==
  /\ text \in Seq(Kinds) /\ code \in ExitCodes
  /\ next \in 1 .. Len(text) + 1 /\ cr \in BOOLEAN /\ called \in BOOLEAN
  /\ verdict \in -1 .. 127 /\ fifo \in Seq(AnyByte) /\ Len(fifo) <= FifoSize

UartInv == UartTypes /\ FifoInv /\ VerdictIsTheExitCode

PlatformInv == ConsoleInv /\ UartInv
-----------------------------------------------------------------------------
(***************************************************************************)
\* The running calls.
(***************************************************************************)
LEMMA PrefixFacts ==
  ASSUME NEW S, NEW s \in Seq(S), NEW n \in 0 .. Len(s)
  PROVE  /\ SubSeq(s, 1, n) \in Seq(S) /\ Len(SubSeq(s, 1, n)) = n
         /\ \A i \in 1 .. n : SubSeq(s, 1, n)[i] = s[i]
  OBVIOUS

LEMMA FrontFacts ==
  ASSUME NEW S, NEW s \in Seq(S), s # <<>>
  PROVE  /\ Front(s) \in Seq(S) /\ Len(Front(s)) = Len(s) - 1
         /\ \A i \in 1 .. Len(s) - 1 : Front(s)[i] = s[i]
<1>1. Len(s) \in Nat /\ Len(s) > 0
  OBVIOUS
<1>2. Len(s) - 1 \in 0 .. Len(s)
  BY <1>1
<1> QED
  BY <1>2, PrefixFacts DEF Front

LEMMA AppendFacts ==
  ASSUME NEW S, NEW s \in Seq(S), NEW x \in S
  PROVE  /\ Append(s, x) \in Seq(S) /\ Len(Append(s, x)) = Len(s) + 1
         /\ \A i \in 1 .. Len(s) : Append(s, x)[i] = s[i]
         /\ Append(s, x)[Len(s) + 1] = x
  OBVIOUS

LEMMA CurFacts ==
  ASSUME Shape, calls # <<>>
  PROVE  /\ Len(calls) \in {1, 2} /\ DOMAIN calls = 1 .. Len(calls) /\ Cur = calls[Len(calls)]
         /\ Cur \in Calls /\ (Len(calls) = 2 => calls[1] \in Calls)
         /\ Cur.who = IF Len(calls) = 1 THEN "main" ELSE "handler"
         /\ Cur.next <= Len(Text(Cur.who)) + (IF Cur.at = "call" THEN 1 ELSE 0)
         /\ Text(Cur.who) \in Seq(Kinds)
<1>1. calls \in Seq(Calls) /\ Len(calls) <= 2
  BY DEF Shape
<1>2. Len(calls) \in {1, 2} /\ DOMAIN calls = 1 .. Len(calls)
  <2>1. Len(calls) \in Nat /\ Len(calls) # 0 /\ DOMAIN calls = 1 .. Len(calls)
    BY <1>1
  <2> QED
    BY <1>1, <2>1
<1>3. Cur = calls[Len(calls)]
  BY DEF Cur, Last
<1>4. Len(calls) \in DOMAIN calls /\ 1 \in DOMAIN calls
  BY <1>2
<1>5. Cur \in Calls /\ calls[1] \in Calls
  BY <1>1, <1>3, <1>4
<1>6. /\ Cur.who = IF Len(calls) = 1 THEN "main" ELSE "handler"
      /\ Cur.next <= Len(Text(Cur.who)) + (IF Cur.at = "call" THEN 1 ELSE 0)
  BY <1>3, <1>4 DEF Shape
<1>7. Text(Cur.who) \in Seq(Kinds)
  BY ConsoleAssumption DEF Shape, Text
<1> QED
  BY <1>2, <1>3, <1>5, <1>6, <1>7

\* The call that runs has gone to another statement.
Stepped(at, next_, index) ==
  /\ calls' \in Seq(Calls) /\ Len(calls') = Len(calls) /\ calls' # <<>>
  /\ Cur' \in Calls /\ Cur'.who = Cur.who
  /\ Cur'.at = at /\ Cur'.next = next_ /\ Cur'.index = index
  /\ calls'[Len(calls)] = Cur' /\ (Len(calls) = 2 => calls'[1] = calls[1])

LEMMA GotoSteps ==
  ASSUME Shape, calls # <<>>, NEW c \in Calls, c.who = Cur.who, Goto(c)
  PROVE  Stepped(c.at, c.next, c.index)
<1>1. calls \in Seq(Calls) /\ Len(calls) \in {1, 2}
  BY CurFacts DEF Shape
<1>2. /\ Front(calls) \in Seq(Calls) /\ Len(Front(calls)) = Len(calls) - 1
      /\ \A i \in 1 .. Len(calls) - 1 : Front(calls)[i] = calls[i]
  BY <1>1, FrontFacts
<1>3. /\ calls' \in Seq(Calls) /\ Len(calls') = Len(Front(calls)) + 1
      /\ \A i \in 1 .. Len(Front(calls)) : calls'[i] = Front(calls)[i]
      /\ calls'[Len(Front(calls)) + 1] = c
  BY <1>2, AppendFacts DEF Goto
<1>4. Len(calls') = Len(calls) /\ calls'[Len(calls)] = c
  BY <1>1, <1>2, <1>3
<1>5. Len(calls) = 2 => calls'[1] = calls[1]
  BY <1>1, <1>2, <1>3
<1>6. Cur' = c
  BY <1>4 DEF Cur, Last
<1>7. calls' # <<>>
  BY <1>1, <1>3, <1>4
<1> QED
  BY <1>3, <1>4, <1>5, <1>6, <1>7 DEF Stepped

LEMMA TestSteps ==
  ASSUME Shape, Cells, calls # <<>>, TestFull
  PROVE  IF NewlineChar(CurChar) \/ buflen = BufSize
         THEN Stepped("send", Cur.next, buflen) ELSE Stepped("call", Cur.next + 1, Cur.index)
<1>1. Cur \in Calls /\ buflen \in 0 .. BufSize
  BY CurFacts DEF Cells
<1>2. CASE NewlineChar(CurChar) \/ buflen = BufSize
  <2> DEFINE c == [Cur EXCEPT !.at = "send", !.index = buflen]
  <2>1. Goto(c)
    BY <1>2 DEF TestFull
  <2>2. c \in Calls /\ c.who = Cur.who /\ c.at = "send" /\ c.next = Cur.next /\ c.index = buflen
    BY <1>1 DEF Calls, Points
  <2> QED
    BY <1>2, <2>1, <2>2, GotoSteps
<1>3. CASE ~(NewlineChar(CurChar) \/ buflen = BufSize)
  <2> DEFINE c == [Cur EXCEPT !.at = "call", !.next = @ + 1]
  <2>1. Goto(c)
    BY <1>3 DEF TestFull
  <2>2. c.who = Cur.who /\ c.at = "call" /\ c.next = Cur.next + 1 /\ c.index = Cur.index
    BY <1>1 DEF Calls
  <2>3. Cur.next + 1 \in Nat \ {0} /\ "call" \in Points
    BY <1>1 DEF Calls, Points
  <2>4. c \in Calls
    BY <1>1, <2>3 DEF Calls
  <2> QED
    BY <1>3, <2>1, <2>2, <2>4, GotoSteps
<1> QED
  BY <1>2, <1>3

LEMMA PutcharSteps ==
  ASSUME Shape, Cells, calls # <<>>
  PROVE  /\ ReadLength => Stepped("store", Cur.next, buflen)
         /\ StoreChar => Stepped("test", Cur.next, Cur.index) \/ (status' = "overrun" /\ calls' = calls)
         /\ TestFull => Stepped("send", Cur.next, buflen) \/ Stepped("call", Cur.next + 1, Cur.index)
         /\ SendRequest => Stepped("wait", Cur.next, Cur.index)
         /\ TakeAnswer => Stepped("reset", Cur.next, Cur.index)
         /\ ResetLength => Stepped("call", Cur.next + 1, Cur.index)
<1>1. Cur \in Calls /\ buflen \in 0 .. BufSize
  BY CurFacts DEF Cells
<1>2. ASSUME NEW p \in Points, NEW c, c = [Cur EXCEPT !.at = p], Goto(c)
      PROVE  Stepped(p, Cur.next, Cur.index)
  <2>1. c \in Calls /\ c.who = Cur.who /\ c.at = p /\ c.next = Cur.next /\ c.index = Cur.index
    BY <1>1, <1>2 DEF Calls
  <2> QED
    BY <1>2, <2>1, GotoSteps
<1>3. ASSUME NEW c, c = [Cur EXCEPT !.at = "store", !.index = buflen], Goto(c)
      PROVE  Stepped("store", Cur.next, buflen)
  <2>1. c \in Calls /\ c.who = Cur.who /\ c.at = "store" /\ c.next = Cur.next /\ c.index = buflen
    BY <1>1, <1>3 DEF Calls, Points
  <2> QED
    BY <1>3, <2>1, GotoSteps
<1>4. ASSUME NEW c, c = [Cur EXCEPT !.at = "call", !.next = @ + 1], Goto(c)
      PROVE  Stepped("call", Cur.next + 1, Cur.index)
  <2>1. c.who = Cur.who /\ c.at = "call" /\ c.next = Cur.next + 1 /\ c.index = Cur.index
    BY <1>1, <1>4 DEF Calls
  <2>2. Cur.next + 1 \in Nat \ {0} /\ "call" \in Points
    BY <1>1 DEF Calls, Points
  <2>3. c \in Calls
    BY <1>1, <1>4, <2>2 DEF Calls
  <2> QED
    BY <1>4, <2>1, <2>3, GotoSteps
<1>5. /\ ReadLength => Stepped("store", Cur.next, buflen)
      /\ TestFull => Stepped("send", Cur.next, buflen) \/ Stepped("call", Cur.next + 1, Cur.index)
  BY <1>3, TestSteps DEF ReadLength
<1>6. StoreChar => Stepped("test", Cur.next, Cur.index) \/ (status' = "overrun" /\ calls' = calls)
  BY <1>2 DEF StoreChar, Points
<1>7. /\ SendRequest => Stepped("wait", Cur.next, Cur.index)
      /\ TakeAnswer => Stepped("reset", Cur.next, Cur.index)
      /\ ResetLength => Stepped("call", Cur.next + 1, Cur.index)
  BY <1>2, <1>4 DEF SendRequest, TakeAnswer, ResetLength, Points
<1> QED
  BY <1>5, <1>6, <1>7

\* A handler returns to the call it interrupted ...
LEMMA ReturnSteps ==
  ASSUME Shape, ReturnFromHandler
  PROVE  /\ Len(calls) = 2 /\ calls' \in Seq(Calls) /\ Len(calls') = 1 /\ calls' # <<>>
         /\ calls'[1] = calls[1] /\ Cur' = calls[1]
<1>1. calls # <<>> /\ Len(calls) > 1 /\ calls' = Front(calls)
  BY DEF ReturnFromHandler, At, Running
<1>2. Len(calls) = 2 /\ calls \in Seq(Calls)
  BY <1>1, CurFacts DEF Shape
<1>3. /\ Front(calls) \in Seq(Calls) /\ Len(Front(calls)) = Len(calls) - 1
      /\ \A i \in 1 .. Len(calls) - 1 : Front(calls)[i] = calls[i]
  BY <1>1, <1>2, FrontFacts
<1>4. calls' \in Seq(Calls) /\ Len(calls') = 1 /\ calls'[1] = calls[1]
  BY <1>1, <1>2, <1>3
<1>7. Len(calls') = 1
  BY <1>4
<1>5. calls' # <<>>
  BY <1>7
<1>6. Cur' = calls[1]
  BY <1>4 DEF Cur, Last
<1> QED
  BY <1>2, <1>4, <1>5, <1>6

\* ... and begins at its first character.
LEMMA TrapSteps ==
  ASSUME Shape, TrapWhilePrinting
  PROVE  /\ Len(calls) = 1 /\ calls' \in Seq(Calls) /\ Len(calls') = 2 /\ calls' # <<>>
         /\ calls'[1] = calls[1] /\ calls'[2] = Cur' /\ Cur' = Call("handler") /\ Cur = calls[1]
<1>1. Len(calls) = 1 /\ calls \in Seq(Calls) /\ calls' = Append(calls, Call("handler")) /\ Cur = calls[1]
  BY CurFacts DEF TrapWhilePrinting, Running, Shape
<1>2. PICK c \in Calls : c = Call("handler")
  <2>1. BufSize \in Nat
    BY ConsoleAssumption
  <2>2. 0 \in 0 .. BufSize /\ "call" \in Points
    BY <2>1 DEF Points
  <2>3. Call("handler") \in Calls
    BY <2>2 DEF Call, Calls
  <2> QED
    BY <2>3
<1>7. /\ calls' \in Seq(Calls) /\ Len(calls') = Len(calls) + 1
      /\ \A i \in 1 .. Len(calls) : calls'[i] = calls[i]
      /\ calls'[Len(calls) + 1] = c
  <2>1. calls' = Append(calls, c)
    BY <1>1, <1>2
  <2>2. calls \in Seq(Calls)
    BY <1>1
  <2> QED
    BY <2>1, <2>2, AppendFacts
<1>6. Len(calls') = 2
  BY <1>1, <1>7
<1>3. calls' \in Seq(Calls) /\ calls'[1] = calls[1] /\ calls'[2] = Call("handler")
  BY <1>1, <1>2, <1>7
<1>4. calls' # <<>>
  BY <1>6
<1>5. Cur' = Call("handler")
  BY <1>3, <1>6 DEF Cur, Last
<1> QED
  BY <1>1, <1>3, <1>4, <1>5, <1>6
LEMMA SteppedShape ==
  ASSUME Shape, calls # <<>>, UNCHANGED <<trap, text>>, NEW at, NEW n, NEW index, Stepped(at, n, index),
         n <= Len(Text(Cur.who)) + (IF at = "call" THEN 1 ELSE 0)
  PROVE  Shape'
<1>1. /\ calls' \in Seq(Calls) /\ Len(calls') = Len(calls) /\ Len(calls) \in {1, 2}
      /\ calls'[Len(calls)] = Cur' /\ (Len(calls) = 2 => calls'[1] = calls[1])
      /\ Cur'.who = Cur.who /\ Cur'.at = at /\ Cur'.next = n
  BY CurFacts DEF Stepped
<1>2. Cur.who = IF Len(calls) = 1 THEN "main" ELSE "handler"
  BY CurFacts
<1>3. \A w : Text(w)' = Text(w)
  BY DEF Text
<1>4. DOMAIN calls' = 1 .. Len(calls') /\ DOMAIN calls = 1 .. Len(calls)
  BY <1>1, CurFacts
<1>5. ASSUME NEW i \in DOMAIN calls'
      PROVE  /\ calls'[i].who = IF i = 1 THEN "main" ELSE "handler"
             /\ calls'[i].next <= Len(Text(calls[i].who)') + (IF calls'[i].at = "call" THEN 1 ELSE 0)
             /\ i < Len(calls') => calls'[i].at \in trap.at
  <2>1. CASE i = Len(calls)
    <3>1. calls'[i] = Cur' /\ ~(i < Len(calls')) /\ (i = 1 <=> Len(calls) = 1)
      BY <1>1, <2>1
    <3>2. calls'[i].who = IF i = 1 THEN "main" ELSE "handler"
      BY <1>1, <1>2, <3>1
    <3>3. Text(calls[i].who)' = Text(Cur.who)
      BY <1>1, <1>3, <3>1
    <3>4. calls'[i].next <= Len(Text(calls[i].who)') + (IF calls'[i].at = "call" THEN 1 ELSE 0)
      BY <1>1, <3>1, <3>3
    <3> QED
      BY <3>1, <3>2, <3>4
  <2>2. CASE i = 1 /\ Len(calls) = 2
    <3>1. calls'[i] = calls[i] /\ i \in DOMAIN calls /\ i < Len(calls)
      BY <1>1, <1>4, <2>2
    <3>2. Text(calls[i].who)' = Text(calls[i].who)
      BY <1>3, <3>1
    <3> QED
      BY <3>1, <3>2 DEF Shape
  <2> QED
    BY <1>1, <1>4, <2>1, <2>2
<1> QED
  BY <1>1, <1>5 DEF Shape

\* Text and trap belong to the run.
LEMMA RunIsFixed ==
  ASSUME [PlatformNext]_pfvars
  PROVE  UNCHANGED <<PLAT, text, code, trap>>
<1>1. CASE ConsoleNext /\ UNCHANGED <<PLAT, text, code, uvars>>
  BY <1>1 DEF ConsoleNext, ProgramStep, PutcharStep, ReadLength, StoreChar, TestFull, SendRequest, TakeAnswer,
              ResetLength, ReturnFromHandler, TohostExit, TrapWhilePrinting, HostTakes, HostAnswers
<1>2. CASE UNCHANGED <<PLAT, text, code, cvars>>
  BY <1>2 DEF cvars
<1>3. CASE UNCHANGED pfvars
  BY <1>3 DEF pfvars, pvars, cvars
<1> QED
  BY <1>1, <1>2, <1>3 DEF PlatformNext, OnSpike, OnUart

LEMMA ShapeStep ==
  ASSUME Shape, Cells, [PlatformNext]_pfvars
  PROVE  Shape'
<1>1. UNCHANGED <<trap, text>> /\ (\A w : Text(w)' = Text(w))
  BY RunIsFixed DEF Text
<1>2. CASE calls' = calls
  BY <1>1, <1>2 DEF Shape
<1>3. CASE PutcharStep /\ calls' # calls
  <2>1. calls # <<>>
    BY <1>3 DEF PutcharStep, ReadLength, StoreChar, TestFull, SendRequest, TakeAnswer, ResetLength, At, Running
  <2>2. /\ Cur.next \in Nat /\ Len(Text(Cur.who)) \in Nat
        /\ Cur.next <= Len(Text(Cur.who)) + (IF Cur.at = "call" THEN 1 ELSE 0)
    BY <2>1, CurFacts DEF Calls
  <2>3. CASE ReadLength
    <3>1. Stepped("store", Cur.next, buflen) /\ Cur.next <= Len(Text(Cur.who))
      BY <2>1, <2>3, PutcharSteps DEF ReadLength, More
    <3> QED
      BY <1>1, <2>1, <2>2, <3>1, SteppedShape
  <2>4. CASE StoreChar
    <3>1. Stepped("test", Cur.next, Cur.index) /\ Cur.at = "store"
      BY <1>3, <2>1, <2>4, PutcharSteps DEF StoreChar, At
    <3> QED
      BY <1>1, <2>1, <2>2, <3>1, SteppedShape
  <2>5. CASE TestFull
    <3>1. Cur.at = "test"
      BY <2>5 DEF TestFull, At
    <3>2. CASE Stepped("send", Cur.next, buflen)
      BY <1>1, <2>1, <2>2, <3>1, <3>2, SteppedShape
    <3>3. CASE Stepped("call", Cur.next + 1, Cur.index)
      BY <1>1, <2>1, <2>2, <3>1, <3>3, SteppedShape
    <3> QED
      BY <2>1, <2>5, <3>2, <3>3, PutcharSteps
  <2>6. CASE SendRequest
    <3>1. Stepped("wait", Cur.next, Cur.index) /\ Cur.at = "send"
      BY <2>1, <2>6, PutcharSteps DEF SendRequest, At
    <3> QED
      BY <1>1, <2>1, <2>2, <3>1, SteppedShape
  <2>7. CASE TakeAnswer
    <3>1. Stepped("reset", Cur.next, Cur.index) /\ Cur.at = "wait"
      BY <2>1, <2>7, PutcharSteps DEF TakeAnswer, At
    <3> QED
      BY <1>1, <2>1, <2>2, <3>1, SteppedShape
  <2>8. CASE ResetLength
    <3>1. Stepped("call", Cur.next + 1, Cur.index) /\ Cur.at = "reset"
      BY <2>1, <2>8, PutcharSteps DEF ResetLength, At
    <3> QED
      BY <1>1, <2>1, <2>2, <3>1, SteppedShape
  <2> QED
    BY <1>3, <2>3, <2>4, <2>5, <2>6, <2>7, <2>8 DEF PutcharStep
<1>4. CASE ReturnFromHandler
  <2>1. /\ Len(calls) = 2 /\ calls' \in Seq(Calls) /\ Len(calls') = 1 /\ calls'[1] = calls[1]
    BY <1>4, ReturnSteps
  <2>2. DOMAIN calls' = {1} /\ 1 \in DOMAIN calls
    BY <2>1 DEF Shape
  <2> QED
    BY <1>1, <2>1, <2>2 DEF Shape
<1>5. CASE TohostExit
  <2>1. calls' = <<>>
    BY <1>5 DEF TohostExit
  <2>2. calls' \in Seq(Calls) /\ Len(calls') = 0 /\ DOMAIN calls' = {}
    BY <2>1
  <2> QED
    BY <1>1, <2>2 DEF Shape
<1>6. CASE TrapWhilePrinting
  <2>1. /\ Len(calls) = 1 /\ calls' \in Seq(Calls) /\ Len(calls') = 2
        /\ calls'[1] = calls[1] /\ calls'[2] = Call("handler") /\ calls[1].at \in trap.at
    BY <1>6, TrapSteps DEF TrapWhilePrinting
  <2>2. DOMAIN calls' = {1, 2} /\ 1 \in DOMAIN calls
    BY <2>1 DEF Shape
  <2>3. Text("handler")' \in Seq(Kinds)
    BY <1>1, ConsoleAssumption DEF Shape, Text
  <2>4. Call("handler").next = 1 /\ Call("handler").at = "call" /\ Call("handler").who = "handler"
    BY DEF Call
  <2>5. 1 <= Len(Text("handler")') + 1
    BY <2>3
  <2> QED
    BY <1>1, <2>1, <2>2, <2>4, <2>5 DEF Shape
<1>7. CASE HostTakes \/ HostAnswers \/ UNCHANGED cvars
  BY <1>2, <1>7 DEF HostTakes, HostAnswers, cvars
<1> QED
  BY <1>2, <1>3, <1>4, <1>5, <1>6, <1>7 DEF PlatformNext, OnSpike, OnUart, ConsoleNext, ProgramStep, pfvars
-----------------------------------------------------------------------------
(***************************************************************************)
\* The buffer and the cells.
(***************************************************************************)
LEMMA ConcatFacts ==
  ASSUME NEW S, NEW s \in Seq(S), NEW t \in Seq(S)
  PROVE  /\ s \o t \in Seq(S) /\ Len(s \o t) = Len(s) + Len(t)
         /\ \A i \in 1 .. Len(s) : (s \o t)[i] = s[i]
         /\ \A i \in 1 .. Len(t) : (s \o t)[Len(s) + i] = t[i]
  OBVIOUS

LEMMA CurCharOK ==
  ASSUME Shape, calls # <<>>, Cur.next <= Len(Text(Cur.who))
  PROVE  CurChar \in AnyChar
<1>1. Cur.next \in Nat \ {0} /\ Cur.who \in {"main", "handler"} /\ Text(Cur.who) \in Seq(Kinds)
  BY CurFacts DEF Calls
<1>2. Text(Cur.who)[Cur.next] \in Kinds
  BY <1>1
<1> QED
  BY <1>1, <1>2 DEF CurChar, Char, AnyChar

LEMMA UartOnly ==
  ASSUME UartNext
  PROVE  PLAT # "spike" /\ HasUart
<1>1. HasUart
  BY DEF UartNext, PutStep, PutCarriageReturn, PutChar, MoreToPut, CallExit, DeviceSends
<1> QED
  BY <1>1 DEF HasUart, Board

\* The host reads the characters of a request from buf.
LEMMA TakenChars ==
  ASSUME Cells, tohost # None, tohost.kind # "exit"
  PROVE  /\ tohost.kind = "write" /\ tohost.len \in 0 .. BufSize /\ tohost = Write(tohost.len)
         /\ SubSeq(buf, 1, tohost.len) \in Seq(AnyChar \union {Empty})
         /\ Len(SubSeq(buf, 1, tohost.len)) = tohost.len
         /\ \A i \in 1 .. tohost.len : SubSeq(buf, 1, tohost.len)[i] = buf[i]
<1>1. PICK n \in 0 .. BufSize : tohost = Write(n)
  BY DEF Cells, Exit
<1>2. tohost.kind = "write" /\ tohost.len = n
  BY <1>1 DEF Write
<1>3. BufSize \in Nat
  BY ConsoleAssumption
<1>4. PICK b \in Seq(AnyChar \union {Empty}) : b = buf /\ Len(b) = BufSize
  BY <1>3 DEF Cells
<1>5. n \in 0 .. Len(b)
  BY <1>4
<1> QED
  BY <1>1, <1>2, <1>4, <1>5, PrefixFacts

LEMMA CellsStep ==
  ASSUME Shape, Cells, [PlatformNext]_pfvars
  PROVE  Cells'
<1> USE ConsoleAssumption
<1>1. CASE UartNext /\ UNCHANGED <<PLAT, text, code, cvars>>
  BY <1>1, UartOnly DEF Cells, cvars
<1>2. CASE UNCHANGED pfvars
  BY <1>2 DEF Cells, pfvars, pvars, cvars
<1>3. CASE ConsoleNext /\ UNCHANGED <<PLAT, text, code, uvars>>
  <2> USE <1>3
  <2>0. UNCHANGED PLAT
    OBVIOUS
  <2>1. CASE ReadLength
    <3>1. calls # <<>> /\ Cur.next <= Len(Text(Cur.who)) /\ PLAT = "spike"
      BY <2>1 DEF ReadLength, At, Running, More
    <3>2. printed' = Append(printed, CurChar)
          /\ UNCHANGED <<trap, buf, buflen, tohost, fromhost, answers, shown, status>>
      BY <2>1 DEF ReadLength
    <3>3. printed' \in Seq(AnyChar)
      BY <3>1, <3>2, CurCharOK DEF Cells
    <3> QED
      BY <2>0, <3>2, <3>3 DEF Cells
  <2>2. CASE StoreChar
    <3>1. calls # <<>> /\ Cur.at = "store"
      BY <2>2 DEF StoreChar, At, Running
    <3>2. CASE Cur.index < BufSize
      <4>1. /\ buf' = [buf EXCEPT ![Cur.index + 1] = CurChar] /\ buflen' = Cur.index + 1
            /\ UNCHANGED <<tohost, fromhost, answers, printed, shown, status>>
        BY <2>2, <3>2 DEF StoreChar
      <4>2. Cur.index \in 0 .. BufSize
        BY <3>1, CurFacts DEF Calls
      <4>3. CurChar \in AnyChar
        BY <3>1, CurFacts, CurCharOK
      <4>4. buflen' \in 0 .. BufSize
        BY <3>2, <4>1, <4>2
      <4>5. buf' \in [1 .. BufSize -> AnyChar \union {Empty}]
        BY <4>1, <4>3 DEF Cells
      <4> QED
        BY <2>0, <4>1, <4>4, <4>5 DEF Cells
    <3>3. CASE ~(Cur.index < BufSize)
      BY <2>0, <2>2, <3>3 DEF StoreChar, Cells
    <3> QED
      BY <3>2, <3>3
  <2>3. CASE TestFull \/ ReturnFromHandler \/ TrapWhilePrinting
    BY <2>0, <2>3 DEF TestFull, ReturnFromHandler, TrapWhilePrinting, Cells
  <2>4. CASE SendRequest
    <3>1. Cur.index \in 0 .. BufSize
      BY <2>4, CurFacts DEF SendRequest, At, Running, Calls
    <3> QED
      BY <2>0, <2>4, <3>1 DEF SendRequest, Cells
  <2>5. CASE TakeAnswer \/ TohostExit
    BY <2>0, <2>5 DEF TakeAnswer, TohostExit, Cells
  <2>6. CASE ResetLength
    <3>1. buflen' \in 0 .. BufSize
      BY <2>6 DEF ResetLength
    <3> QED
      BY <2>0, <2>6, <3>1 DEF ResetLength, Cells
  <2>7. CASE HostTakes
    <3>1. CASE tohost.kind = "exit"
      BY <2>0, <2>7, <3>1 DEF HostTakes, Cells
    <3>2. CASE tohost.kind # "exit"
      <4>1. /\ shown' = shown \o SubSeq(buf, 1, tohost.len) /\ answers' = answers + 1 /\ tohost' = None
            /\ PLAT = "spike" /\ UNCHANGED <<status, buf, buflen, fromhost, printed>>
        BY <2>7, <3>2 DEF HostTakes
      <4>2. SubSeq(buf, 1, tohost.len) \in Seq(AnyChar \union {Empty})
        BY <2>7, <3>2, TakenChars DEF HostTakes
      <4>3. shown' \in Seq(AnyChar \union {Empty})
        BY <4>1, <4>2, ConcatFacts DEF Cells
      <4> QED
        BY <2>0, <4>1, <4>3 DEF Cells
    <3> QED
      BY <3>1, <3>2
  <2>8. CASE HostAnswers
    BY <2>0, <2>8 DEF HostAnswers, Cells
  <2> QED
    BY <2>1, <2>2, <2>3, <2>4, <2>5, <2>6, <2>7, <2>8 DEF ConsoleNext, ProgramStep, PutcharStep
<1> QED
  BY <1>1, <1>2, <1>3 DEF PlatformNext, OnSpike, OnUart
-----------------------------------------------------------------------------
(***************************************************************************)
\* Requests and answers.
(***************************************************************************)
Waits(c) == IF c.at = "wait" THEN 1 ELSE 0
AtWait   == Waiting(1) + Waiting(2)

LEMMA WaitingIs ==
  ASSUME Shape, calls # <<>>
  PROVE  /\ Len(calls) = 1 => AtWait = Waits(Cur)
         /\ Len(calls) = 2 => AtWait = Waits(calls[1]) + Waits(Cur)
<1>1. Len(calls) \in {1, 2} /\ Cur = calls[Len(calls)]
  BY CurFacts
<1>2. CASE Len(calls) = 1
  BY <1>1, <1>2 DEF AtWait, Waiting, Waits
<1>3. CASE Len(calls) = 2
  BY <1>1, <1>3 DEF AtWait, Waiting, Waits
<1> QED
  BY <1>1, <1>2, <1>3

LEMMA WaitingSteps ==
  ASSUME Shape, calls # <<>>, NEW at, NEW n, NEW index, Stepped(at, n, index)
  PROVE  AtWait' = AtWait - Waits(Cur) + (IF at = "wait" THEN 1 ELSE 0)
<1>1. /\ Len(calls') = Len(calls) /\ Len(calls) \in {1, 2} /\ Cur = calls[Len(calls)]
      /\ calls'[Len(calls)] = Cur' /\ (Len(calls) = 2 => calls'[1] = calls[1]) /\ Cur'.at = at
  BY CurFacts DEF Stepped
<1>2. CASE Len(calls) = 1
  <2>1. AtWait' = IF at = "wait" THEN 1 ELSE 0
    BY <1>1, <1>2 DEF AtWait, Waiting
  <2>2. AtWait = Waits(Cur) /\ Waits(Cur) \in {0, 1}
    BY <1>1, <1>2 DEF AtWait, Waiting, Waits
  <2> QED
    BY <2>1, <2>2
<1>3. CASE Len(calls) = 2
  <2>1. AtWait' = Waits(calls[1]) + (IF at = "wait" THEN 1 ELSE 0)
    BY <1>1, <1>3 DEF AtWait, Waiting, Waits
  <2>2. AtWait = Waits(calls[1]) + Waits(Cur) /\ Waits(Cur) \in {0, 1} /\ Waits(calls[1]) \in {0, 1}
    BY <1>1, <1>3 DEF AtWait, Waiting, Waits
  <2> QED
    BY <2>1, <2>2
<1> QED
  BY <1>1, <1>2, <1>3

\* Every step of putchar but an overrun goes on.
LEMMA SameCalls ==
  ASSUME Shape, Cells, PutcharStep, calls' = calls
  PROVE  StoreChar
<1>1. calls # <<>> /\ Cur' = Cur
  BY DEF PutcharStep, ReadLength, StoreChar, TestFull, SendRequest, TakeAnswer, ResetLength, At, Running, Cur
<1>2. CASE ReadLength \/ SendRequest \/ TakeAnswer
  <2>1. Cur.at \in {"call", "send", "wait"}
    BY <1>2 DEF ReadLength, SendRequest, TakeAnswer, At
  <2>2. Stepped("store", Cur.next, buflen) \/ Stepped("wait", Cur.next, Cur.index) \/ Stepped("reset", Cur.next, Cur.index)
    BY <1>1, <1>2, PutcharSteps
  <2>3. (ReadLength => Cur.at = "call") /\ (SendRequest => Cur.at = "send") /\ (TakeAnswer => Cur.at = "wait")
    BY DEF ReadLength, SendRequest, TakeAnswer, At
  <2>4. (ReadLength => Cur'.at = "store") /\ (SendRequest => Cur'.at = "wait") /\ (TakeAnswer => Cur'.at = "reset")
    BY <1>1, PutcharSteps DEF Stepped
  <2> QED
    BY <1>1, <1>2, <2>3, <2>4
<1>3. CASE TestFull \/ ResetLength
  <2>1. Cur.at \in {"test", "reset"}
    BY <1>3 DEF TestFull, ResetLength, At
  <2>2. Cur'.at \in {"send", "call"}
    BY <1>1, <1>3, PutcharSteps DEF Stepped
  <2> QED
    BY <1>1, <2>1, <2>2
<1> QED
  BY <1>2, <1>3 DEF PutcharStep

LEMMA OwedStep ==
  ASSUME Shape, Cells, Owed, [PlatformNext]_pfvars
  PROVE  Owed'
<1>1. UNCHANGED trap /\ answers \in Nat /\ fromhost \in {0, 1} /\ Unread \in {0, 1} /\ AtWait \in {0, 1, 2}
  BY RunIsFixed DEF Cells, Unread, AtWait, Waiting
<1>2. /\ calls # <<>> => answers + fromhost + Unread <= AtWait
      /\ calls = <<>> => Unread = 0 /\ answers + fromhost <= 2
      /\ calls = <<>> /\ trap.at \subseteq {"call"} => answers + fromhost = 0
  BY DEF Owed, AtWait
<1>3. SUFFICES /\ calls' # <<>> => answers' + fromhost' + Unread' <= AtWait'
               /\ calls' = <<>> => Unread' = 0 /\ answers' + fromhost' <= 2
               /\ calls' = <<>> /\ trap.at \subseteq {"call"} => answers' + fromhost' = 0
  BY <1>1 DEF Owed, AtWait
<1>4. CASE UNCHANGED <<calls, tohost, fromhost, answers>>
  <2>1. Unread' = Unread /\ AtWait' = AtWait
    BY <1>4 DEF Unread, AtWait, Waiting
  <2> QED
    BY <1>2, <1>4, <2>1
<1>5. CASE PutcharStep /\ ~UNCHANGED calls
  <2>1. calls # <<>> /\ Waits(Cur) \in {0, 1}
    BY <1>5 DEF PutcharStep, ReadLength, StoreChar, TestFull, SendRequest, TakeAnswer, ResetLength, At, Running, Waits
  <2>2. CASE ReadLength \/ StoreChar \/ TestFull \/ ResetLength
    <3>1. Cur.at # "wait" /\ UNCHANGED <<tohost, fromhost, answers>>
      BY <2>2 DEF ReadLength, StoreChar, TestFull, ResetLength, At
    <3>2. PICK at, n, index : at \in {"store", "test", "send", "call"} /\ Stepped(at, n, index)
      BY <1>5, <2>1, <2>2, PutcharSteps
    <3>3. AtWait' = AtWait /\ calls' # <<>> /\ Unread' = Unread
      <4>1. AtWait' = AtWait - Waits(Cur) + (IF at = "wait" THEN 1 ELSE 0)
        BY <2>1, <3>2, WaitingSteps
      <4>2. Waits(Cur) = 0 /\ at # "wait"
        BY <3>1, <3>2 DEF Waits
      <4> QED
        BY <1>1, <3>1, <3>2, <4>1, <4>2 DEF Stepped, Unread
    <3> QED
      BY <1>2, <2>1, <3>1, <3>3
  <2>3. CASE SendRequest
    <3>1. Cur.at = "send" /\ tohost' = Write(Cur.index) /\ UNCHANGED <<fromhost, answers>>
      BY <2>3 DEF SendRequest, At
    <3>2. Stepped("wait", Cur.next, Cur.index)
      BY <2>1, <2>3, PutcharSteps
    <3>3. AtWait' = AtWait - Waits(Cur) + 1
      BY <2>1, <3>2, WaitingSteps
    <3>4. Waits(Cur) = 0 /\ Unread' = 1 /\ calls' # <<>>
      BY <3>1, <3>2 DEF Waits, Unread, Write, Stepped
    <3> QED
      BY <1>1, <1>2, <2>1, <3>1, <3>3, <3>4
  <2>4. CASE TakeAnswer
    <3>1. Cur.at = "wait" /\ fromhost # 0 /\ fromhost' = 0 /\ UNCHANGED <<tohost, answers>>
      BY <2>4 DEF TakeAnswer, At
    <3>2. Stepped("reset", Cur.next, Cur.index)
      BY <2>1, <2>4, PutcharSteps
    <3>3. AtWait' = AtWait - Waits(Cur) + 0
      BY <2>1, <3>2, WaitingSteps
    <3>4. Waits(Cur) = 1 /\ Unread' = Unread /\ calls' # <<>>
      BY <3>1, <3>2 DEF Waits, Unread, Stepped
    <3> QED
      BY <1>1, <1>2, <2>1, <3>1, <3>3, <3>4
  <2> QED
    BY <1>5, <2>2, <2>3, <2>4 DEF PutcharStep
<1>6. CASE ReturnFromHandler
  <2>1. calls # <<>> /\ Cur.at = "call" /\ UNCHANGED <<tohost, fromhost, answers>>
    BY <1>6 DEF ReturnFromHandler, At, Running
  <2>2. /\ Len(calls) = 2 /\ Len(calls') = 1 /\ calls' # <<>> /\ calls'[1] = calls[1]
    BY <1>6, ReturnSteps
  <2>3. AtWait = Waits(calls[1]) /\ AtWait' = Waits(calls[1]) /\ Unread' = Unread
    <3>1. AtWait = Waits(calls[1]) + Waits(Cur)
      BY <2>1, <2>2, WaitingIs
    <3>2. AtWait' = Waits(calls[1]) + 0
      BY <2>2 DEF AtWait, Waiting, Waits
    <3> QED
      BY <2>1, <3>1, <3>2 DEF Waits, Unread
  <2> QED
    BY <1>2, <2>1, <2>2, <2>3
<1>7. CASE TohostExit
  <2>1. calls # <<>> /\ Cur.at = "call" /\ tohost' = Exit /\ calls' = <<>> /\ UNCHANGED <<fromhost, answers>>
    BY <1>7 DEF TohostExit, At, Running
  <2>2. Unread' = 0
    BY <2>1 DEF Unread, Exit
  <2>3. Len(calls) \in {1, 2} /\ (Len(calls) = 2 => calls[1].at \in trap.at)
    <3>1. Len(calls) \in {1, 2} /\ DOMAIN calls = 1 .. Len(calls)
      BY <2>1, CurFacts
    <3>2. ASSUME Len(calls) = 2
          PROVE  calls[1].at \in trap.at
      <4>1. 1 \in DOMAIN calls /\ 1 < Len(calls)
        BY <3>1, <3>2
      <4> QED
        BY <4>1 DEF Shape
    <3> QED
      BY <3>1, <3>2
  <2>4. AtWait = 0 \/ (Len(calls) = 2 /\ AtWait = Waits(calls[1]))
    BY <2>1, <2>3, WaitingIs DEF Waits
  <2>5. AtWait <= 1 /\ (trap.at \subseteq {"call"} => AtWait = 0)
    BY <2>3, <2>4 DEF Waits
  <2> QED
    BY <1>1, <1>2, <2>1, <2>2, <2>5
<1>8. CASE TrapWhilePrinting
  <2>1. /\ Len(calls) = 1 /\ Len(calls') = 2 /\ calls' # <<>> /\ Cur = calls[1]
        /\ calls'[1] = calls[1] /\ calls'[2] = Call("handler") /\ calls # <<>>
        /\ UNCHANGED <<tohost, fromhost, answers>>
    BY <1>8, TrapSteps DEF TrapWhilePrinting, Running
  <2>2. AtWait' = Waits(Cur) + 0
    BY <2>1 DEF AtWait, Waiting, Waits, Call
  <2>3. AtWait = Waits(Cur)
    BY <2>1, WaitingIs
  <2>4. AtWait' = AtWait /\ Unread' = Unread
    BY <1>1, <2>1, <2>2, <2>3 DEF Unread
  <2> QED
    BY <1>2, <2>1, <2>4
<1>9. CASE HostTakes
  <2>1. tohost # None /\ tohost' = None /\ UNCHANGED <<calls, fromhost>>
    BY <1>9 DEF HostTakes
  <2>2. Unread' = 0 /\ AtWait' = AtWait
    BY <2>1 DEF Unread, None, AtWait, Waiting
  <2>3. CASE tohost.kind = "exit"
    <3>1. answers' = answers
      BY <1>9, <2>3 DEF HostTakes
    <3> QED
      BY <1>1, <1>2, <2>1, <2>2, <3>1
  <2>4. CASE tohost.kind # "exit"
    <3>1. answers' = answers + 1 /\ Unread = 1
      BY <1>9, <2>1, <2>4, TakenChars DEF HostTakes, Unread
    <3> QED
      BY <1>1, <1>2, <2>1, <2>2, <3>1
  <2> QED
    BY <2>3, <2>4
<1>10. CASE HostAnswers
  <2>1. fromhost = 0 /\ fromhost' = 1 /\ answers' = answers - 1 /\ UNCHANGED <<calls, tohost>>
    BY <1>10 DEF HostAnswers
  <2>2. Unread' = Unread /\ AtWait' = AtWait
    BY <2>1 DEF Unread, AtWait, Waiting
  <2> QED
    BY <1>1, <1>2, <2>1, <2>2
<1> QED
  <2>1. CASE UartNext /\ UNCHANGED <<PLAT, text, code, cvars>>
    BY <1>4, <2>1 DEF cvars
  <2>2. CASE UNCHANGED pfvars
    BY <1>4, <2>2 DEF pfvars, cvars
  <2>3. CASE PutcharStep /\ UNCHANGED calls
    <3>1. calls # <<>>
      BY <2>3 DEF PutcharStep, ReadLength, StoreChar, TestFull, SendRequest, TakeAnswer, ResetLength, At, Running
    <3>2. StoreChar
      BY <2>3, <3>1, SameCalls
    <3> QED
      BY <1>4, <2>3, <3>2 DEF StoreChar
  <2> QED
    BY <1>5, <1>6, <1>7, <1>8, <1>9, <1>10, <2>1, <2>2, <2>3
       DEF PlatformNext, OnSpike, OnUart, ConsoleNext, ProgramStep-----------------------------------------------------------------------------
(***************************************************************************)
\* Room in the buffer.
(***************************************************************************)
LEMMA InterruptedSteps ==
  ASSUME Shape, calls # <<>>, NEW at, NEW n, NEW index, Stepped(at, n, index)
  PROVE  Interrupted' <=> Interrupted
<1>1. Len(calls') = Len(calls) /\ (Len(calls) = 2 => calls'[1] = calls[1])
  BY DEF Stepped
<1> QED
  BY <1>1 DEF Interrupted

LEMMA RoomLeftStep ==
  ASSUME Shape, Cells, RoomLeft, [PlatformNext]_pfvars
  PROVE  RoomLeft'
<1>0. BufSize \in Nat \ {0} /\ buflen \in 0 .. BufSize
  BY ConsoleAssumption DEF Cells
<1>1. CASE UNCHANGED <<calls, buflen, status>>
  BY <1>1 DEF RoomLeft, Interrupted, Cur
<1>2. CASE PutcharStep
  <2>1. calls # <<>> /\ status = "running" /\ Cur \in Calls /\ Len(calls) \in {1, 2}
    BY <1>2, CurFacts
       DEF PutcharStep, ReadLength, StoreChar, TestFull, SendRequest, TakeAnswer, ResetLength, At, Running
  <2>2. /\ Cur.at \in {"call", "store"} => buflen < BufSize \/ Interrupted
        /\ Cur.at = "store" => Cur.index < BufSize \/ Interrupted
        /\ Len(calls) = 2 /\ calls[1].at = "store" => calls[1].index < BufSize
        /\ Len(calls) = 1 /\ Cur.at \in {"send", "wait", "reset"} => buflen < BufSize \/ Cur.index = BufSize
    BY <2>1 DEF RoomLeft
  <2>3. ASSUME NEW at, NEW n, NEW index, Stepped(at, n, index), status' = status,
               at \in {"call", "store"} => buflen' < BufSize \/ Interrupted,
               at = "store" => index < BufSize \/ Interrupted,
               at \in {"send", "wait", "reset"} => buflen' < BufSize \/ index = BufSize \/ Len(calls) = 2
        PROVE  RoomLeft'
    <3>1. /\ Len(calls') = Len(calls) /\ (Len(calls) = 2 => calls'[1] = calls[1])
          /\ Cur'.at = at /\ Cur'.index = index
      BY <2>3 DEF Stepped
    <3>2. Interrupted' <=> Interrupted
      BY <2>1, <2>3, InterruptedSteps
    <3> QED
      BY <2>1, <2>2, <2>3, <3>1, <3>2 DEF RoomLeft
  <2>4. CASE ReadLength
    <3>1. Cur.at = "call" /\ UNCHANGED <<buflen, status>>
      BY <2>4 DEF ReadLength, At
    <3>2. Stepped("store", Cur.next, buflen)
      BY <2>1, <2>4, PutcharSteps
    <3> QED
      BY <2>2, <2>3, <3>1, <3>2
  <2>5. CASE StoreChar
    <3>1. Cur.at = "store"
      BY <2>5 DEF StoreChar, At
    <3>2. CASE Cur.index < BufSize
      <4>1. status' = status
        BY <2>5, <3>2 DEF StoreChar
      <4>2. Stepped("test", Cur.next, Cur.index)
        BY <2>1, <2>5, <4>1, PutcharSteps
      <4> QED
        BY <2>3, <4>1, <4>2
    <3>3. CASE ~(Cur.index < BufSize)
      <4>1. status' = "overrun" /\ UNCHANGED calls
        BY <2>5, <3>3 DEF StoreChar
      <4> QED
        BY <2>2, <3>1, <3>3, <4>1 DEF RoomLeft, Interrupted
    <3> QED
      BY <3>2, <3>3
  <2>6. CASE TestFull
    <3>1. Cur.at = "test" /\ UNCHANGED <<buflen, status>>
      BY <2>6 DEF TestFull, At
    <3>2. CASE NewlineChar(CurChar) \/ buflen = BufSize
      <4>1. Stepped("send", Cur.next, buflen)
        BY <2>1, <2>6, <3>2, TestSteps
      <4> QED
        BY <1>0, <2>3, <3>1, <4>1
    <3>3. CASE ~(NewlineChar(CurChar) \/ buflen = BufSize)
      <4>1. Stepped("call", Cur.next + 1, Cur.index)
        BY <2>1, <2>6, <3>3, TestSteps
      <4>2. buflen' < BufSize
        BY <1>0, <3>1, <3>3
      <4> QED
        BY <2>3, <3>1, <4>1, <4>2
    <3> QED
      BY <3>2, <3>3
  <2>7. CASE SendRequest
    <3>1. Cur.at = "send" /\ UNCHANGED <<buflen, status>>
      BY <2>7 DEF SendRequest, At
    <3>2. Stepped("wait", Cur.next, Cur.index)
      BY <2>1, <2>7, PutcharSteps
    <3> QED
      BY <2>1, <2>2, <2>3, <3>1, <3>2
  <2>8. CASE TakeAnswer
    <3>1. Cur.at = "wait" /\ UNCHANGED <<buflen, status>>
      BY <2>8 DEF TakeAnswer, At
    <3>2. Stepped("reset", Cur.next, Cur.index)
      BY <2>1, <2>8, PutcharSteps
    <3> QED
      BY <2>1, <2>2, <2>3, <3>1, <3>2
  <2>9. CASE ResetLength
    <3>1. buflen' = 0 /\ buflen' < BufSize /\ status' = status
      BY <1>0, <2>9 DEF ResetLength
    <3>2. Stepped("call", Cur.next + 1, Cur.index)
      BY <2>1, <2>9, PutcharSteps
    <3> QED
      BY <2>3, <3>1, <3>2
  <2> QED
    BY <1>2, <2>4, <2>5, <2>6, <2>7, <2>8, <2>9 DEF PutcharStep
<1>3. CASE ReturnFromHandler
  <2>1. /\ Len(calls) = 2 /\ Len(calls') = 1 /\ calls' # <<>> /\ calls # <<>> /\ Cur' = calls[1]
        /\ status = "running" /\ Cur.at = "call" /\ UNCHANGED <<buflen, status>>
    BY <1>3, ReturnSteps DEF ReturnFromHandler, At, Running
  <2>2. /\ buflen < BufSize \/ Interrupted
        /\ calls[1].at = "store" => calls[1].index < BufSize
    BY <2>1 DEF RoomLeft
  <2> QED
    BY <2>1, <2>2 DEF RoomLeft, Interrupted
<1>4. CASE TohostExit
  <2>1. calls' = <<>> /\ status' = "running"
    BY <1>4 DEF TohostExit, At, Running
  <2> QED
    BY <2>1 DEF RoomLeft
<1>5. CASE TrapWhilePrinting
  <2>1. /\ Len(calls) = 1 /\ Len(calls') = 2 /\ calls # <<>> /\ Cur = calls[1] /\ calls'[1] = calls[1]
        /\ Cur' = Call("handler") /\ status = "running" /\ UNCHANGED <<buflen, status>>
    BY <1>5, TrapSteps DEF TrapWhilePrinting, Running
  <2>2. Cur'.at = "call" /\ ~Interrupted /\ Cur \in Calls
    BY <2>1, CurFacts DEF Call, Interrupted
  <2>3. /\ Cur.at \in {"call", "store"} => buflen < BufSize
        /\ Cur.at = "store" => Cur.index < BufSize
        /\ Cur.at \in {"send", "wait", "reset"} => buflen < BufSize \/ Cur.index = BufSize
    BY <2>1, <2>2 DEF RoomLeft
  <2>4. Cur.at \in {"call", "store", "test", "send", "wait", "reset"}
    BY <2>2 DEF Calls, Points
  <2> QED
    BY <2>1, <2>2, <2>3, <2>4 DEF RoomLeft, Interrupted
<1>6. CASE HostTakes
  <2>1. UNCHANGED <<calls, buflen>> /\ (status' = "exited" \/ status' = status)
    BY <1>6 DEF HostTakes
  <2> QED
    BY <1>1, <2>1 DEF RoomLeft
<1> QED
  <2>1. CASE HostAnswers
    BY <1>1, <2>1 DEF HostAnswers
  <2>2. CASE UNCHANGED cvars
    BY <1>1, <2>2 DEF cvars
  <2> QED
    BY <1>2, <1>3, <1>4, <1>5, <1>6, <2>1, <2>2
       DEF PlatformNext, OnSpike, OnUart, ConsoleNext, ProgramStep, pfvars-----------------------------------------------------------------------------
(***************************************************************************)
\* The order of the characters.
(***************************************************************************)
LEMMA OrderlyIs ==
  ASSUME Shape, Cells, RoomLeft, Owed, StreamInv, Orderly
  PROVE  /\ InOrder /\ (Len(calls) = 2 => calls[1].at = "call" /\ Calm)
         /\ Cur.at = "call" => buflen < BufSize
         /\ Cur.at = "store" => buflen < BufSize /\ Cur.index < BufSize
         /\ Cur.at = "wait" /\ fromhost # 0 => tohost.kind # "write"
         /\ printed \in Seq(AnyChar) /\ shown \in Seq(AnyChar \union {Empty})
<1>1. InOrder /\ calls # <<>> /\ status = "running" /\ Len(calls) \in {1, 2}
  BY CurFacts DEF StreamInv, Orderly
<1>2. ASSUME Len(calls) = 2
      PROVE  calls[1].at = "call" /\ Calm
  <2>1. Calm /\ 1 \in DOMAIN calls /\ 1 < Len(calls)
    BY <1>1, <1>2, CurFacts DEF Orderly
  <2> QED
    BY <1>2, <2>1 DEF Shape, Calm
<1>3. ~Interrupted
  BY <1>2 DEF Interrupted
<1>4. /\ Cur.at = "call" => buflen < BufSize
      /\ Cur.at = "store" => buflen < BufSize /\ Cur.index < BufSize
  BY <1>1, <1>3 DEF RoomLeft
<1>5. AtWait = Waits(Cur)
  <2>1. CASE Len(calls) = 1
    BY <1>1, <2>1, WaitingIs
  <2>2. CASE Len(calls) = 2
    <3>1. AtWait = Waits(calls[1]) + Waits(Cur) /\ calls[1].at = "call"
      BY <1>1, <1>2, <2>2, WaitingIs
    <3> QED
      BY <3>1 DEF Waits
  <2> QED
    BY <1>1, <2>1, <2>2
<1>6. ASSUME Cur.at = "wait", fromhost # 0
      PROVE  tohost.kind # "write"
  <2>1. answers + fromhost + Unread <= 1 /\ answers \in Nat /\ fromhost = 1
    BY <1>1, <1>5, <1>6 DEF Owed, AtWait, Waits, Cells
  <2>2. Unread # 1
    BY <2>1 DEF Unread
  <2> QED
    BY <2>2 DEF Unread
<1> QED
  BY <1>1, <1>2, <1>4, <1>6 DEF Cells, Orderly

LEMMA CurCharSteps ==
  ASSUME Shape, calls # <<>>, UNCHANGED <<trap, text>>, NEW at, NEW index, Stepped(at, Cur.next, index)
  PROVE  CurChar' = CurChar
  BY DEF Stepped, CurChar, Char, Text

LEMMA ReadInOrder ==
  ASSUME Shape, Cells, RoomLeft, Owed, StreamInv, Orderly, UNCHANGED <<trap, text>>, ReadLength
  PROVE  InOrder'
<1>1. /\ Cur.at = "call" /\ Cur.next <= Len(Text(Cur.who)) /\ calls # <<>>
      /\ printed' = Append(printed, CurChar) /\ UNCHANGED <<buf, buflen, tohost, shown>>
  BY DEF ReadLength, At, Running, More
<1>2. Stepped("store", Cur.next, buflen)
  BY <1>1, PutcharSteps
<1>3. CurChar' = CurChar /\ Cur'.at = "store" /\ Cur'.index = buflen
  BY <1>1, <1>2, CurCharSteps DEF Stepped
<1>4. CurChar \in AnyChar
  BY <1>1, CurCharOK
<1>5. InOrder /\ printed \in Seq(AnyChar) /\ shown \in Seq(AnyChar \union {Empty})
  BY OrderlyIs
<1>6. /\ Len(printed') = Len(printed) + 1 /\ printed'[Len(printed) + 1] = CurChar
      /\ \A i \in 1 .. Len(printed) : printed'[i] = printed[i]
      /\ printed' \in Seq(AnyChar)
  BY <1>1, <1>4, <1>5, AppendFacts
<1>7. Held = buflen /\ Held' = buflen
  BY <1>1, <1>3 DEF Held
<1>8. /\ Len(printed) = Len(shown) + buflen /\ buflen \in Nat /\ Len(printed) \in Nat /\ Len(shown) \in Nat
      /\ \A i \in DOMAIN shown : shown[i] = printed[i]
      /\ \A i \in 1 .. buflen : buf[i] = printed[Len(shown) + i]
      /\ tohost.kind # "write"
      /\ \A i \in DOMAIN printed : NewlineChar(printed[i]) => i <= Len(shown)
  <2>1. buflen \in Nat /\ Len(printed) \in Nat /\ Len(shown) \in Nat
    BY <1>5, ConsoleAssumption DEF Cells
  <2>2. /\ Len(printed) = Len(shown) + buflen + 0
        /\ \A i \in 1 .. buflen : buf[i] = printed[Len(shown) + i]
    BY <1>1, <1>5, <1>7 DEF InOrder
  <2>3. /\ \A i \in DOMAIN shown : shown[i] = printed[i]
        /\ tohost.kind # "write"
        /\ \A i \in DOMAIN printed : NewlineChar(printed[i]) => i <= Len(shown)
    BY <1>1, <1>5 DEF InOrder
  <2> QED
    BY <2>1, <2>2, <2>3
<1>9. DOMAIN shown = 1 .. Len(shown) /\ DOMAIN printed = 1 .. Len(printed) /\ DOMAIN printed' = 1 .. Len(printed) + 1
  BY <1>5, <1>6
<1>10. \A i \in DOMAIN shown : shown[i] = printed'[i]
  BY <1>6, <1>8, <1>9
<1>11. \A i \in 1 .. buflen : buf[i] = printed'[Len(shown) + i]
  <2>1. \A i \in 1 .. buflen : Len(shown) + i \in 1 .. Len(printed)
    BY <1>8
  <2> QED
    BY <1>6, <1>8, <2>1
<1>12. ASSUME NEW i \in DOMAIN printed', NewlineChar(printed'[i])
       PROVE  i <= Len(shown) \/ i = Len(printed')
  <2>1. CASE i = Len(printed) + 1
    BY <1>6, <2>1
  <2>2. CASE i \in DOMAIN printed
    <3>1. printed'[i] = printed[i]
      BY <1>6, <1>9, <2>2
    <3> QED
      BY <1>8, <1>12, <2>2, <3>1
  <2> QED
    BY <1>8, <1>9, <2>1, <2>2
<1> QED
  BY <1>1, <1>3, <1>6, <1>7, <1>8, <1>10, <1>11, <1>12 DEF InOrder

LEMMA StoreInOrder ==
  ASSUME Shape, Cells, RoomLeft, Owed, StreamInv, Orderly, UNCHANGED <<trap, text>>, StoreChar
  PROVE  InOrder'
<1>1. Cur.at = "store" /\ calls # <<>> /\ status = "running"
  BY DEF StoreChar, At, Running
<1>2. /\ InOrder /\ printed \in Seq(AnyChar) /\ shown \in Seq(AnyChar \union {Empty})
      /\ Cur.index < BufSize
  BY <1>1, OrderlyIs
<1>3. /\ buf' = [buf EXCEPT ![Cur.index + 1] = CurChar] /\ buflen' = Cur.index + 1
      /\ UNCHANGED <<tohost, printed, shown, status>>
  BY <1>2 DEF StoreChar
<1>4. Stepped("test", Cur.next, Cur.index)
  BY <1>1, <1>3, PutcharSteps
<1>5. CurChar' = CurChar /\ Cur'.at = "test"
  BY <1>1, <1>4, CurCharSteps DEF Stepped
<1>6. /\ Len(printed) = Len(shown) + buflen + 1 /\ Cur.index = buflen
      /\ \A i \in DOMAIN shown : shown[i] = printed[i]
      /\ \A i \in 1 .. buflen : buf[i] = printed[Len(shown) + i]
      /\ printed[Len(printed)] = CurChar
      /\ tohost.kind # "write"
      /\ \A i \in DOMAIN printed : NewlineChar(printed[i]) => i <= Len(shown) \/ i = Len(printed)
  BY <1>1, <1>2 DEF InOrder, Held
<1>7. buflen \in Nat /\ BufSize \in Nat /\ buflen < BufSize /\ Len(shown) \in Nat /\ DOMAIN buf = 1 .. BufSize
  BY <1>2, <1>6, ConsoleAssumption DEF Cells
<1>8. \A i \in 1 .. buflen + 1 : buf'[i] = IF i = buflen + 1 THEN CurChar ELSE buf[i]
  BY <1>3, <1>6, <1>7
<1>9. ASSUME NEW i \in 1 .. buflen + 1
      PROVE  buf'[i] = printed[Len(shown) + i]
  <2>1. CASE i = buflen + 1
    <3>1. Len(shown) + i = Len(printed)
      BY <1>6, <1>7, <2>1
    <3> QED
      BY <1>6, <1>8, <2>1, <3>1
  <2>2. CASE i # buflen + 1
    <3>1. i \in 1 .. buflen
      BY <1>7, <2>2
    <3> QED
      BY <1>6, <1>8, <2>2, <3>1
  <2> QED
    BY <2>1, <2>2
<1>10. Held' = buflen + 1 /\ buflen' = buflen + 1 /\ buflen' > 0
  BY <1>3, <1>5, <1>6, <1>7 DEF Held
<1> QED
  BY <1>3, <1>5, <1>6, <1>7, <1>9, <1>10 DEF InOrder

LEMMA TestInOrder ==
  ASSUME Shape, Cells, RoomLeft, Owed, StreamInv, Orderly, UNCHANGED <<trap, text>>, TestFull
  PROVE  InOrder'
<1>1. Cur.at = "test" /\ calls # <<>> /\ UNCHANGED <<buf, buflen, tohost, printed, shown>>
  BY DEF TestFull, At, Running
<1>2. InOrder /\ printed \in Seq(AnyChar)
  BY OrderlyIs
<1>3. /\ Len(printed) = Len(shown) + buflen
      /\ \A i \in DOMAIN shown : shown[i] = printed[i]
      /\ \A i \in 1 .. buflen : buf[i] = printed[Len(shown) + i]
      /\ printed[Len(printed)] = CurChar /\ buflen > 0
      /\ tohost.kind # "write"
      /\ \A i \in DOMAIN printed : NewlineChar(printed[i]) => i <= Len(shown) \/ i = Len(printed)
  <2>1. Held = buflen /\ Cur.at # "store"
    BY <1>1 DEF Held
  <2>2. /\ Len(printed) = Len(shown) + buflen + 0
        /\ \A i \in 1 .. buflen : buf[i] = printed[Len(shown) + i]
    BY <1>2, <2>1 DEF InOrder
  <2>3. shown \in Seq(AnyChar \union {Empty}) /\ buflen \in Nat
    BY OrderlyIs, ConsoleAssumption DEF Cells
  <2> QED
    BY <1>1, <1>2, <2>2, <2>3 DEF InOrder
<1>4. CASE NewlineChar(CurChar) \/ buflen = BufSize
  <2>1. Stepped("send", Cur.next, buflen)
    BY <1>1, <1>4, TestSteps
  <2>2. Cur'.at = "send" /\ Cur'.index = buflen
    BY <2>1 DEF Stepped
  <2>3. Held' = buflen
    BY <1>1, <2>2 DEF Held
  <2>4. Len(printed) = Len(shown) + buflen + 0
    BY <1>3, ConsoleAssumption DEF Cells
  <2> QED
    BY <1>1, <1>3, <2>2, <2>3, <2>4 DEF InOrder
<1>5. CASE ~(NewlineChar(CurChar) \/ buflen = BufSize)
  <2>1. Stepped("call", Cur.next + 1, Cur.index)
    BY <1>1, <1>5, TestSteps
  <2>2. Cur'.at = "call" /\ Held' = buflen
    BY <1>1, <2>1 DEF Stepped, Held
  <2>3. Len(printed) = Len(shown) + buflen + 0
    BY <1>3, ConsoleAssumption DEF Cells
  <2>4. \A i \in DOMAIN printed : NewlineChar(printed[i]) => i <= Len(shown)
    BY <1>3, <1>5
  <2> QED
    BY <1>1, <1>3, <2>2, <2>3, <2>4 DEF InOrder
<1> QED
  BY <1>4, <1>5
LEMMA SendInOrder ==
  ASSUME Shape, Cells, RoomLeft, Owed, StreamInv, Orderly, UNCHANGED <<trap, text>>, SendRequest
  PROVE  InOrder'
<1>1. Cur.at = "send" /\ calls # <<>> /\ tohost' = Write(Cur.index) /\ UNCHANGED <<buf, buflen, printed, shown>>
  BY DEF SendRequest, At, Running
<1>2. InOrder
  BY OrderlyIs
<1>3. Cur'.at = "wait" /\ Cur'.index = Cur.index
  BY <1>1, PutcharSteps DEF Stepped
<1>4. Cur.index = buflen /\ tohost' = Write(buflen)
  BY <1>1, <1>2 DEF InOrder
<1>5. tohost'.kind = "write"
  BY <1>4 DEF Write
<1>6. Held = buflen /\ Held' = buflen
  BY <1>1, <1>3, <1>5 DEF Held
<1> QED
  BY <1>1, <1>2, <1>3, <1>4, <1>6 DEF InOrder

LEMMA TakeInOrder ==
  ASSUME Shape, Cells, RoomLeft, Owed, StreamInv, Orderly, UNCHANGED <<trap, text>>, TakeAnswer
  PROVE  InOrder'
<1>1. Cur.at = "wait" /\ calls # <<>> /\ fromhost # 0 /\ UNCHANGED <<buf, buflen, tohost, printed, shown>>
  BY DEF TakeAnswer, At, Running
<1>2. InOrder /\ tohost.kind # "write"
  BY <1>1, OrderlyIs
<1>3. Cur'.at = "reset"
  BY <1>1, PutcharSteps DEF Stepped
<1>4. Held = 0 /\ Held' = 0
  BY <1>1, <1>2, <1>3 DEF Held
<1> QED
  BY <1>1, <1>2, <1>3, <1>4 DEF InOrder

LEMMA ResetInOrder ==
  ASSUME Shape, Cells, RoomLeft, Owed, StreamInv, Orderly, UNCHANGED <<trap, text>>, ResetLength
  PROVE  InOrder'
<1>1. Cur.at = "reset" /\ calls # <<>> /\ buflen' = 0 /\ UNCHANGED <<buf, tohost, printed, shown>>
  BY DEF ResetLength, At, Running
<1>2. InOrder /\ printed \in Seq(AnyChar) /\ shown \in Seq(AnyChar \union {Empty})
  BY OrderlyIs
<1>3. Cur'.at = "call"
  BY <1>1, PutcharSteps DEF Stepped
<1>4. Held = 0 /\ Held' = 0
  BY <1>1, <1>3 DEF Held
<1>5. Len(printed) = Len(shown) /\ DOMAIN printed = 1 .. Len(printed)
  BY <1>1, <1>2, <1>4 DEF InOrder
<1>6. \A i \in DOMAIN printed : i <= Len(shown)
  BY <1>5
<1> QED
  BY <1>1, <1>2, <1>3, <1>4, <1>6 DEF InOrder

LEMMA ReturnInOrder ==
  ASSUME Shape, Cells, RoomLeft, Owed, StreamInv, Orderly, UNCHANGED <<trap, text>>, ReturnFromHandler
  PROVE  InOrder'
<1>1. Cur.at = "call" /\ UNCHANGED <<buf, buflen, tohost, printed, shown>>
  BY DEF ReturnFromHandler, At
<1>2. Len(calls) = 2 /\ Cur' = calls[1]
  BY ReturnSteps
<1>3. InOrder /\ Cur'.at = "call"
  BY <1>2, OrderlyIs
<1>4. Held' = Held
  BY <1>1, <1>3 DEF Held
<1> QED
  BY <1>1, <1>3, <1>4 DEF InOrder

LEMMA TrapInOrder ==
  ASSUME Shape, Cells, RoomLeft, Owed, StreamInv, Orderly, UNCHANGED <<trap, text>>, TrapWhilePrinting, Calm
  PROVE  InOrder'
<1>1. Cur.at \in trap.at /\ UNCHANGED <<buf, buflen, tohost, printed, shown>>
  BY DEF TrapWhilePrinting
<1>2. Cur.at = "call" /\ Cur'.at = "call"
  BY <1>1, TrapSteps DEF Calm, Call
<1>3. InOrder
  BY OrderlyIs
<1>4. Held' = Held
  BY <1>1, <1>2 DEF Held
<1> QED
  BY <1>1, <1>2, <1>3, <1>4 DEF InOrder

\* What the host reads is what is held.
LEMMA TakenInOrder ==
  ASSUME Shape, Cells, RoomLeft, Owed, StreamInv, Orderly, UNCHANGED <<trap, text>>, HostTakes, tohost.kind # "exit"
  PROVE  InOrder'
<1>1. /\ tohost # None /\ tohost' = None /\ shown' = shown \o SubSeq(buf, 1, tohost.len)
      /\ UNCHANGED <<calls, buf, buflen, printed>>
  BY DEF HostTakes
<1>2. /\ tohost.kind = "write" /\ tohost.len \in 0 .. BufSize
      /\ SubSeq(buf, 1, tohost.len) \in Seq(AnyChar \union {Empty})
      /\ Len(SubSeq(buf, 1, tohost.len)) = tohost.len
      /\ \A i \in 1 .. tohost.len : SubSeq(buf, 1, tohost.len)[i] = buf[i]
  BY <1>1, TakenChars
<1>3. InOrder /\ printed \in Seq(AnyChar) /\ shown \in Seq(AnyChar \union {Empty})
  BY OrderlyIs
<1>4. Cur.at = "wait" /\ tohost = Write(buflen) /\ Cur' = Cur
  BY <1>1, <1>2, <1>3 DEF InOrder, Cur
<1>5. tohost.len = buflen
  BY <1>4 DEF Write
<1>6. PICK t \in Seq(AnyChar \union {Empty}) : /\ shown' = shown \o t /\ Len(t) = buflen
                                               /\ \A i \in 1 .. buflen : t[i] = buf[i]
  BY <1>1, <1>2, <1>5
<1>7. /\ shown' \in Seq(AnyChar \union {Empty}) /\ Len(shown') = Len(shown) + buflen
      /\ \A i \in 1 .. Len(shown) : shown'[i] = shown[i]
      /\ \A i \in 1 .. buflen : shown'[Len(shown) + i] = buf[i]
  <2>1. /\ shown \o t \in Seq(AnyChar \union {Empty}) /\ Len(shown \o t) = Len(shown) + Len(t)
        /\ \A i \in 1 .. Len(shown) : (shown \o t)[i] = shown[i]
        /\ \A i \in 1 .. Len(t) : (shown \o t)[Len(shown) + i] = t[i]
    <3>1. shown \in Seq(AnyChar \union {Empty}) /\ t \in Seq(AnyChar \union {Empty})
      BY <1>3, <1>6
    <3> QED
      BY ONLY <3>1, ConcatFacts
  <2> QED
    BY <1>6, <2>1
<1>8. Held = buflen /\ Held' = 0
  BY <1>1, <1>2, <1>4 DEF Held, None
<1>9. /\ Len(printed) = Len(shown) + buflen + 0
      /\ \A i \in DOMAIN shown : shown[i] = printed[i]
      /\ \A i \in 1 .. buflen : buf[i] = printed[Len(shown) + i]
      /\ buflen > 0 /\ Cur.index = buflen
  BY <1>3, <1>4, <1>8 DEF InOrder
<1>10. Len(shown) \in Nat /\ buflen \in Nat /\ DOMAIN shown = 1 .. Len(shown) /\ DOMAIN shown' = 1 .. Len(shown')
       /\ DOMAIN printed = 1 .. Len(printed)
  BY <1>2, <1>3, <1>5, <1>7, ConsoleAssumption
<1>11. ASSUME NEW i \in DOMAIN shown'
       PROVE  shown'[i] = printed[i]
  <2>1. CASE i \in 1 .. Len(shown)
    BY <1>7, <1>9, <1>10, <2>1
  <2>2. CASE i \notin 1 .. Len(shown)
    <3>1. i - Len(shown) \in 1 .. buflen /\ i = Len(shown) + (i - Len(shown))
      BY <1>7, <1>10, <2>2
    <3>2. shown'[i] = buf[i - Len(shown)] /\ buf[i - Len(shown)] = printed[i]
      BY <1>7, <1>9, <3>1
    <3> QED
      BY <3>2
  <2> QED
    BY <2>1, <2>2
<1>12. Len(printed') = Len(shown') + Held' + 0 /\ \A i \in DOMAIN printed' : i <= Len(shown')
  BY <1>1, <1>7, <1>8, <1>9, <1>10
<1>13. tohost'.kind # "write" /\ Cur'.at = "wait" /\ Cur'.index = buflen' /\ buflen' > 0 /\ (1 .. Held') = {}
  BY <1>1, <1>4, <1>8, <1>9 DEF None
<1>14. \A i \in DOMAIN shown' : shown'[i] = printed'[i]
  BY <1>1, <1>11
<1> QED
  BY <1>12, <1>13, <1>14 DEF InOrder

LEMMA StreamStep ==
  ASSUME Shape, Cells, RoomLeft, Owed, StreamInv, [PlatformNext]_pfvars
  PROVE  StreamInv'
<1>1. UNCHANGED <<PLAT, text, trap>> /\ (Calm' <=> Calm)
  BY RunIsFixed DEF Calm
<1>2. CASE UNCHANGED cvars /\ UNCHANGED <<printed, shown>>
  BY <1>1, <1>2 DEF StreamInv, Orderly, InOrder, Held, Cur, CurChar, Char, Text, cvars
<1>3. CASE UartNext /\ UNCHANGED <<PLAT, text, code, cvars>>
  BY <1>1, <1>3, UartOnly DEF StreamInv, Orderly, Calm
<1>4. CASE ProgramStep \/ TrapWhilePrinting
  <2>1. PLAT = "spike" /\ status = "running" /\ calls # <<>>
    BY <1>4 DEF ProgramStep, PutcharStep, ReadLength, StoreChar, TestFull, SendRequest, TakeAnswer, ResetLength,
                ReturnFromHandler, TohostExit, TrapWhilePrinting, At, Running
  <2>2. CASE PutcharStep
    <3>1. Orderly' => Orderly /\ InOrder' 
      <4>1. ASSUME Orderly'
            PROVE  Orderly
        <5>1. status' = "running" /\ Len(calls') = Len(calls)
          BY <2>1, <2>2, <4>1, PutcharSteps DEF Orderly, PutcharStep, Stepped
        <5> QED
          BY <1>1, <2>1, <4>1, <5>1 DEF Orderly
      <4> QED
        BY <1>1, <2>2, <4>1, ReadInOrder, StoreInOrder, TestInOrder, SendInOrder, TakeInOrder, ResetInOrder
           DEF PutcharStep
    <3>2. calls' # <<>>
      BY <2>1, <2>2, PutcharSteps DEF PutcharStep, Stepped
    <3> QED
      BY <3>1, <3>2 DEF StreamInv
  <2>3. CASE ReturnFromHandler
    <3>1. Len(calls) = 2 /\ calls' # <<>> /\ trap.returns
      BY <2>3, ReturnSteps DEF ReturnFromHandler
    <3>2. Orderly' => Orderly
      BY <1>1, <2>1, <3>1 DEF Orderly
    <3> QED
      BY <1>1, <2>3, <3>1, <3>2, ReturnInOrder DEF StreamInv
  <2>4. CASE TrapWhilePrinting
    <3>1. Len(calls) = 1 /\ Len(calls') = 2 /\ calls' # <<>>
      BY <2>4, TrapSteps
    <3>2. Orderly' => Orderly /\ Calm
      BY <1>1, <2>1, <3>1 DEF Orderly
    <3> QED
      BY <1>1, <2>4, <3>1, <3>2, TrapInOrder DEF StreamInv
  <2>5. CASE TohostExit
    <3>1. Cur.at = "call" /\ calls' = <<>> /\ UNCHANGED <<printed, shown>>
      BY <2>5 DEF TohostExit, At
    <3>2. ASSUME Calm
          PROVE  /\ Len(shown) <= Len(printed)
                 /\ \A i \in DOMAIN shown : shown[i] = printed[i]
                 /\ \A i \in DOMAIN printed : NewlineChar(printed[i]) => i <= Len(shown)
      <4>1. Orderly
        BY <2>1, <3>2 DEF Orderly
      <4>2. InOrder /\ printed \in Seq(AnyChar) /\ shown \in Seq(AnyChar \union {Empty})
        BY <4>1, OrderlyIs
      <4>3. Len(printed) = Len(shown) + buflen + 0 /\ buflen \in Nat
        BY <3>1, <4>2, ConsoleAssumption DEF InOrder, Held, Cells
      <4> QED
        BY <3>1, <4>2, <4>3 DEF InOrder
    <3> QED
      BY <1>1, <3>1, <3>2 DEF StreamInv, Orderly
  <2> QED
    BY <1>4, <2>2, <2>3, <2>4, <2>5 DEF ProgramStep
<1>5. CASE HostTakes
  <2>1. PLAT = "spike" /\ status = "running" /\ tohost # None /\ UNCHANGED <<calls, printed>>
    BY <1>5 DEF HostTakes
  <2>2. CASE tohost.kind = "exit"
    <3>1. status' = "exited" /\ shown' = shown
      BY <1>5, <2>2 DEF HostTakes
    <3> QED
      BY <1>1, <2>1, <3>1 DEF StreamInv, Orderly
  <2>3. CASE tohost.kind # "exit"
    <3>1. calls # <<>> /\ status' = status
      BY <1>5, <2>1, <2>3, TakenChars DEF HostTakes, Owed, Unread
    <3>2. Orderly' => Orderly
      BY <1>1, <2>1, <3>1 DEF Orderly
    <3> QED
      BY <1>1, <1>5, <2>1, <2>3, <3>1, <3>2, TakenInOrder DEF StreamInv
  <2> QED
    BY <2>2, <2>3
<1>6. CASE HostAnswers
  <2>1. UNCHANGED <<calls, buf, buflen, tohost, printed, shown, status>>
    BY <1>6 DEF HostAnswers
  <2> QED
    BY <1>1, <2>1 DEF StreamInv, Orderly, InOrder, Held, Cur, CurChar, Char, Text
<1> QED
  <2>1. CASE UNCHANGED pfvars
    BY <1>2, <2>1 DEF pfvars, pvars
  <2> QED
    BY <1>3, <1>4, <1>5, <1>6, <2>1 DEF PlatformNext, OnSpike, OnUart, ConsoleNext-----------------------------------------------------------------------------
(***************************************************************************)
\* What an ERROR finds in the buffer.
(***************************************************************************)
LEMMA BeforeIs ==
  ASSUME NEW c
  PROVE  c \in Before <=> \E i, j \in DOMAIN printed : /\ c = printed[i] /\ c[1] = "main"
                                                       /\ printed[j][1] = "main" /\ printed[j][2] > c[2]
  BY DEF Before, ToSet

LEMMA HandlersCharacter ==
  ASSUME printed \in Seq(AnyChar), NEW c \in AnyChar, c[1] = "handler", printed' = Append(printed, c)
  PROVE  Before' = Before
<1>1. /\ Len(printed') = Len(printed) + 1 /\ printed'[Len(printed) + 1] = c
      /\ \A i \in 1 .. Len(printed) : printed'[i] = printed[i]
  BY AppendFacts
<1>2. DOMAIN printed = 1 .. Len(printed) /\ DOMAIN printed' = 1 .. Len(printed) + 1 /\ Len(printed) \in Nat
  <2>1. printed' \in Seq(AnyChar)
    BY AppendFacts
  <2> QED
    BY <1>1, <2>1
<1>3. ToSet(printed') = ToSet(printed) \union {c}
  BY <1>1, <1>2 DEF ToSet
<1> QED
  BY <1>3 DEF Before

LEMMA KeepingSteps ==
  ASSUME Shape, Cells, Keeping, UNCHANGED <<trap, text>>, PutcharStep, Len(calls) = 2, status' # "overrun",
         PLAT = "spike"
  PROVE  Keeping' /\ UNCHANGED <<shown, Before>>
<1>1. calls # <<>> /\ Cur.who = "handler" /\ Cur \in Calls /\ buflen \in Nat
  BY CurFacts, ConsoleAssumption
     DEF PutcharStep, ReadLength, StoreChar, TestFull, SendRequest, TakeAnswer, ResetLength, At, Running, Cells
<1>2. /\ answers = 0 /\ fromhost = 0 /\ Cur.at # "reset"
      /\ Before \subseteq ToSet(shown) \union InBuf(buflen)
      /\ Cur.at \in {"store", "send", "wait"} => Cur.index = buflen
      /\ Cur.at \in {"send", "wait"} => Before \subseteq ToSet(shown) \union InBuf(Cur.index)
      /\ tohost.kind = "write" => tohost.len <= buflen /\ Before \subseteq ToSet(shown) \union InBuf(tohost.len)
  BY DEF Keeping
<1>3. CASE ReadLength
  <2>1. /\ Cur.at = "call" /\ Cur.next <= Len(Text(Cur.who)) /\ printed' = Append(printed, CurChar)
        /\ UNCHANGED <<buf, buflen, tohost, fromhost, answers, shown>>
    BY <1>3 DEF ReadLength, At, More
  <2>2. CurChar \in AnyChar /\ CurChar[1] = "handler" /\ printed \in Seq(AnyChar)
    BY <1>1, <2>1, CurCharOK DEF CurChar, Char, Cells
  <2>3. Before' = Before
    BY <2>1, <2>2, HandlersCharacter
  <2>4. Cur'.at = "store" /\ Cur'.index = buflen
    BY <1>1, <1>3, PutcharSteps DEF Stepped
  <2>5. \A n : InBuf(n)' = InBuf(n)
    BY <2>1 DEF InBuf
  <2> QED
    BY <1>2, <2>1, <2>3, <2>4, <2>5 DEF Keeping
<1>4. CASE StoreChar
  <2>1. /\ Cur.at = "store" /\ Cur.index < BufSize /\ buf' = [buf EXCEPT ![Cur.index + 1] = CurChar]
        /\ buflen' = Cur.index + 1 /\ UNCHANGED <<tohost, fromhost, answers, printed, shown, status>>
    BY <1>4 DEF StoreChar, At
  <2>2. Cur'.at = "test"
    <3>1. Stepped("test", Cur.next, Cur.index)
      BY <1>1, <1>4, PutcharSteps
    <3> QED
      BY <3>1 DEF Stepped
  <2>3. Before' = Before
    BY <2>1 DEF Before
  <2>4. ASSUME NEW n \in Nat, n <= buflen
        PROVE  InBuf(n)' = InBuf(n)
    <3>1. \A i \in 1 .. n : buf'[i] = buf[i]
      BY <1>1, <1>2, <2>1, <2>4 DEF Cells
    <3> QED
      BY <3>1 DEF InBuf
  <2>5. InBuf(buflen) \subseteq InBuf(buflen)'
    <3>1. \A i \in 1 .. buflen : buf'[i] = buf[i] /\ i \in 1 .. buflen'
      BY <1>1, <1>2, <2>1 DEF Cells
    <3> QED
      BY <3>1 DEF InBuf
  <2>6. tohost'.kind = "write" => InBuf(tohost.len)' = InBuf(tohost.len) /\ tohost'.len <= buflen'
    <3>1. tohost.kind = "write" => tohost.len \in Nat /\ tohost.len <= buflen
      <4>1. tohost.kind = "write" => tohost # None /\ tohost.kind # "exit"
        BY DEF None
      <4>2. tohost.kind = "write" => tohost.len \in 0 .. BufSize
        BY <4>1, TakenChars
      <4> QED
        BY <1>2, <4>2, ConsoleAssumption
    <3> QED
      BY <1>1, <1>2, <2>1, <2>4, <3>1
  <2> QED
    BY <1>2, <2>1, <2>2, <2>3, <2>5, <2>6 DEF Keeping
<1>5. CASE TestFull
  <2>1. Cur.at = "test" /\ UNCHANGED <<buf, buflen, tohost, fromhost, answers, printed, shown>>
    BY <1>5 DEF TestFull, At
  <2>2. Before' = Before /\ \A n : InBuf(n)' = InBuf(n)
    BY <2>1 DEF Before, InBuf
  <2>3. CASE Stepped("send", Cur.next, buflen)
    <3>1. Cur'.at = "send" /\ Cur'.index = buflen
      BY <2>3 DEF Stepped
    <3> QED
      BY <1>2, <2>1, <2>2, <3>1 DEF Keeping
  <2>4. CASE ~NewlineChar(CurChar) /\ Stepped("call", Cur.next + 1, Cur.index)
    <3>1. Cur'.at = "call" /\ Cur'.next = Cur.next + 1 /\ Cur'.who = Cur.who
      BY <2>4 DEF Stepped
    <3>2. Cur'.next > 1 /\ Cur'.next - 1 = Cur.next
      BY <1>1, <3>1 DEF Calls
    <3>3. Text("handler")[Cur.next] # "n" /\ Text("handler")' = Text("handler")
      BY <1>1, <2>4 DEF NewlineChar, CurChar, Char, Text
    <3>4. Text(Cur.who)'[Cur'.next - 1] # "n"
      BY <1>1, <3>1, <3>2, <3>3 DEF Text
    <3> QED
      BY <1>2, <2>1, <2>2, <3>1, <3>2, <3>4 DEF Keeping
  <2> QED
    BY <1>1, <1>5, <2>3, <2>4, TestSteps
<1>6. CASE SendRequest
  <2>1. Cur.at = "send" /\ tohost' = Write(Cur.index)
        /\ UNCHANGED <<buf, buflen, fromhost, answers, printed, shown>>
    BY <1>6 DEF SendRequest, At
  <2>2. Before' = Before /\ \A n : InBuf(n)' = InBuf(n)
    BY <2>1 DEF Before, InBuf
  <2>3. Cur'.at = "wait" /\ Cur'.index = Cur.index
    BY <1>1, <1>6, PutcharSteps DEF Stepped
  <2>4. tohost'.len = buflen /\ Cur.index = buflen
    BY <1>2, <2>1 DEF Write
  <2> QED
    BY <1>1, <1>2, <2>1, <2>2, <2>3, <2>4 DEF Keeping
<1>7. CASE TakeAnswer \/ ResetLength
  BY <1>2, <1>7 DEF TakeAnswer, ResetLength, At
<1> QED
  BY <1>3, <1>4, <1>5, <1>6, <1>7 DEF PutcharStep
\* What a trap finds is shown or in buf, but for a character that waits to be stored: the
\* program has not reached the next.
LEMMA HeldOrShown ==
  ASSUME Shape, Cells, RoomLeft, Owed, StreamInv, Orderly, Len(calls) = 1, Ahead
  PROVE  /\ Cur.at \in {"wait", "reset"} /\ tohost.kind # "write" => Before \subseteq ToSet(shown)
         /\ Cur.at \notin {"wait", "reset"} \/ tohost.kind = "write" => Before \subseteq ToSet(shown) \union InBuf(buflen)
<1>1. /\ InOrder /\ printed \in Seq(AnyChar) /\ shown \in Seq(AnyChar \union {Empty})
      /\ calls # <<>> /\ Cur \in Calls /\ buflen \in Nat
  BY OrderlyIs, CurFacts, ConsoleAssumption DEF Cells, Orderly
<1>2. DOMAIN printed = 1 .. Len(printed) /\ DOMAIN shown = 1 .. Len(shown) /\ Len(printed) \in Nat /\ Len(shown) \in Nat
  BY <1>1
<1>3. Held \in {0, buflen} /\ (tohost.kind = "write" => Cur.at = "wait")
  BY <1>1 DEF Held, InOrder
<1>4. ASSUME NEW c \in Before
      PROVE  \E k \in 1 .. Len(shown) + Held : c = printed[k]
  <2>1. PICK i \in DOMAIN printed, j \in DOMAIN printed :
            c = printed[i] /\ printed[j][2] > c[2]
    BY BeforeIs
  <2>2. CASE Cur.at # "store"
    <3>1. Len(printed) = Len(shown) + Held + 0
      BY <1>1, <2>2 DEF InOrder
    <3> QED
      BY <1>1, <1>2, <1>3, <2>1, <3>1
  <2>3. CASE Cur.at = "store"
    <3>1. Len(printed) = Len(shown) + Held + 1 /\ printed[Len(printed)] = CurChar
      BY <1>1, <2>3 DEF InOrder
    <3>2. printed[j][2] <= Cur.next /\ CurChar[2] = Cur.next /\ Cur.next \in Nat /\ printed[j][2] \in Nat
      BY <1>1, <2>1 DEF Ahead, CurChar, Char, Calls, AnyChar
    <3>3. i # Len(printed)
      BY <2>1, <3>1, <3>2
    <3> QED
      BY <1>1, <1>2, <1>3, <2>1, <3>1, <3>3
  <2> QED
    BY <2>2, <2>3
<1>5. ASSUME NEW k \in 1 .. Len(shown) + Held
      PROVE  printed[k] \in ToSet(shown) \union InBuf(Held)
  <2>1. CASE k <= Len(shown)
    <3>1. k \in DOMAIN shown
      BY <1>1, <1>2, <1>3, <2>1
    <3> QED
      BY <1>1, <3>1 DEF InOrder, ToSet
  <2>2. CASE ~(k <= Len(shown))
    <3>1. k - Len(shown) \in 1 .. Held /\ k = Len(shown) + (k - Len(shown))
      BY <1>1, <1>2, <1>3, <2>2
    <3>2. buf[k - Len(shown)] = printed[k]
      BY <1>1, <3>1 DEF InOrder
    <3> QED
      BY <3>1, <3>2 DEF InBuf
  <2> QED
    BY <2>1, <2>2
<1>6. Before \subseteq ToSet(shown) \union InBuf(Held)
  BY <1>4, <1>5
<1>7. CASE Cur.at \in {"wait", "reset"} /\ tohost.kind # "write"
  <2>1. Held = 0
    BY <1>7 DEF Held
  <2>2. InBuf(Held) = {}
    BY <2>1 DEF InBuf
  <2> QED
    BY <1>6, <1>7, <2>2
<1>8. CASE Cur.at \notin {"wait", "reset"} \/ tohost.kind = "write"
  <2>1. Cur.at \in {"call", "store", "test", "send", "wait", "reset"}
    BY <1>1 DEF Calls, Points
  <2>2. Held = buflen
    BY <1>3, <1>8, <2>1 DEF Held
  <2> QED
    BY <1>6, <1>8, <2>2
<1> QED
  BY <1>7, <1>8

LEMMA TrapKeeps ==
  ASSUME Shape, Cells, RoomLeft, Owed, StreamInv, TrapWhilePrinting, ~trap.returns, Ahead, UNCHANGED <<trap, text>>
  PROVE  Before' \subseteq ToSet(shown') \/ Keeping'
<1>1. /\ Orderly /\ calls # <<>> /\ Len(calls) = 1 /\ \A i \in DOMAIN printed : printed[i][1] = "main"
      /\ UNCHANGED <<buf, buflen, tohost, fromhost, answers, printed, shown>>
  BY TrapSteps DEF TrapWhilePrinting, Running, Orderly
<1>2. Before' = Before /\ ToSet(shown') = ToSet(shown) /\ \A n : InBuf(n)' = InBuf(n)
  BY <1>1 DEF Before, InBuf
<1>3. CASE Cur.at \in {"wait", "reset"} /\ tohost.kind # "write"
  BY <1>1, <1>2, <1>3, HeldOrShown
<1>4. CASE Cur.at \notin {"wait", "reset"} \/ tohost.kind = "write"
  <2>1. Before \subseteq ToSet(shown) \union InBuf(buflen) /\ InOrder
    BY <1>1, <1>4, HeldOrShown, OrderlyIs
  <2>2. answers = 0 /\ fromhost = 0
    <3>1. AtWait = Waits(Cur) /\ answers + fromhost + Unread <= AtWait /\ answers \in Nat /\ fromhost \in {0, 1}
      BY <1>1, WaitingIs DEF Owed, AtWait, Cells
    <3>2. Waits(Cur) <= Unread /\ Unread \in {0, 1} /\ Waits(Cur) \in {0, 1}
      BY <1>4 DEF Waits, Unread
    <3> QED
      BY <3>1, <3>2
  <2>3. tohost.kind = "write" => tohost.len = buflen
    BY <2>1 DEF InOrder, Write
  <2>4. Cur'.at = "call" /\ Cur'.next = 1
    BY TrapSteps DEF Call
  <2>5. ~HandlerPrinted'
    BY <1>1 DEF HandlerPrinted
  <2>6. buflen \in Nat
    BY ConsoleAssumption DEF Cells
  <2> QED
    BY <1>1, <1>2, <2>1, <2>2, <2>3, <2>4, <2>5, <2>6 DEF Keeping
<1> QED
  BY <1>3, <1>4

\* An ERROR ends with a newline, so that its last character has gone to the host.
LEMMA ExitKeeps ==
  ASSUME Shape, Keeping, TohostExit, Len(calls) = 2, HandlerPrinted
  PROVE  FALSE
<1>1. /\ Cur.at = "call" /\ ~(Cur.next <= Len(Text(Cur.who))) /\ calls # <<>> /\ ~trap.returns
  BY DEF TohostExit, At, More, Running
<1>2. /\ Cur.who = "handler" /\ Cur.next <= Len(Text(Cur.who)) + 1 /\ Text(Cur.who) \in Seq(Kinds)
      /\ Cur.next \in Nat \ {0}
  BY <1>1, CurFacts DEF Calls
<1>3. Cur.next > 1 /\ Text(Cur.who)[Cur.next - 1] # "n"
  BY <1>1 DEF Keeping
<1>4. Text(Cur.who) = trap.text /\ trap.text \in Seq(Kinds)
  BY <1>2 DEF Text
<1>5. Len(trap.text) = Cur.next - 1 /\ Len(trap.text) > 0
  BY <1>1, <1>2, <1>3, <1>4
<1>6. trap.text # <<>>
  BY <1>5
<1>7. trap.text[Len(trap.text)] = "n"
  BY <1>1, <1>6, ConsoleAssumption DEF Shape, Last
<1> QED
  BY <1>3, <1>4, <1>5, <1>7

LEMMA TakenKeeps ==
  ASSUME Shape, Cells, HostTakes, UNCHANGED text
  PROVE  /\ ToSet(shown) \subseteq ToSet(shown')
         /\ Keeping => Before \subseteq ToSet(shown') \/ Keeping'
<1>1. tohost # None /\ tohost' = None /\ PLAT = "spike" /\ UNCHANGED <<trap, calls, buf, buflen, fromhost, printed>>
  BY DEF HostTakes
<1>2. CASE tohost.kind = "exit"
  <2>1. UNCHANGED <<shown, answers>>
    BY <1>2 DEF HostTakes
  <2>2. Before' = Before /\ (\A n : InBuf(n)' = InBuf(n)) /\ Cur' = Cur /\ HandlerPrinted' = HandlerPrinted
    BY <1>1 DEF Before, InBuf, Cur, HandlerPrinted
  <2>3. Keeping => Cur.at # "wait"
    BY <1>2 DEF Keeping, Write
  <2>4. tohost'.kind # "write"
    BY <1>1 DEF None
  <2>5. ASSUME Keeping, Cur.at = "call"
        PROVE  (Cur'.next = 1 /\ ~HandlerPrinted') \/ (Cur'.next > 1 /\ Text(Cur.who)'[Cur'.next - 1] # "n")
    <3>1. CASE Cur.next = 1 /\ ~HandlerPrinted
      BY <2>2, <3>1
    <3>2. CASE Cur.next > 1 /\ Text(Cur.who)[Cur.next - 1] # "n"
      <4>1. Text(Cur.who)' = Text(Cur.who)
        BY <1>1, <2>2 DEF Text
      <4> QED
        BY <2>2, <3>2, <4>1
    <3> QED
      BY <2>5, <3>1, <3>2 DEF Keeping
  <2> QED
    BY <1>1, <2>1, <2>2, <2>3, <2>4, <2>5 DEF Keeping
<1>3. CASE tohost.kind # "exit"
  <2>1. /\ tohost.kind = "write" /\ tohost.len \in 0 .. BufSize
        /\ SubSeq(buf, 1, tohost.len) \in Seq(AnyChar \union {Empty})
        /\ Len(SubSeq(buf, 1, tohost.len)) = tohost.len
        /\ \A i \in 1 .. tohost.len : SubSeq(buf, 1, tohost.len)[i] = buf[i]
    BY <1>1, <1>3, TakenChars
  <2>2. PICK t \in Seq(AnyChar \union {Empty}) : /\ shown' = shown \o t /\ Len(t) = tohost.len
                                                 /\ \A i \in 1 .. tohost.len : t[i] = buf[i]
    BY <1>3, <2>1 DEF HostTakes
  <2>3. shown \in Seq(AnyChar \union {Empty})
    BY <1>1 DEF Cells
  <2>4. /\ shown \o t \in Seq(AnyChar \union {Empty}) /\ Len(shown \o t) = Len(shown) + Len(t)
        /\ \A i \in 1 .. Len(shown) : (shown \o t)[i] = shown[i]
        /\ \A i \in 1 .. Len(t) : (shown \o t)[Len(shown) + i] = t[i]
    BY ONLY <2>3, t \in Seq(AnyChar \union {Empty}), ConcatFacts
  <2>5. Len(shown) \in Nat /\ Len(t) \in Nat /\ DOMAIN shown = 1 .. Len(shown)
        /\ DOMAIN shown' = 1 .. Len(shown) + Len(t)
    BY <2>2, <2>3, <2>4
  <2>6. ToSet(shown) \subseteq ToSet(shown')
    <3>1. \A i \in DOMAIN shown : i \in DOMAIN shown' /\ shown[i] = shown'[i]
      BY <2>2, <2>4, <2>5
    <3> QED
      BY <3>1 DEF ToSet
  <2>7. InBuf(tohost.len) \subseteq ToSet(shown')
    <3>1. \A i \in 1 .. tohost.len : Len(shown) + i \in DOMAIN shown' /\ shown'[Len(shown) + i] = buf[i]
      BY <2>2, <2>4, <2>5
    <3> QED
      BY <3>1 DEF ToSet, InBuf
  <2> QED
    BY <2>1, <2>6, <2>7 DEF Keeping
<1> QED
  BY <1>2, <1>3
LEMMA AheadSteps ==
  ASSUME Shape, Cells, Len(calls) = 1, Ahead, PutcharStep, PLAT = "spike"
  PROVE  Ahead' /\ Len(calls') = 1
<1>1. calls # <<>> /\ Cur.who = "main" /\ Cur.next \in Nat /\ printed \in Seq(AnyChar)
  BY CurFacts DEF PutcharStep, ReadLength, StoreChar, TestFull, SendRequest, TakeAnswer, ResetLength, At, Running,
                  Calls, Cells
<1>2. \A i \in DOMAIN printed : /\ printed[i][1] = "main" /\ printed[i][2] \in Nat /\ printed[i][2] <= Cur.next
                                /\ Cur.at = "call" => printed[i][2] < Cur.next
  BY <1>1 DEF Ahead, AnyChar
<1>3. CASE ReadLength
  <2>1. Cur.next <= Len(Text(Cur.who)) /\ printed' = Append(printed, CurChar)
    BY <1>3 DEF ReadLength, More
  <2>2. Cur'.at = "store" /\ Cur'.next = Cur.next /\ Len(calls') = 1
    BY <1>1, <1>3, PutcharSteps DEF Stepped
  <2>3. PICK c \in AnyChar : c = CurChar /\ c[1] = "main" /\ c[2] = Cur.next
    BY <1>1, <2>1, CurCharOK DEF CurChar, Char
  <2>4. /\ Len(printed') = Len(printed) + 1 /\ printed'[Len(printed) + 1] = c
        /\ \A i \in 1 .. Len(printed) : printed'[i] = printed[i]
        /\ printed' \in Seq(AnyChar)
    BY <1>1, <2>1, <2>3, AppendFacts
  <2>5. DOMAIN printed = 1 .. Len(printed) /\ DOMAIN printed' = 1 .. Len(printed) + 1 /\ Len(printed) \in Nat
    BY <1>1, <2>4
  <2>6. ASSUME NEW i \in DOMAIN printed'
        PROVE  printed'[i][1] = "main" /\ printed'[i][2] <= Cur.next
    <3>1. CASE i \in DOMAIN printed
      BY <1>2, <2>4, <2>5, <3>1
    <3>2. CASE i = Len(printed) + 1
      BY <1>1, <2>3, <2>4, <3>2
    <3> QED
      BY <2>5, <3>1, <3>2
  <2> QED
    BY <2>2, <2>6 DEF Ahead
<1>4. CASE ~ReadLength
  <2>1. printed' = printed
    BY <1>4 DEF PutcharStep, StoreChar, TestFull, SendRequest, TakeAnswer, ResetLength
  <2>2. CASE calls' = calls
    BY <2>1, <2>2 DEF Ahead, Cur
  <2>3. CASE calls' # calls
    <3>1. /\ Len(calls') = 1
          /\ (Cur'.at # "call" /\ Cur'.next = Cur.next) \/ (Cur'.at = "call" /\ Cur'.next = Cur.next + 1)
      BY <1>1, <1>4, <2>3, PutcharSteps DEF PutcharStep, Stepped
    <3>2. Cur'.at # "call" => \A i \in DOMAIN printed : printed[i][2] <= Cur'.next
      BY <1>2, <3>1
    <3>3. Cur'.at = "call" => \A i \in DOMAIN printed : printed[i][2] <= Cur'.next /\ printed[i][2] < Cur'.next
      BY <1>1, <1>2, <3>1
    <3> QED
      BY <1>2, <2>1, <3>1, <3>2, <3>3 DEF Ahead
  <2> QED
    BY <2>2, <2>3
<1> QED
  BY <1>3, <1>4

LEMMA KeptStep ==
  ASSUME Shape, Cells, RoomLeft, Owed, StreamInv, KeptInv, [PlatformNext]_pfvars
  PROVE  KeptInv'
<1>1. UNCHANGED <<PLAT, text, trap>>
  BY RunIsFixed
<1>2. SUFFICES ASSUME PLAT = "spike", ~trap.returns
      PROVE  /\ status' # "overrun" /\ Len(calls') = 2 => Before' \subseteq ToSet(shown') \/ Keeping'
             /\ calls' = <<>> /\ HandlerPrinted' => Before' \subseteq ToSet(shown')
             /\ Len(calls') = 1 => Ahead'
  BY <1>1 DEF KeptInv
<1>3. /\ status # "overrun" /\ Len(calls) = 2 => Before \subseteq ToSet(shown) \/ Keeping
      /\ calls = <<>> /\ HandlerPrinted => Before \subseteq ToSet(shown)
      /\ Len(calls) = 1 => Ahead
  BY <1>2 DEF KeptInv
<1>4. CASE PutcharStep
  <2>1. calls # <<>> /\ Len(calls) \in {1, 2} /\ status = "running" /\ Cur \in Calls
    BY <1>4, CurFacts
       DEF PutcharStep, ReadLength, StoreChar, TestFull, SendRequest, TakeAnswer, ResetLength, At, Running
  <2>2. Len(calls') = Len(calls) /\ calls' # <<>>
    BY <1>4, <2>1, PutcharSteps DEF PutcharStep, Stepped
  <2>3. CASE Len(calls) = 1
    BY <1>2, <1>3, <1>4, <2>2, <2>3, AheadSteps
  <2>4. CASE Len(calls) = 2 /\ status' # "overrun" /\ Keeping
    BY <1>1, <1>2, <1>4, <2>2, <2>4, KeepingSteps
  <2>5. CASE Len(calls) = 2 /\ Before \subseteq ToSet(shown)
    <3>1. shown' = shown
      BY <1>4 DEF PutcharStep, ReadLength, StoreChar, TestFull, SendRequest, TakeAnswer, ResetLength
    <3>2. Before' = Before
      <4>1. CASE ReadLength
        <5>1. Cur.next <= Len(Text(Cur.who)) /\ printed' = Append(printed, CurChar)
          BY <4>1 DEF ReadLength, More
        <5>2. CurChar \in AnyChar /\ CurChar[1] = "handler" /\ printed \in Seq(AnyChar)
          BY <1>2, <2>1, <2>5, <5>1, CurCharOK, CurFacts DEF CurChar, Char, Cells
        <5> QED
          BY <5>1, <5>2, HandlersCharacter
      <4>2. CASE ~ReadLength
        <5>1. printed' = printed
          BY <1>4, <4>2 DEF PutcharStep, StoreChar, TestFull, SendRequest, TakeAnswer, ResetLength
        <5> QED
          BY <5>1 DEF Before
      <4> QED
        BY <4>1, <4>2
    <3> QED
      BY <2>2, <2>5, <3>1, <3>2
  <2> QED
    BY <1>3, <2>1, <2>2, <2>3, <2>4, <2>5
<1>5. CASE TrapWhilePrinting
  <2>1. Len(calls) = 1 /\ Len(calls') = 2 /\ calls' # <<>>
    BY <1>5, TrapSteps
  <2> QED
    BY <1>1, <1>2, <1>3, <1>5, <2>1, TrapKeeps
<1>6. CASE TohostExit
  <2>1. calls # <<>> /\ calls' = <<>> /\ status = "running" /\ UNCHANGED <<printed, shown>> /\ Len(calls) \in {1, 2}
    BY <1>6, CurFacts DEF TohostExit, At, Running
  <2>2. Before' = Before /\ HandlerPrinted' = HandlerPrinted /\ Len(calls') = 0
    BY <2>1 DEF Before, HandlerPrinted
  <2>3. CASE Len(calls) = 1
    <3>1. ~HandlerPrinted
      BY <1>3, <2>3 DEF Ahead, HandlerPrinted
    <3> QED
      BY <2>2, <3>1
  <2>4. CASE Len(calls) = 2
    BY <1>3, <1>6, <2>1, <2>2, <2>4, ExitKeeps
  <2> QED
    BY <2>1, <2>3, <2>4
<1>7. CASE HostTakes
  <2>1. UNCHANGED <<calls, printed>> /\ status = "running"
    BY <1>7 DEF HostTakes
  <2>2. Before' = Before /\ HandlerPrinted' = HandlerPrinted /\ (Ahead' <=> Ahead)
    BY <2>1 DEF Before, HandlerPrinted, Ahead, Cur
  <2>3. ToSet(shown) \subseteq ToSet(shown') /\ (Keeping => Before \subseteq ToSet(shown') \/ Keeping')
    BY <1>1, <1>7, TakenKeeps
  <2> QED
    BY <1>3, <2>1, <2>2, <2>3
<1>8. CASE HostAnswers
  <2>1. /\ answers # 0 /\ status = "running"
        /\ UNCHANGED <<calls, buf, buflen, tohost, printed, shown, status>>
    BY <1>8 DEF HostAnswers
  <2>2. Before' = Before /\ HandlerPrinted' = HandlerPrinted /\ (Ahead' <=> Ahead) /\ ~Keeping
    BY <2>1 DEF Before, HandlerPrinted, Ahead, Cur, Keeping
  <2> QED
    BY <1>3, <2>1, <2>2
<1>9. CASE UNCHANGED <<cvars, printed, shown>>
  <2>1. UNCHANGED <<calls, buf, buflen, tohost, fromhost, answers, status, printed, shown>>
    BY <1>9 DEF cvars
  <2>2. Before' = Before /\ HandlerPrinted' = HandlerPrinted /\ (Ahead' <=> Ahead)
    BY <2>1 DEF Before, HandlerPrinted, Ahead, Cur
  <2>3. Keeping' <=> Keeping
    BY <1>1, <2>1, <2>2 DEF Keeping, InBuf, Cur, Text
  <2> QED
    BY <1>3, <2>1, <2>2, <2>3
<1> QED
  <2>1. ~UartNext
    BY <1>2, UartOnly
  <2>2. ~ReturnFromHandler
    BY <1>2 DEF ReturnFromHandler
  <2> QED
    BY <1>4, <1>5, <1>6, <1>7, <1>8, <1>9, <2>1, <2>2
       DEF PlatformNext, OnSpike, OnUart, ConsoleNext, ProgramStep, pfvars, pvars-----------------------------------------------------------------------------
(***************************************************************************)
\* The transmit FIFO.
(***************************************************************************)
LEMMA TailFacts ==
  ASSUME NEW S, NEW s \in Seq(S), s # <<>>
  PROVE  /\ Head(s) \in S /\ Head(s) = s[1] /\ Tail(s) \in Seq(S) /\ Len(Tail(s)) = Len(s) - 1
         /\ \A i \in 1 .. Len(s) - 1 : Tail(s)[i] = s[i + 1]
         /\ Len(s) \in Nat \ {0} /\ 1 \in DOMAIN s
  OBVIOUS

LEMMA BoardIs ==
  ASSUME HasUart
  PROVE  /\ PLAT \in {"nemu", "xiangshan", "qemu", "rocket_fpga"} /\ PLAT # "spike"
         /\ Board[PLAT].end \in {"trap", "byte", "wfi"}
         /\ Board[PLAT].end = "byte" => Instant
         /\ ~Instant => Board[PLAT].poll \in {"empty", "not full"}
<1>1. PLAT \in {"nemu", "xiangshan", "qemu", "rocket_fpga"}
  BY DEF HasUart, Board
<1>2. Board["nemu"].end = "trap" /\ Board["xiangshan"].end = "byte"
  BY DEF Board
<1>3. Board["qemu"].end = "wfi" /\ Board["rocket_fpga"].end = "wfi"
  BY DEF Board
<1>4. Board["qemu"].poll = "empty" /\ Board["rocket_fpga"].poll = "not full"
  BY DEF Board
<1>5. Board[PLAT].end \in {"trap", "byte", "wfi"} /\ (Board[PLAT].end = "byte" => PLAT = "xiangshan")
  BY <1>1, <1>2, <1>3
<1> QED
  BY <1>1, <1>4, <1>5 DEF Instant

\* Where a byte goes to the FIFO, the poll has found room for it.
LEMMA RoomInFifo ==
  ASSUME HasUart, ~Instant, MaySend, fifo \in Seq(AnyByte)
  PROVE  Len(fifo) < FifoSize
<1>1. CASE Board[PLAT].poll = "empty"
  <2>1. fifo = <<>>
    BY <1>1, Zenon DEF MaySend
  <2> QED
    BY <2>1, UartAssumption
<1>2. CASE Board[PLAT].poll = "not full"
  BY <1>2, Zenon DEF MaySend
<1> QED
  BY <1>1, <1>2, BoardIs

\* A byte that is sent on a simulator with bit 7 is the last.
LEMMA OutputByte ==
  ASSUME HasUart, UNCHANGED <<PLAT, code>>, shown \in Seq(AnyByte), verdict = -1, NEW b \in AnyByte, Output(b)
  PROVE  /\ shown' \in Seq(AnyByte) /\ Len(shown') = Len(shown) + 1
         /\ \A i \in 1 .. Len(shown) : shown'[i] = shown[i]
         /\ shown'[Len(shown) + 1] = b
         /\ verdict' \in -1 .. 127
         /\ VerdictIsTheExitCode'
<1>1. shown' = Append(shown, b) /\ verdict' = IF Ends(b) THEN OtherBits(TextByte) ELSE verdict
  BY DEF Output
<1>2. /\ shown' \in Seq(AnyByte) /\ Len(shown') = Len(shown) + 1
      /\ \A i \in 1 .. Len(shown) : shown'[i] = shown[i]
      /\ shown'[Len(shown) + 1] = b
  BY <1>1, AppendFacts
<1>3. OtherBits(TextByte) = 104
  BY DEF OtherBits, TextByte
<1>4. verdict' \in -1 .. 127
  BY <1>1, <1>3
<1>5. ASSUME Ends(b)
      PROVE  EndedByText'
  <2>1. Len(shown') > 0
    BY <1>2
  <2>2. shown' # <<>>
    BY <2>1
  <2>3. Last(shown') = b
    BY <1>2 DEF Last
  <2> QED
    BY <1>5, <2>2, <2>3 DEF EndedByText, Ends, High, HasUart
<1> QED
  BY <1>1, <1>2, <1>4, <1>5 DEF VerdictIsTheExitCode

\* A byte of putc is shown at once or goes behind those in the FIFO.
LEMMA ByteWritten ==
  ASSUME UartTypes, FifoInv, HasUart, UNCHANGED <<PLAT, code>>, verdict = -1, MaySend,
         NEW kind \in Kinds \union {"r"}, WriteByte(kind)
  PROVE  /\ FifoInv' /\ VerdictIsTheExitCode' /\ verdict' \in -1 .. 127
         /\ fifo' \in Seq(AnyByte) /\ Len(fifo') <= FifoSize
         /\ printed \in Seq(AnyByte) /\ printed' \in Seq(AnyByte) /\ shown \in Seq(AnyByte) /\ shown' \in Seq(AnyByte)
         /\ \E b \in AnyByte : printed' = Append(printed, b)
         /\ shown' = shown \/ Len(shown') = Len(printed')
<1>1. /\ printed \in Seq(AnyByte) /\ shown \in Seq(AnyByte) /\ fifo \in Seq(AnyByte)
      /\ Len(printed) = Len(shown) + Len(fifo) /\ Len(fifo) <= FifoSize
      /\ \A i \in DOMAIN shown : shown[i] = printed[i]
      /\ \A i \in DOMAIN fifo : fifo[i] = printed[Len(shown) + i]
      /\ Instant => fifo = <<>>
  BY DEF FifoInv
<1>2. /\ Len(printed) \in Nat /\ Len(shown) \in Nat /\ Len(fifo) \in Nat
      /\ DOMAIN printed = 1 .. Len(printed) /\ DOMAIN shown = 1 .. Len(shown) /\ DOMAIN fifo = 1 .. Len(fifo)
  BY <1>1
<1>3. PICK b \in AnyByte : b = Byte(Len(printed) + 1, kind)
  <2>1. Len(printed) + 1 \in Nat
    BY <1>2
  <2>2. Byte(Len(printed) + 1, kind) \in AnyByte
    BY <2>1 DEF Byte, AnyByte
  <2> QED
    BY <2>2
<1>4. printed' = Append(printed, b)
  BY <1>3 DEF WriteByte
<1>5. /\ printed' \in Seq(AnyByte) /\ Len(printed') = Len(printed) + 1 /\ printed'[Len(printed) + 1] = b
      /\ \A i \in 1 .. Len(printed) : printed'[i] = printed[i]
  <2>1. printed \in Seq(AnyByte)
    BY <1>1
  <2> QED
    BY ONLY <1>4, <2>1, AppendFacts
<1>6. HasUart' /\ (Instant' <=> Instant)
  BY DEF HasUart, Instant
<1>7. CASE Instant
  <2>1. Output(b) /\ fifo' = fifo /\ fifo = <<>> /\ Len(fifo) = 0
    BY <1>1, <1>3, <1>7 DEF WriteByte
  <2>2. /\ shown' \in Seq(AnyByte) /\ Len(shown') = Len(shown) + 1
        /\ \A i \in 1 .. Len(shown) : shown'[i] = shown[i]
        /\ shown'[Len(shown) + 1] = b
        /\ verdict' \in -1 .. 127 /\ VerdictIsTheExitCode'
    BY <1>1, <2>1, OutputByte
  <2>3. Len(printed) = Len(shown) /\ Len(printed') = Len(shown') + Len(fifo')
    BY <1>1, <1>2, <1>5, <2>1, <2>2
  <2>4. ASSUME NEW i \in DOMAIN shown'
        PROVE  shown'[i] = printed'[i]
    <3>1. i \in 1 .. Len(shown) \/ i = Len(shown) + 1
      BY <1>2, <2>2
    <3>2. CASE i \in 1 .. Len(shown)
      BY <1>1, <1>2, <1>5, <2>2, <2>3, <3>2
    <3>3. CASE i = Len(shown) + 1
      BY <1>5, <2>2, <2>3, <3>3
    <3> QED
      BY <3>1, <3>2, <3>3
  <2>5. FifoInv'
    BY <1>1, <1>5, <1>6, <2>1, <2>2, <2>3, <2>4 DEF FifoInv
  <2> QED
    BY <1>1, <1>2, <1>4, <1>5, <2>1, <2>2, <2>3, <2>5
<1>8. CASE ~Instant
  <2>1. Len(fifo) < FifoSize
    BY <1>1, <1>8, RoomInFifo
  <2>2. fifo' = Append(fifo, b) /\ UNCHANGED <<shown, verdict>>
    BY <1>3, <1>8, <2>1 DEF WriteByte
  <2>3. /\ fifo' \in Seq(AnyByte) /\ Len(fifo') = Len(fifo) + 1 /\ fifo'[Len(fifo) + 1] = b
        /\ \A i \in 1 .. Len(fifo) : fifo'[i] = fifo[i]
    BY <1>1, <2>2, AppendFacts
  <2>4. Len(fifo') <= FifoSize /\ Len(printed') = Len(shown') + Len(fifo')
    BY <1>1, <1>2, <1>5, <2>1, <2>2, <2>3, UartAssumption
  <2>5. \A i \in DOMAIN shown : shown'[i] = printed'[i]
    BY <1>1, <1>2, <1>5, <2>2
  <2>6. ASSUME NEW i \in DOMAIN fifo'
        PROVE  fifo'[i] = printed'[Len(shown) + i]
    <3>1. i \in 1 .. Len(fifo) \/ i = Len(fifo) + 1
      BY <1>2, <2>3
    <3>2. CASE i \in 1 .. Len(fifo)
      <4>1. Len(shown) + i \in 1 .. Len(printed)
        BY <1>1, <1>2, <3>2
      <4> QED
        BY <1>1, <1>2, <1>5, <2>3, <3>2, <4>1
    <3>3. CASE i = Len(fifo) + 1
      <4>1. Len(shown) + i = Len(printed) + 1
        BY <1>1, <1>2, <3>3
      <4> QED
        BY <1>5, <2>3, <3>3, <4>1
    <3> QED
      BY <3>1, <3>2, <3>3
  <2>7. FifoInv'
    BY <1>1, <1>5, <1>6, <1>8, <2>2, <2>3, <2>4, <2>5, <2>6 DEF FifoInv
  <2>8. VerdictIsTheExitCode'
    BY <2>2 DEF VerdictIsTheExitCode
  <2> QED
    BY <1>1, <1>4, <1>5, <2>2, <2>3, <2>4, <2>7, <2>8
<1> QED
  BY <1>7, <1>8

LEMMA ByteSent ==
  ASSUME UartTypes, FifoInv, DeviceSends, UNCHANGED <<PLAT, code>>
  PROVE  /\ FifoInv' /\ VerdictIsTheExitCode' /\ verdict' \in -1 .. 127
         /\ fifo' \in Seq(AnyByte) /\ Len(fifo') <= FifoSize
         /\ printed \in Seq(AnyByte) /\ shown \in Seq(AnyByte) /\ shown' \in Seq(AnyByte)
         /\ Len(shown') = Len(shown) + 1 /\ Len(shown') <= Len(printed)
<1>1. /\ HasUart /\ fifo # <<>> /\ verdict = -1 /\ fifo' = Tail(fifo) /\ Output(Head(fifo)) /\ UNCHANGED printed
  BY DEF DeviceSends
<1>2. /\ printed \in Seq(AnyByte) /\ shown \in Seq(AnyByte) /\ fifo \in Seq(AnyByte)
      /\ Len(printed) = Len(shown) + Len(fifo) /\ Len(fifo) <= FifoSize
      /\ \A i \in DOMAIN shown : shown[i] = printed[i]
      /\ \A i \in DOMAIN fifo : fifo[i] = printed[Len(shown) + i]
      /\ ~Instant
  BY <1>1 DEF FifoInv
<1>3. /\ Len(printed) \in Nat /\ Len(shown) \in Nat /\ Len(fifo) \in Nat /\ FifoSize \in Nat
      /\ DOMAIN printed = 1 .. Len(printed) /\ DOMAIN shown = 1 .. Len(shown) /\ DOMAIN fifo = 1 .. Len(fifo)
  BY <1>2, UartAssumption
<1>4. /\ Head(fifo) \in AnyByte /\ Head(fifo) = fifo[1] /\ fifo' \in Seq(AnyByte) /\ Len(fifo') = Len(fifo) - 1
      /\ \A i \in 1 .. Len(fifo) - 1 : fifo'[i] = fifo[i + 1]
      /\ Len(fifo) > 0
  BY <1>1, <1>2, TailFacts
<1>5. /\ shown' \in Seq(AnyByte) /\ Len(shown') = Len(shown) + 1
      /\ \A i \in 1 .. Len(shown) : shown'[i] = shown[i]
      /\ shown'[Len(shown) + 1] = fifo[1]
      /\ verdict' \in -1 .. 127 /\ VerdictIsTheExitCode'
  <2>1. PICK b \in AnyByte : b = Head(fifo)
    BY <1>4
  <2>2. Output(b)
    BY <1>1, <2>1
  <2> QED
    BY <1>1, <1>2, <1>4, <2>1, <2>2, OutputByte
<1>6. HasUart' /\ ~Instant'
  BY <1>1, <1>2 DEF HasUart, Instant
<1>7. Len(fifo') <= FifoSize /\ Len(printed) = Len(shown') + Len(fifo') /\ Len(shown') <= Len(printed)
  BY <1>2, <1>3, <1>4, <1>5
<1>8. ASSUME NEW i \in DOMAIN shown'
      PROVE  shown'[i] = printed[i]
  <2>1. i \in 1 .. Len(shown) \/ i = Len(shown) + 1
    BY <1>3, <1>5
  <2>2. 1 \in DOMAIN fifo
    BY <1>3, <1>4
  <2> QED
    BY <1>2, <1>3, <1>5, <2>1, <2>2
<1>9. ASSUME NEW i \in DOMAIN fifo'
      PROVE  fifo'[i] = printed[Len(shown') + i]
  <2>1. i \in 1 .. Len(fifo) - 1 /\ i + 1 \in DOMAIN fifo /\ Len(shown) + (i + 1) = Len(shown') + i
    BY <1>3, <1>4, <1>5
  <2> QED
    BY <1>2, <1>4, <2>1
<1>10. FifoInv'
  BY <1>1, <1>2, <1>4, <1>5, <1>6, <1>7, <1>8, <1>9 DEF FifoInv
<1> QED
  BY <1>2, <1>4, <1>5, <1>7, <1>10

LEMMA ExitCalled ==
  ASSUME UartTypes, FifoInv, CallExit, UNCHANGED <<PLAT, code>>
  PROVE  FifoInv' /\ VerdictIsTheExitCode' /\ verdict' \in -1 .. 127
<1>1. /\ HasUart /\ verdict = -1 /\ called' = TRUE /\ UNCHANGED <<fifo, printed, shown>> /\ code \in ExitCodes
      /\ verdict' = CASE Board[PLAT].end = "trap" -> 0
                      [] Board[PLAT].end = "byte" -> OtherBits(code)
                      [] Board[PLAT].end = "wfi"  -> verdict
  BY DEF CallExit, UartTypes
<1>2. FifoInv'
  BY <1>1 DEF FifoInv, HasUart, Instant
<1>3. code \in Int /\ OtherBits(code) \in 0 .. 127 /\ (OtherBits(code) = 0 <=> code = 0)
  <2>1. code \in Int /\ (code % 128 = 0 => code = 0)
    BY <1>1, PrintingAssumption, UartAssumption
  <2>2. code % 128 \in 0 .. 127 /\ 0 % 128 = 0
    BY <2>1
  <2> QED
    BY <2>1, <2>2 DEF OtherBits
<1>4. Board[PLAT].end \in {"trap", "byte", "wfi"}
  BY <1>1, BoardIs
<1>5. /\ Board[PLAT].end = "trap" => verdict' = 0
      /\ Board[PLAT].end = "byte" => verdict' = OtherBits(code)
      /\ Board[PLAT].end = "wfi" => verdict' = verdict
  BY <1>1, Zenon
<1>6. verdict' \in -1 .. 127
  BY <1>1, <1>3, <1>4, <1>5
<1>7. VerdictIsTheExitCode'
  BY <1>1, <1>3, <1>5 DEF VerdictIsTheExitCode
<1> QED
  BY <1>2, <1>6, <1>7

LEMMA UartStep ==
  ASSUME UartInv, [PlatformNext]_pfvars
  PROVE  UartInv'
<1>1. UNCHANGED <<PLAT, text, code>> /\ (HasUart' <=> HasUart) /\ (Instant' <=> Instant)
  BY DEF PlatformNext, OnSpike, OnUart, pfvars, pvars, HasUart, Instant
<1>2. /\ text \in Seq(Kinds) /\ code \in ExitCodes /\ next \in 1 .. Len(text) + 1 /\ Len(text) \in Nat
      /\ cr \in BOOLEAN /\ called \in BOOLEAN
      /\ UartTypes /\ FifoInv /\ VerdictIsTheExitCode
  BY DEF UartInv, UartTypes
<1>3. CASE UNCHANGED uvars /\ UNCHANGED <<printed, shown>>
  BY <1>1, <1>2, <1>3 DEF UartInv, UartTypes, FifoInv, VerdictIsTheExitCode, EndedByText, uvars
<1>4. CASE ConsoleNext /\ UNCHANGED uvars
  <2>1. ~HasUart
    <3>1. PLAT = "spike"
      BY <1>4 DEF ConsoleNext, ProgramStep, PutcharStep, ReadLength, StoreChar, TestFull, SendRequest, TakeAnswer,
                  ResetLength, ReturnFromHandler, TohostExit, TrapWhilePrinting, HostTakes, HostAnswers, At, Running
    <3> QED
      BY <3>1, BoardIs
  <2> QED
    BY <1>1, <1>2, <1>4, <2>1 DEF UartInv, UartTypes, FifoInv, VerdictIsTheExitCode, uvars
<1>5. CASE PutCarriageReturn
  <2>1. /\ HasUart /\ verdict = -1 /\ MaySend /\ WriteByte("r") /\ cr' = TRUE /\ UNCHANGED <<next, called>>
    BY <1>5 DEF PutCarriageReturn, MoreToPut
  <2>2. FifoInv' /\ VerdictIsTheExitCode' /\ verdict' \in -1 .. 127 /\ fifo' \in Seq(AnyByte) /\ Len(fifo') <= FifoSize
    BY <1>1, <1>2, <2>1, ByteWritten
  <2> QED
    BY <1>1, <1>2, <2>1, <2>2 DEF UartInv, UartTypes
<1>6. CASE PutChar
  <2>1. /\ HasUart /\ verdict = -1 /\ MaySend /\ WriteByte(text[next]) /\ next <= Len(text)
        /\ next' = next + 1 /\ cr' = FALSE /\ UNCHANGED called
    BY <1>6 DEF PutChar, MoreToPut
  <2>2. text[next] \in Kinds /\ next' \in 1 .. Len(text) + 1
    BY <1>2, <2>1
  <2>3. FifoInv' /\ VerdictIsTheExitCode' /\ verdict' \in -1 .. 127 /\ fifo' \in Seq(AnyByte) /\ Len(fifo') <= FifoSize
    BY <1>1, <1>2, <2>1, <2>2, ByteWritten
  <2> QED
    BY <1>1, <1>2, <2>1, <2>2, <2>3 DEF UartInv, UartTypes
<1>7. CASE CallExit
  <2>1. UNCHANGED <<next, cr, fifo>> /\ called' = TRUE
    BY <1>7 DEF CallExit
  <2> QED
    BY <1>1, <1>2, <1>7, <2>1, ExitCalled DEF UartInv, UartTypes
<1>8. CASE DeviceSends
  <2>1. UNCHANGED <<next, cr, called>>
    BY <1>8 DEF DeviceSends
  <2> QED
    BY <1>1, <1>2, <1>8, <2>1, ByteSent DEF UartInv, UartTypes
<1> QED
  BY <1>3, <1>4, <1>5, <1>6, <1>7, <1>8
     DEF PlatformNext, OnSpike, OnUart, UartNext, PutStep, pfvars, pvars-----------------------------------------------------------------------------
(***************************************************************************)
\* The invariant.
(***************************************************************************)
LEMMA EndingStep ==
  ASSUME Shape, Cells, Ending, [PlatformNext]_pfvars
  PROVE  Ending'
<1>1. UNCHANGED PLAT
  BY RunIsFixed
<1>2. CASE UNCHANGED <<calls, tohost, status>>
  BY <1>1, <1>2 DEF Ending
<1>3. CASE ProgramStep \/ TrapWhilePrinting
  <2>1. calls # <<>> /\ status = "running" /\ PLAT = "spike"
    BY <1>3 DEF ProgramStep, PutcharStep, ReadLength, StoreChar, TestFull, SendRequest, TakeAnswer, ResetLength,
                ReturnFromHandler, TohostExit, TrapWhilePrinting, At, Running
  <2>2. CASE TohostExit
    BY <1>1, <2>1, <2>2 DEF TohostExit, Ending
  <2>3. CASE ~TohostExit
    <3>1. (tohost' = tohost \/ tohost' = Write(Cur.index)) /\ (status' = status \/ status' = "overrun")
      BY <1>3, <2>3
         DEF ProgramStep, PutcharStep, ReadLength, StoreChar, TestFull, SendRequest, TakeAnswer, ResetLength,
             ReturnFromHandler, TrapWhilePrinting
    <3>2. tohost'.kind # "exit"
      BY <2>1, <3>1 DEF Ending, Write
    <3> QED
      BY <2>1, <3>1, <3>2 DEF Ending
  <2> QED
    BY <2>2, <2>3
<1>4. CASE HostTakes
  <2>1. tohost' = None /\ calls' = calls /\ PLAT = "spike" /\ status = "running"
    BY <1>4 DEF HostTakes
  <2>2. tohost'.kind = "none"
    BY <2>1 DEF None
  <2>3. status' = "exited" => tohost.kind = "exit"
    BY <1>4, <2>1 DEF HostTakes
  <2> QED
    BY <1>1, <2>1, <2>2, <2>3 DEF Ending
<1> QED
  <2>1. CASE HostAnswers \/ UNCHANGED cvars
    BY <1>2, <2>1 DEF HostAnswers, cvars
  <2> QED
    BY <1>3, <1>4, <2>1 DEF PlatformNext, OnSpike, OnUart, ConsoleNext, pfvars

LEMMA ConsoleInitially ==
  ASSUME PlatformInit
  PROVE  ConsoleInv
<1> USE ConsoleAssumption
<1>1. /\ trap \in Traps /\ calls = <<Call("main")>> /\ buf = [i \in 1 .. BufSize |-> Empty] /\ buflen = 0
      /\ tohost = None /\ fromhost = 0 /\ answers = 0 /\ status = "running"
      /\ text \in Seq(Kinds) /\ printed = <<>> /\ shown = <<>>
  BY PrintingAssumption DEF PlatformInit, PrintingInit, ConsoleInit
<1>2. PICK c \in Calls : c = Call("main")
  <2>1. 0 \in 0 .. BufSize /\ "call" \in Points
    BY DEF Points
  <2>2. Call("main") \in Calls
    BY <2>1 DEF Call, Calls
  <2> QED
    BY <2>2
<1>3. c.who = "main" /\ c.next = 1 /\ c.at = "call" /\ c.index = 0
  BY <1>2 DEF Call
<1>4. calls \in Seq(Calls) /\ Len(calls) = 1 /\ calls[1] = c /\ DOMAIN calls = {1}
  BY <1>1, <1>2
<1>5. calls # <<>>
  BY <1>4
<1>6. Cur = c
  BY <1>4 DEF Cur, Last
<1>7. Len(text) \in Nat /\ Text("main") = text
  BY <1>1 DEF Text
<1>8. Shape
  BY <1>1, <1>3, <1>4, <1>7 DEF Shape
<1>9. printed \in Seq(AnyChar) /\ shown \in Seq(AnyChar \union {Empty}) /\ Len(printed) = 0 /\ Len(shown) = 0
      /\ DOMAIN printed = {} /\ DOMAIN shown = {}
  BY <1>1
<1>10. Cells
  <2>1. buf \in [1 .. BufSize -> AnyChar \union {Empty}] /\ buflen \in 0 .. BufSize
    BY <1>1
  <2> QED
    BY <1>1, <1>9, <2>1 DEF Cells
<1>11. tohost.kind = "none"
  BY <1>1 DEF None
<1>12. AtWait = 0 /\ Unread = 0
  BY <1>3, <1>4, <1>11 DEF AtWait, Waiting, Unread
<1>13. Owed
  BY <1>1, <1>5, <1>12 DEF Owed, AtWait
<1>14. RoomLeft
  BY <1>1, <1>3, <1>4, <1>6 DEF RoomLeft
<1>15. Held = 0
  BY <1>1, <1>3, <1>6 DEF Held
<1>16. InOrder
  BY <1>3, <1>6, <1>9, <1>11, <1>15 DEF InOrder
<1>17. StreamInv
  BY <1>5, <1>16 DEF StreamInv
<1>18. KeptInv
  BY <1>4, <1>5, <1>9 DEF KeptInv, Ahead
<1>19. Ending
  BY <1>1, <1>11 DEF Ending
<1> QED
  BY <1>8, <1>10, <1>13, <1>14, <1>17, <1>18, <1>19 DEF ConsoleInv

LEMMA UartInitially ==
  ASSUME PlatformInit
  PROVE  UartInv
<1>1. /\ text \in Seq(Kinds) /\ code \in ExitCodes /\ next = 1 /\ cr = FALSE /\ called = FALSE
      /\ fifo = <<>> /\ verdict = -1 /\ printed = <<>> /\ shown = <<>>
  BY PrintingAssumption DEF PlatformInit, PrintingInit, UartInit
<1>2. /\ fifo \in Seq(AnyByte) /\ Len(fifo) = 0 /\ DOMAIN fifo = {} /\ FifoSize \in Nat
      /\ printed \in Seq(AnyByte) /\ Len(printed) = 0 /\ shown \in Seq(AnyByte) /\ Len(shown) = 0 /\ DOMAIN shown = {}
  BY <1>1, UartAssumption
<1>3. next \in 1 .. Len(text) + 1 /\ verdict \in -1 .. 127 /\ Len(fifo) <= FifoSize
  BY <1>1, <1>2, UartAssumption
<1>4. UartTypes
  BY <1>1, <1>2, <1>3 DEF UartTypes
<1>5. FifoInv
  BY <1>1, <1>2 DEF FifoInv
<1>6. VerdictIsTheExitCode
  BY <1>1 DEF VerdictIsTheExitCode
<1> QED
  BY <1>4, <1>5, <1>6 DEF UartInv

LEMMA PlatformStep ==
  ASSUME PlatformInv, [PlatformNext]_pfvars
  PROVE  PlatformInv'
<1>1. Shape /\ Cells /\ Owed /\ RoomLeft /\ StreamInv /\ KeptInv /\ Ending /\ UartInv
  BY DEF PlatformInv, ConsoleInv
<1> QED
  BY <1>1, ShapeStep, CellsStep, OwedStep, RoomLeftStep, StreamStep, KeptStep, EndingStep, UartStep
     DEF PlatformInv, ConsoleInv

\* The buffer, the two cells and the FIFO hold what has been printed and not shown, in
\* order, and the host owes no more answers than calls of syscall wait for.
THEOREM Invariance == PlatformSpec => []PlatformInv
<1>1. PlatformInit => PlatformInv
  BY ConsoleInitially, UartInitially DEF PlatformInv
<1>2. PlatformInv /\ [PlatformNext]_pfvars => PlatformInv'
  BY PlatformStep
<1> QED
  BY <1>1, <1>2, PTL DEF PlatformSpec

\* Buflen never passes the end of buf, and the FIFO never its size.
THEOREM Types == PlatformSpec => []PlatformTypeOK
<1>1. ASSUME PlatformInv
      PROVE  PlatformTypeOK
  <2>1. Shape /\ Cells /\ Owed /\ UartTypes
    BY <1>1 DEF PlatformInv, ConsoleInv, UartInv
  <2>2. answers \in 0 .. 2
    <3>1. AtWait <= 2 /\ Unread \in {0, 1}
      BY DEF AtWait, Waiting, Unread
    <3>2. answers \in Nat /\ fromhost \in {0, 1}
      BY <2>1 DEF Cells
    <3>3. calls # <<>> => answers + fromhost + Unread <= AtWait
      BY <2>1 DEF Owed, AtWait
    <3>4. calls = <<>> => answers + fromhost <= 2
      BY <2>1 DEF Owed
    <3>5. AtWait \in {0, 1, 2}
      BY DEF AtWait, Waiting
    <3> QED
      BY <3>1, <3>2, <3>3, <3>4, <3>5
  <2>3. ConsoleTypeOK
    BY <2>1, <2>2 DEF ConsoleTypeOK, Shape, Cells
  <2> QED
    BY <2>1, <2>3 DEF PlatformTypeOK, UartTypes
<1> QED
  BY <1>1, Invariance, PTL

LEMMA WaitersCounted ==
  ASSUME Shape
  PROVE  Cardinality({i \in DOMAIN calls : calls[i].at = "wait"}) = AtWait
<1> DEFINE Waiters == {i \in DOMAIN calls : calls[i].at = "wait"}
<1>1. calls \in Seq(Calls) /\ Len(calls) \in {0, 1, 2} /\ DOMAIN calls = 1 .. Len(calls)
  <2>1. calls \in Seq(Calls) /\ Len(calls) <= 2
    BY DEF Shape
  <2>2. Len(calls) \in Nat /\ DOMAIN calls = 1 .. Len(calls)
    BY <2>1
  <2>3. Len(calls) \in {0, 1, 2}
    BY <2>1, <2>2
  <2> QED
    BY <2>1, <2>2, <2>3
<1>2. Waiters = {i \in {1, 2} : Waiting(i) = 1} /\ Waiting(1) \in {0, 1} /\ Waiting(2) \in {0, 1}
  <2>1. \A i \in {1, 2} : i \in DOMAIN calls <=> i <= Len(calls)
    BY <1>1
  <2>2. Waiters \subseteq {1, 2}
    BY <1>1
  <2> QED
    BY <2>1, <2>2 DEF Waiting
<1>3. CASE Waiting(1) = 0 /\ Waiting(2) = 0
  <2>1. Waiters = {}
    BY <1>2, <1>3
  <2> QED
    BY <1>3, <2>1, FS_EmptySet DEF AtWait
<1>4. CASE Waiting(1) = 1 /\ Waiting(2) = 0
  <2>1. Waiters = {1}
    BY <1>2, <1>4
  <2> QED
    BY <1>4, <2>1, FS_Singleton DEF AtWait
<1>5. CASE Waiting(1) = 0 /\ Waiting(2) = 1
  <2>1. Waiters = {2}
    BY <1>2, <1>5
  <2>2. Cardinality({2}) = 1
    BY FS_Singleton
  <2> QED
    BY <1>5, <2>1, <2>2 DEF AtWait
<1>6. CASE Waiting(1) = 1 /\ Waiting(2) = 1
  <2>1. Waiters = {1} \union {2}
    BY <1>2, <1>6
  <2>2. Cardinality({1}) = 1 /\ IsFiniteSet({1})
    BY FS_Singleton
  <2>3. Cardinality({1} \union {2}) = 2
    BY <2>2, FS_AddElement
  <2> QED
    BY <1>6, <2>1, <2>3 DEF AtWait
<1> QED
  BY <1>2, <1>3, <1>4, <1>5, <1>6

\* The answers on their way never outnumber the calls that wait for one, whatever traps come,
\* as long as the program runs.
THEOREM NoStale == PlatformSpec => []NoStaleAnswer
<1>1. ASSUME PlatformInv
      PROVE  NoStaleAnswer
  <2>1. Shape /\ Owed /\ answers \in Nat /\ fromhost \in {0, 1}
    BY <1>1 DEF PlatformInv, ConsoleInv, Cells
  <2>2. Unread \in {0, 1} /\ AtWait \in {0, 1, 2}
    BY DEF Unread, AtWait, Waiting
  <2>3. calls # <<>> => answers + fromhost <= AtWait
    BY <2>1, <2>2 DEF Owed, AtWait
  <2>4. calls = <<>> /\ trap.at \subseteq {"call"} => answers + fromhost = 0
    BY <2>1 DEF Owed
  <2> QED
    BY <2>1, <2>2, <2>3, <2>4, WaitersCounted DEF NoStaleAnswer
<1> QED
  BY <1>1, Invariance, PTL

\* An ERROR at any point of putchar gives the host all that was printed before.
THEOREM ErrorKeeps == PlatformSpec => []ErrorKeepsWhatCameBefore
<1>1. PlatformInv => ErrorKeepsWhatCameBefore
  BY DEF PlatformInv, ConsoleInv, KeptInv, Ending, ErrorKeepsWhatCameBefore
<1> QED
  BY <1>1, Invariance, PTL

\* Only a handler that prints over a full buffer stores past it.
THEOREM OverrunIsATrap == PlatformSpec => []OverrunNeedsFullBuffer
<1>1. PlatformInv => OverrunNeedsFullBuffer
  BY DEF PlatformInv, ConsoleInv, RoomLeft, Interrupted, OverrunNeedsFullBuffer
<1> QED
  BY <1>1, Invariance, PTL

\* What the simulator ends with tells whether the program gave 0, unless a byte of the text
\* ended it.
THEOREM Verdict == PlatformSpec => []VerdictIsTheExitCode
<1>1. PlatformInv => VerdictIsTheExitCode
  BY DEF PlatformInv, UartInv
<1> QED
  BY <1>1, Invariance, PTL

-----------------------------------------------------------------------------
(***************************************************************************)
\* The stream of OutputStream, step by step.
(***************************************************************************)
LEMMA SequencesEqual ==
  ASSUME NEW S, NEW s \in Seq(S), NEW t \in Seq(S), Len(s) = Len(t), \A i \in 1 .. Len(s) : s[i] = t[i]
  PROVE  s = t
  OBVIOUS

\* What is shown is a prefix of what is printed.
LEMMA PrefixOf ==
  ASSUME NEW S, NEW p \in Seq(S), NEW s \in Seq(S), Len(s) <= Len(p), \A i \in DOMAIN s : s[i] = p[i]
  PROVE  s = SubSeq(p, 1, Len(s))
<1>1. Len(s) \in 0 .. Len(p) /\ DOMAIN s = 1 .. Len(s)
  OBVIOUS
<1>2. /\ SubSeq(p, 1, Len(s)) \in Seq(S) /\ Len(SubSeq(p, 1, Len(s))) = Len(s)
      /\ \A i \in 1 .. Len(s) : SubSeq(p, 1, Len(s))[i] = p[i]
  BY <1>1, PrefixFacts
<1> QED
  BY <1>1, <1>2, SequencesEqual

LEMMA AppendedFront ==
  ASSUME NEW S, NEW s \in Seq(S), NEW x \in S
  PROVE  Front(Append(s, x)) = s /\ Last(Append(s, x)) = x
<1>1. /\ Append(s, x) \in Seq(S) /\ Len(Append(s, x)) = Len(s) + 1
      /\ \A i \in 1 .. Len(s) : Append(s, x)[i] = s[i]
      /\ Append(s, x)[Len(s) + 1] = x
  BY AppendFacts
<1>2. Len(s) \in Nat /\ DOMAIN s = 1 .. Len(s)
  OBVIOUS
<1>3. s = SubSeq(Append(s, x), 1, Len(s))
  BY <1>1, <1>2, PrefixOf
<1> QED
  BY <1>1, <1>2, <1>3 DEF Front, Last

LEMMA StreamOrStutter ==
  ASSUME PlatformInv, [PlatformNext]_pfvars
  PROVE  [Stream!SNext]_(Stream!svars)
<1>1. /\ Shape /\ Cells /\ Owed /\ RoomLeft /\ StreamInv /\ Ending /\ UNCHANGED PLAT /\ (Calm' <=> Calm)
  BY RunIsFixed DEF PlatformInv, ConsoleInv, Calm
<1>2. CASE ~Calm
  BY <1>1, <1>2 DEF Stream!svars
<1>3. CASE Calm /\ UNCHANGED <<printed, shown>> /\ ((status' = "exited") <=> (status = "exited"))
  BY <1>1, <1>3 DEF Stream!svars
<1>4. CASE Calm /\ ReadLength
  <2>1. /\ calls # <<>> /\ status = "running" /\ Cur.next <= Len(Text(Cur.who)) /\ Cur.at = "call"
        /\ printed' = Append(printed, CurChar) /\ UNCHANGED <<shown, status>>
    BY <1>4 DEF ReadLength, At, Running, More
  <2>2. CurChar \in AnyChar
    BY <1>1, <2>1, CurCharOK
  <2>3. Orderly
    BY <1>4, <2>1 DEF Orderly, Calm
  <2>4. InOrder /\ printed \in Seq(AnyChar) /\ shown \in Seq(AnyChar \union {Empty})
    BY <1>1, <2>3, OrderlyIs
  <2>5. PICK c \in AnyChar : c = CurChar
    BY <2>2
  <2>6. printed' = Append(printed, c)
    BY <2>1, <2>5
  <2>7. /\ Len(printed') = Len(printed) + 1 /\ Front(printed') = printed /\ Last(printed') = c
        /\ \A i \in 1 .. Len(printed) : printed'[i] = printed[i]
        /\ printed' \in Seq(AnyChar)
    <3>1. printed \in Seq(AnyChar)
      BY <2>4
    <3> QED
      BY ONLY <2>6, <3>1, AppendFacts, AppendedFront
  <2>8. Len(shown) <= Len(printed) /\ Len(shown) \in Nat /\ Len(printed) \in Nat
    <3>1. Held \in Nat
      BY <1>1, ConsoleAssumption DEF Held, Cells
    <3>2. Len(printed) = Len(shown) + Held + 0
      BY <2>1, <2>4 DEF InOrder
    <3> QED
      BY <2>4, <3>1, <3>2
  <2>9. \A i \in DOMAIN shown : shown[i] = printed'[i]
    BY <2>4, <2>7, <2>8 DEF InOrder
  <2>10. shown = SubSeq(printed', 1, Len(shown))
    <3>1. printed' \in Seq(AnyChar \union {Empty})
      BY <2>7
    <3> QED
      BY <2>4, <2>7, <2>8, <2>9, <3>1, PrefixOf
  <2>11. /\ Len(printed') = Len(printed) + 1 /\ Front(printed') = printed /\ Last(printed') \in AnyChar
         /\ \E n \in {Len(shown), Len(printed')} : shown' = SubSeq(printed', 1, n)
         /\ status' = status
    BY <2>1, <2>7, <2>10
  <2>12. Stream!PrintChar
    BY <1>1, <1>4, <2>11 DEF Stream!PrintChar, Stream!Front, Stream!Last, Front, Last
  <2> QED
    BY <2>12 DEF Stream!SNext
<1>5. CASE Calm /\ HostTakes /\ tohost.kind # "exit"
  <2>1. /\ tohost # None /\ shown' = shown \o SubSeq(buf, 1, tohost.len) /\ status = "running"
        /\ UNCHANGED <<calls, printed, status>>
    BY <1>5 DEF HostTakes
  <2>2. tohost.kind = "write" /\ calls # <<>>
    BY <1>1, <1>5, <2>1, TakenChars DEF Owed, Unread
  <2>3. Orderly /\ Orderly'
    BY <1>1, <1>5, <2>1, <2>2 DEF Orderly, Calm
  <2>4. InOrder /\ printed \in Seq(AnyChar) /\ shown \in Seq(AnyChar \union {Empty})
    BY <1>1, <2>3, OrderlyIs
  <2>5. InOrder'
    BY <1>1, <2>3, StreamStep DEF StreamInv
  <2>6. shown' \in Seq(AnyChar \union {Empty})
    BY <1>1, <1>5, CellsStep DEF Cells, Calm
  <2>7. Held = buflen /\ buflen > 0 /\ Cur.at = "wait" /\ tohost = Write(buflen) /\ buflen \in Nat
    BY <1>1, <2>2, <2>4, ConsoleAssumption DEF InOrder, Held, Cells
  <2>8. Len(printed) = Len(shown) + buflen + 0 /\ Len(shown) \in Nat
    BY <2>4, <2>7 DEF InOrder
  <2>9. Len(printed) = Len(shown') + Held' + 0 /\ Held' \in Nat /\ Len(shown') \in Nat
    <3>1. Cur' = Cur /\ Held' \in Nat
      <4>1. buflen' \in Nat
        BY <1>1, CellsStep, ConsoleAssumption DEF Cells
      <4> QED
        BY <2>1, <4>1 DEF Held, Cur
    <3> QED
      BY <2>1, <2>5, <2>6, <2>7, <3>1 DEF InOrder
  <2>10. Len(shown') = Len(shown) + buflen
    <3>1. /\ SubSeq(buf, 1, tohost.len) \in Seq(AnyChar \union {Empty})
          /\ Len(SubSeq(buf, 1, tohost.len)) = tohost.len
      BY <1>1, <1>5, <2>1, TakenChars
    <3>2. tohost.len = buflen
      BY <2>7 DEF Write
    <3>3. Len(shown \o SubSeq(buf, 1, tohost.len)) = Len(shown) + Len(SubSeq(buf, 1, tohost.len))
      BY <2>4, <3>1, ConcatFacts
    <3> QED
      BY <2>1, <3>1, <3>2, <3>3
  <2>11. Len(shown') \in Len(shown) + 1 .. Len(printed)
    BY <2>7, <2>8, <2>9, <2>10
  <2>12. shown' = SubSeq(printed, 1, Len(shown'))
    <3>1. \A i \in DOMAIN shown' : shown'[i] = printed[i]
      BY <2>1, <2>5 DEF InOrder
    <3>2. printed \in Seq(AnyChar \union {Empty}) /\ Len(shown') <= Len(printed)
      BY <2>4, <2>8, <2>9
    <3> QED
      BY <2>6, <3>1, <3>2, PrefixOf
  <2>13. Stream!ShowMore
    BY <1>1, <1>5, <2>1, <2>11, <2>12 DEF Stream!ShowMore
  <2> QED
    BY <2>13 DEF Stream!SNext
<1>6. CASE Calm /\ HostTakes /\ tohost.kind = "exit"
  <2>1. status' = "exited" /\ UNCHANGED <<printed, shown>> /\ calls = <<>>
    BY <1>1, <1>6 DEF HostTakes, Ending
  <2>2. \A i \in DOMAIN printed : NewlineChar(printed[i]) => i <= Len(shown)
    BY <1>1, <1>6, <2>1 DEF StreamInv
  <2>3. Stream!LinesShown
    BY <1>6, <2>2 DEF Stream!LinesShown
  <2>4. Stream!Finish
    BY <1>1, <1>6, <2>1, <2>3 DEF Stream!Finish
  <2> QED
    BY <2>4 DEF Stream!SNext
<1> QED
  <2>1. CASE UNCHANGED pfvars
    BY <1>2, <1>3, <2>1 DEF pfvars, pvars, cvars
  <2>2. CASE UartNext
    BY <1>2, <2>2, UartOnly DEF Calm
  <2>3. CASE ConsoleNext
    <3>1. CASE ReadLength \/ HostTakes
      BY <1>2, <1>4, <1>5, <1>6, <3>1
    <3>2. CASE ~ReadLength /\ ~HostTakes
      <4>1. UNCHANGED <<printed, shown>> /\ status = "running" /\ status' # "exited"
        BY <2>3, <3>2
           DEF ConsoleNext, ProgramStep, PutcharStep, StoreChar, TestFull, SendRequest, TakeAnswer, ResetLength,
               ReturnFromHandler, TohostExit, TrapWhilePrinting, HostAnswers, At, Running
      <4> QED
        BY <1>2, <1>3, <4>1
    <3> QED
      BY <3>1, <3>2
  <2> QED
    BY <2>1, <2>2, <2>3 DEF PlatformNext, OnSpike, OnUart

\* Putchar, syscall and tohost_exit do nothing that the stream does not do: whatever is
\* shown has been printed, once and in order, and the exit comes after the last full line.  That each
\* line is shown stays with TLC.
THEOREM StreamSafety == PlatformSpec => Stream!SInit /\ [][Stream!SNext]_(Stream!svars)
<1>1. PlatformInit => Stream!SInit
  <2>1. ASSUME PlatformInit
        PROVE  printed = <<>> /\ shown = <<>> /\ status # "exited"
    BY <2>1 DEF PlatformInit, PrintingInit, ConsoleInit
  <2> QED
    BY <2>1 DEF Stream!SInit
<1>2. PlatformInv /\ [PlatformNext]_pfvars => [Stream!SNext]_(Stream!svars)
  BY StreamOrStutter
<1> QED
  BY <1>1, <1>2, Invariance, PTL DEF PlatformSpec
LEMMA ByteStreamed ==
  ASSUME UartTypes, FifoInv, HasUart, UNCHANGED <<PLAT, code>>, verdict = -1, MaySend, ~called, ~called',
         NEW kind \in Kinds \union {"r"}, WriteByte(kind)
  PROVE  UartStream!PrintChar
<1>1. /\ printed \in Seq(AnyByte) /\ printed' \in Seq(AnyByte) /\ shown \in Seq(AnyByte) /\ shown' \in Seq(AnyByte)
      /\ FifoInv' /\ (shown' = shown \/ Len(shown') = Len(printed'))
  BY ByteWritten
<1>2. PICK b \in AnyByte : printed' = Append(printed, b)
  BY ByteWritten
<1>3. Len(printed') = Len(printed) + 1 /\ Front(printed') = printed /\ Last(printed') = b
  <2>1. printed \in Seq(AnyByte)
    BY <1>1
  <2> QED
    BY ONLY <1>2, <2>1, AppendFacts, AppendedFront
<1>4. HasUart'
  BY DEF HasUart
<1>5. Len(shown') <= Len(printed') /\ \A i \in DOMAIN shown' : shown'[i] = printed'[i]
  <2>1. Len(printed') = Len(shown') + Len(fifo') /\ Len(fifo') \in Nat /\ Len(shown') \in Nat
    BY <1>1, <1>4 DEF FifoInv
  <2> QED
    BY <1>1, <1>4, <2>1 DEF FifoInv
<1>6. shown' = SubSeq(printed', 1, Len(shown'))
  BY <1>1, <1>5, PrefixOf
<1>7. \E n \in {Len(shown), Len(printed')} : shown' = SubSeq(printed', 1, n)
  BY <1>1, <1>6
<1> QED
  BY <1>2, <1>3, <1>4, <1>7 DEF UartStream!PrintChar, UartStream!Front, UartStream!Last, Front, Last

LEMMA UartStreamOrStutter ==
  ASSUME PlatformInv, [PlatformNext]_pfvars
  PROVE  [UartStream!SNext]_(UartStream!svars)
<1>1. /\ UartTypes /\ FifoInv /\ UNCHANGED <<PLAT, text, code>> /\ (HasUart' <=> HasUart)
  BY RunIsFixed DEF PlatformInv, UartInv, HasUart
<1>2. CASE ~HasUart
  BY <1>1, <1>2 DEF UartStream!svars
<1>3. CASE PutCarriageReturn \/ PutChar
  <2>1. PICK kind \in Kinds \union {"r"} : WriteByte(kind)
    <3>1. CASE PutCarriageReturn
      BY <3>1 DEF PutCarriageReturn
    <3>2. CASE PutChar
      <4>1. text \in Seq(Kinds) /\ next \in 1 .. Len(text) /\ WriteByte(text[next])
        BY <1>1, <3>2 DEF PutChar, MoreToPut, UartTypes
      <4>2. text[next] \in Kinds
        BY <4>1
      <4> QED
        BY <4>1, <4>2
    <3> QED
      BY <1>3, <3>1, <3>2
  <2>2. HasUart /\ verdict = -1 /\ MaySend /\ ~called /\ ~called'
    BY <1>3 DEF PutCarriageReturn, PutChar, MoreToPut
  <2>3. UartStream!PrintChar
    BY <1>1, <2>1, <2>2, ByteStreamed
  <2> QED
    BY <2>3 DEF UartStream!SNext
<1>4. CASE DeviceSends
  <2>1. HasUart /\ verdict = -1 /\ Output(Head(fifo)) /\ fifo # <<>> /\ UNCHANGED <<called, printed>>
    BY <1>4 DEF DeviceSends
  <2>2. /\ FifoInv' /\ printed \in Seq(AnyByte) /\ shown \in Seq(AnyByte) /\ shown' \in Seq(AnyByte)
        /\ Len(shown') = Len(shown) + 1 /\ Len(shown') <= Len(printed)
    BY <1>1, <1>4, ByteSent
  <2>3. \A i \in DOMAIN shown' : shown'[i] = printed[i]
    BY <1>1, <2>1, <2>2 DEF FifoInv
  <2>4. shown' = SubSeq(printed, 1, Len(shown'))
    BY <2>2, <2>3, PrefixOf
  <2>5. Len(shown') \in Len(shown) + 1 .. Len(printed)
    BY <2>2
  <2>6. verdict' = -1
    <3>1. ~Instant
      BY <1>1, <2>1 DEF FifoInv
    <3>2. ~Ends(Head(fifo))
      BY <2>1, <3>1, BoardIs DEF Ends
    <3> QED
      BY <2>1, <3>2 DEF Output
  <2>7. UartStream!ShowMore
    BY <1>1, <2>1, <2>4, <2>5, <2>6 DEF UartStream!ShowMore
  <2> QED
    BY <2>7 DEF UartStream!SNext
<1>5. CASE CallExit
  <2>1. HasUart /\ verdict = -1 /\ called' = TRUE /\ UNCHANGED <<fifo, printed, shown>>
    BY <1>5 DEF CallExit
  <2>2. CASE verdict' = -1
    BY <1>1, <2>1, <2>2 DEF UartStream!svars
  <2>3. CASE verdict' # -1
    <3>1. Instant
      <4>1. PLAT \in {"qemu", "rocket_fpga"} => Board[PLAT].end = "wfi"
        <5>1. Board["qemu"].end = "wfi" /\ Board["rocket_fpga"].end = "wfi"
          BY DEF Board
        <5> QED
          BY <5>1
      <4>2. verdict' = CASE Board[PLAT].end = "trap" -> 0
                         [] Board[PLAT].end = "byte" -> OtherBits(code)
                         [] Board[PLAT].end = "wfi"  -> verdict
        BY <1>5 DEF CallExit
      <4>3. Board[PLAT].end = "wfi" => verdict' = verdict
        BY <4>2, Zenon
      <4> QED
        BY <2>1, <2>3, <4>1, <4>3, BoardIs DEF Instant
    <3>2. Len(shown) = Len(printed) /\ printed \in Seq(AnyByte)
      <4>1. fifo = <<>> /\ Len(printed) = Len(shown) + Len(fifo) /\ shown \in Seq(AnyByte) /\ printed \in Seq(AnyByte)
        BY <1>1, <2>1, <3>1 DEF FifoInv
      <4>2. Len(fifo) = 0
        BY <4>1
      <4> QED
        BY <4>1, <4>2
    <3>3. \A i \in DOMAIN printed : i <= Len(shown)
      BY <3>2
    <3>4. UartStream!LinesShown
      BY <2>1, <3>3 DEF UartStream!LinesShown
    <3>5. UartStream!Finish
      BY <1>1, <2>1, <2>3, <3>4 DEF UartStream!Finish
    <3> QED
      BY <3>5 DEF UartStream!SNext
  <2> QED
    BY <2>2, <2>3
<1> QED
  <2>1. CASE UNCHANGED pfvars
    BY <1>1, <2>1 DEF pfvars, pvars, uvars, UartStream!svars
  <2>2. CASE ConsoleNext
    <3>1. PLAT = "spike"
      BY <2>2 DEF ConsoleNext, ProgramStep, PutcharStep, ReadLength, StoreChar, TestFull, SendRequest, TakeAnswer,
                  ResetLength, ReturnFromHandler, TohostExit, TrapWhilePrinting, HostTakes, HostAnswers, At, Running
    <3> QED
      BY <1>2, <3>1, BoardIs
  <2> QED
    BY <1>3, <1>4, <1>5, <2>1, <2>2 DEF PlatformNext, OnSpike, OnUart, UartNext, PutStep

\* Putc and exit do nothing that the stream does not do: no byte is dropped by a FIFO that
\* is full, and on the simulators the end comes after the last full line.
THEOREM UartSafety == PlatformSpec => UartStream!SInit /\ [][UartStream!SNext]_(UartStream!svars)
<1>1. PlatformInit => UartStream!SInit
  <2>1. ASSUME PlatformInit
        PROVE  printed = <<>> /\ shown = <<>> /\ ~called
    BY <2>1 DEF PlatformInit, PrintingInit, UartInit
  <2> QED
    BY <2>1 DEF UartStream!SInit
<1>2. PlatformInv /\ [PlatformNext]_pfvars => [UartStream!SNext]_(UartStream!svars)
  BY UartStreamOrStutter
<1> QED
  BY <1>1, <1>2, Invariance, PTL DEF PlatformSpec
==============================================================================
