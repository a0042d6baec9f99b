--------------------------------- MODULE Uart ---------------------------------
(***************************************************************************)
(* Printing and ending on the platforms with a UART: uartlite on NEMU and  *)
(* XiangShan, the 8250 of QEMU's virt board, and the Zynq UART of the      *)
(* Rocket FPGA.  The program writes bytes into the transmit FIFO, and the  *)
(* device sends them on.                                                   *)
(***************************************************************************)
EXTENDS Printing

CONSTANT FifoSize

\* poll: what putc waits for.  end: what exit does.
Board ==
  [nemu        |-> [poll |-> "not full", end |-> "trap"],
   xiangshan   |-> [poll |-> "none",     end |-> "byte"],
   qemu        |-> [poll |-> "empty",    end |-> "wfi"],
   rocket_fpga |-> [poll |-> "not full", end |-> "wfi"]]

\* No code a program gives looks like 0 in its lower seven bits.
ASSUME UartAssumption ==
  /\ FifoSize \in Nat \ {0}
  /\ \A c \in ExitCodes : c % 128 = 0 => c = 0

VARIABLES
  next,               \* the next character of text
  cr,                 \* the carriage return of this newline has been written
  called,             \* exit has been called
  fifo,               \* the transmit FIFO
  verdict             \* -1 while the simulator or host runs on, else its exit code
uvars == <<next, cr, called, fifo, verdict>>

\* A byte and its place in the output
Byte(i, kind) == <<i, kind>>
High(b) == b[2] = "h"                   \* bit 7 is set

UartInit == next = 1 /\ cr = FALSE /\ called = FALSE /\ fifo = <<>> /\ verdict = -1

\* The simulators send a byte as it is written: their status register is always 0.
HasUart == PLAT \in DOMAIN Board
Instant == PLAT \in {"nemu", "xiangshan"}

\* Seeded bugs: no poll before a byte, and a poll for the opposite.
BadMaySend == TRUE
BadPoll    == CASE Board[PLAT].poll = "none" -> TRUE [] OTHER -> Len(fifo) = FifoSize

MaySend ==
  CASE Board[PLAT].poll = "none"     -> TRUE
    [] Board[PLAT].poll = "empty"    -> fifo = <<>>
    [] Board[PLAT].poll = "not full" -> Len(fifo) < FifoSize

\* emu.cpp ends the simulation at a byte with bit 7, with the others as the code.
Ends(b)  == Board[PLAT].end = "byte" /\ High(b)
\* Seeded bug: the code is shifted as for Spike.
BadCodeBits(n)  == (2 * n + 1) % 128
OtherBits(n) == n % 128
TextByte     == 232                     \* 0xe8 begins the first of the Chinese texts

Output(b) ==
  /\ shown' = Append(shown, b)
  /\ verdict' = IF Ends(b) THEN OtherBits(TextByte) ELSE verdict

\* A byte written into a full FIFO is lost.
WriteByte(kind) ==
  LET b == Byte(Len(printed) + 1, kind)
  IN  /\ printed' = Append(printed, b)
      /\ IF Instant THEN Output(b) /\ UNCHANGED fifo
         ELSE /\ fifo' = IF Len(fifo) < FifoSize THEN Append(fifo, b) ELSE fifo
              /\ UNCHANGED <<shown, verdict>>

MoreToPut == HasUart /\ next <= Len(text) /\ verdict = -1 /\ ~called

PutCarriageReturn ==
  /\ MoreToPut /\ text[next] = "n" /\ ~cr /\ MaySend
  /\ WriteByte("r")
  /\ cr' = TRUE
  /\ UNCHANGED <<next, called>>

PutChar ==
  /\ MoreToPut /\ (text[next] = "n" => cr) /\ MaySend
  /\ WriteByte(text[next])
  /\ next' = next + 1 /\ cr' = FALSE
  /\ UNCHANGED <<called>>

\* exit(code): nemu_trap(0) whatever the code, the exit byte, or wfi for ever
CallExit ==
  /\ HasUart /\ next > Len(text) /\ ~called /\ verdict = -1
  /\ called' = TRUE
  /\ verdict' = CASE Board[PLAT].end = "trap" -> 0
                   [] Board[PLAT].end = "byte" -> OtherBits(code)
                   [] Board[PLAT].end = "wfi"  -> verdict
  /\ UNCHANGED <<next, cr, fifo, printed, shown>>

DeviceSends ==
  /\ HasUart /\ fifo # <<>> /\ verdict = -1
  /\ fifo' = Tail(fifo)
  /\ Output(Head(fifo))
  /\ UNCHANGED <<next, cr, called, printed>>

PutStep == PutCarriageReturn \/ PutChar \/ CallExit
UartNext == PutStep \/ DeviceSends

(***************************************************************************)
(* Properties.                                                             *)
(***************************************************************************)
EndedByText == HasUart /\ shown # <<>> /\ High(Last(shown))

AnyByte == Nat \X (Kinds \union {"r"})

\* putc implements the stream of OutputStream on every platform with a UART: the poll
\* before each byte keeps the FIFO from dropping one, and on the simulators the end comes
\* after the last line.
UartStream ==
  INSTANCE OutputStream WITH
    Chars <- AnyByte, Newlines <- {b \in AnyByte : b[2] = "n"},
    printed <- IF HasUart THEN printed ELSE <<>>, shown <- IF HasUart THEN shown ELSE <<>>,
    over <- HasUart /\ called /\ verdict # -1
UartService == UartStream!SSpec

\* All that is printed is shown, and exit is reached: no poll waits for ever.  Only a
\* byte with bit 7 on XiangShan ends the run before.
AllIsShown == HasUart => <>((called \/ EndedByText) /\ shown = printed)

\* On XiangShan the byte of exit and the text share the UART.  The simulation ends with
\* a good trap exactly if the program gave 0, or it was a text with bit 7 that ended it.
VerdictIsTheExitCode ==
  HasUart /\ Board[PLAT].end = "byte" /\ verdict # -1 =>
    \/ called /\ (verdict = 0 <=> code = 0)
    \/ EndedByText
===============================================================================
