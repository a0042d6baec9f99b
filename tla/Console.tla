------------------------------- MODULE Console -------------------------------
(***************************************************************************)
(* Printing and ending on Spike: putchar's line buffer, the request cells  *)
(* tohost and fromhost, and the host that polls them.  A trap may come     *)
(* while a character is printed, and its handler prints too.               *)
(***************************************************************************)
EXTENDS Printing

CONSTANTS
  BufSize,            \* sizeof(buf), 64 in the code
  Traps               \* the traps a run may meet: where in putchar, and what they print

\* Where a call of putchar is: before it reads buflen, before it stores the character
\* and the new length, before it tests for a full buffer, before it writes tohost, in the
\* loop that waits for fromhost, before it clears buflen.
Points == {"call", "store", "test", "send", "wait", "reset"}

ASSUME ConsoleAssumption ==
  /\ BufSize \in Nat \ {0}
  /\ \A t \in Traps :
       /\ t.at \subseteq Points
       /\ t.returns \in BOOLEAN       \* VERBOSE and DEBUG lines, or ERROR, which exits
       /\ t.text \in Seq(Kinds)       \* what the handler prints
       /\ ~t.returns /\ t.text # <<>> => Last(t.text) = "n"

VARIABLES
  trap,               \* the member of Traps of this run
  calls,              \* the running printfs: the program's, and a handler's above it
  buf, buflen,
  tohost, fromhost,
  answers,            \* the host's answers that wait for fromhost to be clear
  status              \* "running", "exited", or "overrun": a store past buf
cvars == <<trap, calls, buf, buflen, tohost, fromhost, answers, status>>

\* A character is who prints it, its place in the text, and whether it ends a line.
Text(who) == IF who = "main" THEN text ELSE trap.text
Char(who, i) == <<who, i, Text(who)[i]>>
NewlineChar(c) == c[3] = "n"

Empty == <<"none", 0, "c">>
None  == [kind |-> "none", len |-> 0]
Exit  == [kind |-> "exit", len |-> 0]
Write(n) == [kind |-> "write", len |-> n]

Call(who) == [who |-> who, next |-> 1, at |-> "call", index |-> 0]

ConsoleInit ==
  /\ trap \in Traps
  /\ calls = <<Call("main")>>
  /\ buf = [i \in 1..BufSize |-> Empty] /\ buflen = 0
  /\ tohost = None /\ fromhost = 0 /\ answers = 0
  /\ status = "running"

Running == PLAT = "spike" /\ status = "running" /\ calls # <<>>
Cur     == Last(calls)
CurChar == Char(Cur.who, Cur.next)
Goto(c) == calls' = Append(Front(calls), c)

At(p) == Running /\ Cur.at = p
More  == Cur.next <= Len(Text(Cur.who))

(***************************************************************************)
(* putchar and syscall.                                                    *)
(***************************************************************************)
\* buf[buflen++] = ch reads buflen first ...
ReadLength ==
  /\ At("call") /\ More
  /\ Goto([Cur EXCEPT !.at = "store", !.index = buflen])
  /\ printed' = Append(printed, CurChar)
  /\ UNCHANGED <<trap, buf, buflen, tohost, fromhost, answers, shown, status>>

\* Seeded bug: the length skips a character.
BadStoreChar ==
  /\ At("store")
  /\ buf' = [buf EXCEPT ![Cur.index + 1] = CurChar]
  /\ buflen' = Cur.index + 2
  /\ Goto([Cur EXCEPT !.at = "test"])
  /\ UNCHANGED <<trap, tohost, fromhost, answers, printed, shown, status>>

\* ... and stores later.  Past buf nothing is known any more.
StoreChar ==
  /\ At("store")
  /\ IF Cur.index < BufSize
     THEN /\ buf' = [buf EXCEPT ![Cur.index + 1] = CurChar]
          /\ buflen' = Cur.index + 1
          /\ Goto([Cur EXCEPT !.at = "test"])
          /\ UNCHANGED status
     ELSE /\ status' = "overrun"
          /\ UNCHANGED <<buf, buflen, calls>>
  /\ UNCHANGED <<trap, tohost, fromhost, answers, printed, shown>>

\* Seeded bug: > for ==, the test comes one character late.
BadTestFull ==
  /\ At("test")
  /\ IF NewlineChar(CurChar) \/ buflen > BufSize
     THEN Goto([Cur EXCEPT !.at = "send", !.index = buflen])
     ELSE Goto([Cur EXCEPT !.at = "call", !.next = @ + 1])
  /\ UNCHANGED <<trap, buf, buflen, tohost, fromhost, answers, printed, shown, status>>

TestFull ==
  /\ At("test")
  /\ IF NewlineChar(CurChar) \/ buflen = BufSize
     THEN Goto([Cur EXCEPT !.at = "send", !.index = buflen])
     ELSE Goto([Cur EXCEPT !.at = "call", !.next = @ + 1])
  /\ UNCHANGED <<trap, buf, buflen, tohost, fromhost, answers, printed, shown, status>>

\* Seeded bug: the buffer is given free before the host has it.
BadSendRequest ==
  /\ At("send")
  /\ tohost' = Write(Cur.index)
  /\ buflen' = 0
  /\ Goto([Cur EXCEPT !.at = "wait"])
  /\ UNCHANGED <<trap, buf, fromhost, answers, printed, shown, status>>

SendRequest ==
  /\ At("send")
  /\ tohost' = Write(Cur.index)
  /\ Goto([Cur EXCEPT !.at = "wait"])
  /\ UNCHANGED <<trap, buf, buflen, fromhost, answers, printed, shown, status>>

\* Seeded bug: fromhost keeps the answer.
BadTakeAnswer ==
  /\ At("wait") /\ fromhost # 0
  /\ Goto([Cur EXCEPT !.at = "reset"])
  /\ UNCHANGED <<trap, buf, buflen, tohost, fromhost, answers, printed, shown, status>>

TakeAnswer ==
  /\ At("wait") /\ fromhost # 0
  /\ fromhost' = 0
  /\ Goto([Cur EXCEPT !.at = "reset"])
  /\ UNCHANGED <<trap, buf, buflen, tohost, answers, printed, shown, status>>

\* Seeded bug: the next line begins behind the last.
BadResetLength ==
  /\ At("reset")
  /\ Goto([Cur EXCEPT !.at = "call", !.next = @ + 1])
  /\ UNCHANGED <<trap, buf, buflen, tohost, fromhost, answers, printed, shown, status>>

ResetLength ==
  /\ At("reset")
  /\ buflen' = 0
  /\ Goto([Cur EXCEPT !.at = "call", !.next = @ + 1])
  /\ UNCHANGED <<trap, buf, tohost, fromhost, answers, printed, shown, status>>

\* A handler that printed VERBOSE lines returns to the call it interrupted.
ReturnFromHandler ==
  /\ At("call") /\ ~More /\ Len(calls) > 1 /\ trap.returns
  /\ calls' = Front(calls)
  /\ UNCHANGED <<trap, buf, buflen, tohost, fromhost, answers, printed, shown, status>>

\* Seeded bug: without the | 1 an exit with code 0 is no request at all.
BadTohostExit ==
  /\ At("call") /\ ~More /\ (Len(calls) = 1 \/ ~trap.returns)
  /\ tohost' = None
  /\ calls' = <<>>
  /\ UNCHANGED <<trap, buf, buflen, fromhost, answers, printed, shown, status>>

\* exit: at the end of main, and in ERROR.  tohost_exit waits for nobody.
TohostExit ==
  /\ At("call") /\ ~More /\ (Len(calls) = 1 \/ ~trap.returns)
  /\ tohost' = Exit
  /\ calls' = <<>>
  /\ UNCHANGED <<trap, buf, buflen, fromhost, answers, printed, shown, status>>

\* One trap in a run comes while the program prints (the bound of this model).
TrapWhilePrinting ==
  /\ Running /\ Len(calls) = 1 /\ Cur.at \in trap.at
  /\ \A i \in DOMAIN printed : printed[i][1] = "main"
  /\ calls' = Append(calls, Call("handler"))
  /\ UNCHANGED <<trap, buf, buflen, tohost, fromhost, answers, printed, shown, status>>

(***************************************************************************)
(* The host: takes a request and clears tohost, and answers when the last  *)
(* answer has been taken.  It reads the buffer when it takes the request.  *)
(***************************************************************************)
HostTakes ==
  /\ PLAT = "spike" /\ status = "running" /\ tohost # None
  /\ tohost' = None
  /\ IF tohost.kind = "exit"
     THEN status' = "exited" /\ UNCHANGED <<shown, answers>>
     ELSE /\ shown' = shown \o SubSeq(buf, 1, tohost.len)
          /\ answers' = answers + 1
          /\ UNCHANGED status
  /\ UNCHANGED <<trap, calls, buf, buflen, fromhost, printed>>

HostAnswers ==
  /\ PLAT = "spike" /\ status = "running" /\ answers > 0 /\ fromhost = 0
  /\ fromhost' = 1 /\ answers' = answers - 1
  /\ UNCHANGED <<trap, calls, buf, buflen, tohost, printed, shown, status>>

PutcharStep == ReadLength \/ StoreChar \/ TestFull \/ SendRequest \/ TakeAnswer \/ ResetLength
ProgramStep == PutcharStep \/ ReturnFromHandler \/ TohostExit

ConsoleNext == ProgramStep \/ TrapWhilePrinting \/ HostTakes \/ HostAnswers

(***************************************************************************)
(* Properties.                                                             *)
(***************************************************************************)
ConsoleTypeOK ==
  /\ buflen \in 0..BufSize /\ fromhost \in {0, 1} /\ answers \in 0..2
  /\ tohost \in {None, Exit} \union {Write(n) : n \in 0..BufSize}
  /\ status \in {"running", "exited", "overrun"}
  /\ Len(calls) <= 2

HandlerPrinted == \E i \in DOMAIN printed : printed[i][1] = "handler"

\* The places main has reached: its characters up to, not including, the last
Before == {c \in ToSet(printed) : c[1] = "main" /\ \E d \in ToSet(printed) : d[1] = "main" /\ d[2] > c[2]}

AnyChar == {"main", "handler"} \X Nat \X Kinds

\* putchar implements the stream of OutputStream when traps come between two
\* characters only and their handlers return: nothing is lost, repeated or reordered by
\* the buffer or by the two cells, each full line is shown, and the end comes after the
\* last one.
Calm == PLAT = "spike" /\ trap.at \subseteq {"call"} /\ trap.returns

Stream ==
  INSTANCE OutputStream WITH
    Chars <- AnyChar, Newlines <- {c \in AnyChar : NewlineChar(c)},
    printed <- IF Calm THEN printed ELSE <<>>, shown <- IF Calm THEN shown ELSE <<>>,
    over <- Calm /\ status = "exited"
StreamService == Stream!SSpec

\* The program always gets its exit through to the host: no wait for fromhost in
\* syscall is for an answer that never comes.  Only a store past buf is worse.
ExitArrives == PLAT = "spike" => <>(status \in {"exited", "overrun"})

\* An ERROR in the middle of a putchar may lose its own line and the character under
\* way, but nothing printed before: the handler finds it in buf, or the host has it.
ErrorKeepsWhatCameBefore ==
  status = "exited" /\ HandlerPrinted /\ ~trap.returns => Before \subseteq ToSet(shown)

\* putchar compares buflen with sizeof(buf) after each store, so that a store past buf
\* takes a trap between the store that fills it and the assignment that empties it.
OverrunNeedsFullBuffer ==
  status = "overrun" =>
    /\ Len(calls) = 2 /\ calls[1].at \in {"test", "send", "wait", "reset"}
    /\ calls[1].at # "test" => calls[1].index = BufSize

\* In an answer there is never more than what the host still owes the calls that wait: an
\* answer left over would end the next wait before its request is read.  Only an ERROR
\* inside a wait leaves one, to a program that has ended.
NoStaleAnswer ==
  status = "running" /\ (calls # <<>> \/ trap.at \subseteq {"call"}) =>
    answers + fromhost <= Cardinality({i \in DOMAIN calls : calls[i].at = "wait"})
===============================================================================
