----------------------------- MODULE OutputStream -----------------------------
(***************************************************************************)
(* What a console promises the program that prints: characters are shown   *)
(* once, in the order they were printed, a line is shown when its newline  *)
(* is printed, and the end of the program comes after its last full line.  *)
(***************************************************************************)
EXTENDS Sequences, Integers, SequencesExt

CONSTANTS Chars, Newlines           \* Newlines \subseteq Chars

VARIABLES printed, shown, over

svars == <<printed, shown, over>>

LinesShown == \A i \in DOMAIN printed : printed[i] \in Newlines => i <= Len(shown)

SInit == printed = <<>> /\ shown = <<>> /\ over = FALSE

\* A character may be shown at once.
PrintChar ==
  /\ Len(printed') = Len(printed) + 1 /\ Front(printed') = printed /\ Last(printed') \in Chars
  /\ \E n \in {Len(shown), Len(printed')} : shown' = SubSeq(printed', 1, n)
  /\ UNCHANGED over

ShowMore ==
  /\ \E n \in Len(shown) + 1 .. Len(printed) : shown' = SubSeq(printed, 1, n)
  /\ UNCHANGED <<printed, over>>

Finish ==
  /\ LinesShown
  /\ over' = TRUE
  /\ UNCHANGED <<printed, shown>>

SNext == PrintChar \/ ShowMore \/ Finish

\* A line does not wait for the next one.
SSpec ==
  /\ SInit /\ [][SNext]_svars
  /\ WF_svars(ShowMore /\ ~LinesShown)
===============================================================================
