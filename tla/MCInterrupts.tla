----------------------------- MODULE MCInterrupts -----------------------------
(***************************************************************************)
(* The interrupt tests on harts with and without the H extension, and      *)
(* every short program that enables, raises and delegates interrupts.      *)
(***************************************************************************)
EXTENDS Interrupts, TLC

T == INSTANCE InterruptTests

\* The wfi tests that leave an enabled interrupt pending or whose wfi is refused
AwakeTests == {"wfi_1", "wfi_4", "wfi_9", "wfi_10", "wfi_11", "wfi_13", "wfi_15", "wfi_16"}

\* Short programs, named by the letters of their pieces: announce, up to Longest
\* pieces, and the end
Longest == 3
Piece   ==
  [e |-> T!Set("mie", {"SEI", "MEI"}),
   d |-> T!Set("mideleg", {"SEI"}) \o T!Set("mie", {"SEI", "MEI"}), p |-> T!Set("mip", {"SEI"}),
   m |-> T!Set("mstatus", {"MIE"}), s |-> T!Setup, w |-> T!Wfi, u |-> T!Goto("HU"), r |-> T!Goto("M"),
   v |-> T!Set("mstatus", {"SIE"}) \o T!Goto("VS")]

Words ==
  LET f[n \in 0..Longest] ==
        IF n = 0 THEN {""} ELSE f[n - 1] \union {w \o l : w \in f[n - 1], l \in DOMAIN Piece}
  IN  f[Longest]

Short(w) ==
  LET f[i \in 0..Len(w)] == IF i = 0 THEN T!Setup ELSE f[i - 1] \o Piece[SubSeq(w, i, i)]
  IN  f[Len(w)] \o T!End

ShortNames   == {w \in Words : ThroughM(Short(w))}
ShortScripts == [w \in ShortNames |-> Short(w)]

AllScripts == ShortScripts @@ T!WfiTests @@ T!ExternalTests

Hart(h, waits, driven, tests, max) ==
  [h |-> h, waits |-> waits, pins |-> driven, tests |-> tests, max |-> max]

AllHarts ==
  [WithH    |-> Hart(TRUE,  FALSE, {}, WfiTests, 2),
   Plain    |-> Hart(FALSE, FALSE, {}, WfiTests, 2),
   External |-> Hart(FALSE, FALSE, {"MEI", "SEI"}, ExternalTests, 2),
   Driven   |-> Hart(FALSE, TRUE,  {"MEI", "SEI"}, ShortNames, 1),
   Waiting  |-> Hart(TRUE,  TRUE,  {}, AwakeTests, 2)]
===============================================================================
