----------------------------- MODULE MCPlatforms -----------------------------
(* A line buffer of three characters, and all texts of up to five characters, or   *)
(* of up to three with bytes that have bit 7.  The exit codes are those of main,   *)
(* of ERROR without logging, of abort and of handle_trap.                          *)
EXTENDS Platforms

AllPLATs  == {"spike"} \union DOMAIN Board
TextsOf(S, longest) == UNION {[1..n -> S] : n \in 0..longest}
MCTexts   == TextsOf({"c", "n"}, 5) \union TextsOf(Kinds, 3)
CodesUsed == {0, -1, 134, 1337}

\* A VERBOSE line between two characters, and an ERROR anywhere
MCTraps ==
  {[at |-> {"call"}, returns |-> TRUE, text |-> <<"c", "n">>],
   [at |-> Points, returns |-> FALSE, text |-> <<"c", "c", "n">>],
   [at |-> {}, returns |-> TRUE, text |-> <<>>]}
===============================================================================
