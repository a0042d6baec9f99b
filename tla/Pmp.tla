--------------------------------- MODULE Pmp ---------------------------------
(***************************************************************************)
(* The two memory protection units of the hart the tests program, PMP and  *)
(* PMA: a row of entries each, the lowest-numbered one that covers an      *)
(* address deciding.  All entries the code uses are TOR ranges, from the   *)
(* previous entry's address up to their own.  A locked entry ignores       *)
(* writes until the hart is reset and pins the address below its range; in *)
(* the PMP it binds M mode too.  PMA entries bind every mode, and say also *)
(* whether memory is cached and takes atomics.                             *)
(***************************************************************************)
EXTENDS Places

CONSTANTS
  NEntries,   \* the entries of each unit
  Top         \* one past the last physical address; an address of -1 reads as Top

ASSUME PmpAssumption == NEntries \in Nat \ {0} /\ Top \in Nat \ {0}

PmpEntries == 0..(NEntries - 1)
PmpModes   == {"U", "S", "M"}
Addrs      == 0..Top

Units(perms) == [PmpEntries -> [perm : SUBSET perms, tor : BOOLEAN, lock : BOOLEAN, addr : Addrs]]
PmpUnits == Units(Perms)
PmaUnits == Units(Attributes)

Off(entry)  == [entry EXCEPT !.perm = {}, !.tor = FALSE]

\* W without R is reserved; the field keeps what is legal.
Legal(perms) == IF "R" \in perms THEN perms ELSE perms \ {"W"}

Base(pmp, i) == IF i = 0 THEN 0 ELSE pmp[i - 1].addr

Covers(pmp, i, a) == pmp[i].tor /\ Base(pmp, i) <= a /\ a < pmp[i].addr

\* The entry that decides on an address: none, or one
Deciding(pmp, a) ==
  LET covering == {i \in PmpEntries : Covers(pmp, i, a)}
  IN  {i \in covering : \A j \in covering : i <= j}

\* Mode m may use address a in all the ways of needs.
Permits(pmp, m, needs, a) ==
  LET deciding == Deciding(pmp, a)
  IN  /\ m # "M" => deciding # {}
      /\ \A i \in deciding : m # "M" \/ pmp[i].lock => needs \subseteq pmp[i].perm

\* Memory no PMA entry covers is not there.
Provides(pma, needs, a) == \E i \in Deciding(pma, a) : needs \subseteq pma[i].perm

(***************************************************************************)
(* CSR writes.                                                             *)
(***************************************************************************)
Written(pmp, i, e) == IF pmp[i].lock THEN pmp ELSE [pmp EXCEPT ![i] = e]

\* CSRS and CSRC of one entry's R, W, X and A bits
WriteCfg(pmp, i, perms, tor) ==
  Written(pmp, i, [pmp[i] EXCEPT !.perm = Legal(perms), !.tor = tor])

WriteLock(pmp, i) == Written(pmp, i, [pmp[i] EXCEPT !.lock = TRUE])

\* A write of a whole register of eight entries, of which the first becomes a
\* TOR entry with the given permissions and the others are turned off.
WriteCfgReg(pmp, first, perms, tor) ==
  [i \in PmpEntries |->
     IF i \notin first..(first + 7) \/ pmp[i].lock THEN pmp[i]
     ELSE IF i = first THEN [pmp[i] EXCEPT !.perm = Legal(perms), !.tor = tor]
     ELSE Off(pmp[i])]

Pinned(pmp, i) ==
  pmp[i].lock \/ (i + 1 \in PmpEntries /\ pmp[i + 1].lock /\ pmp[i + 1].tor)

WriteAddr(pmp, i, a) == IF Pinned(pmp, i) THEN pmp ELSE [pmp EXCEPT ![i].addr = a]

(***************************************************************************)
(* The part of reset_state that concerns the PMP: pmpcfg0 = 0xf,           *)
(* pmpaddr0 = -1.  It leaves the PMA alone.                                *)
(***************************************************************************)
\* Mutated form: reset_state writes the address first register only.
BadResetPmp(pmp) == WriteAddr(pmp, 0, Top)

ResetPmp(pmp) == WriteAddr(WriteCfgReg(pmp, 0, Perms, TRUE), 0, Top)

\* The units when the hart comes out of reset: all memory is cached and takes
\* atomics, by an entry the tests do not use but to replace it.
PmaAtPowerOn ==
  [i \in PmpEntries |->
     IF i = NEntries - 1 THEN [perm |-> Attributes, tor |-> TRUE, lock |-> FALSE, addr |-> Top]
     ELSE [perm |-> {}, tor |-> FALSE, lock |-> FALSE, addr |-> 0]]

PmpAtPowerOn == [i \in PmpEntries |-> [perm |-> {}, tor |-> FALSE, lock |-> FALSE, addr |-> 0]]
===============================================================================
