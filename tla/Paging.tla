-------------------------------- MODULE Paging --------------------------------
(***************************************************************************)
(* The tables hspt_init builds and the edits of page_tables.c (the Sv48    *)
(* build), the hart's walk over them, and its TLB.                         *)
(***************************************************************************)
EXTENDS Places

\* The bits of a page table entry.  "overflow" is a PPN too large for the hart, and
\* "misaligned" one that does not fit the size of its superpage.
Flags == {"V", "R", "W", "X", "U", "G", "A", "D", "reserved", "overflow", "misaligned"}

\* hspt[1][0..2] map all below 0xc0000000, the harness included, to itself; "1G",
\* "2M" and "512G" are hspt[1][3], hspt[3][0] and hspt[0][1].
Supers == {"giga", "1G", "2M", "512G"}

\* hspt[0][0], hspt[1][4] and hspt[2][0] lead to the test pages.
Pointers == 0..2
Marks    == {"ok", "invalid", "reserved", "overflow"}

\* Every edit of hspt[4] is one of the whole table: bits added to, or removed from,
\* what hspt_init wrote.
Tables ==
  [pointer : [Pointers -> Marks], super : [Supers -> SUBSET Flags],
   added : SUBSET Flags, removed : SUBSET Flags]

\* test_page_perm_table[p].vs
PagePerm(p) ==
  CASE p = "VSI_GI" -> {}
    [] p = "VSV_GV" -> {"V"}
    [] p = "VSW_GI" -> {"V", "W"}
    [] p \in {"VSR_GRWX", "VSR_GURWX", "VSR_GUR", "VSR_GR", "VSR_GX"} -> {"V", "R"}
    [] p \in {"VSRW_GRWX", "VSRW_GRW", "VSRW_GURWX", "VSRW_GURW", "VSRW_GR"} -> {"V", "R", "W"}
    [] p \in {"VSRX_GX", "VSRX_GRWX"} -> {"V", "R", "X"}
    [] p \in {"VSX_GRWX", "VSX_GX", "VSX_GUX", "VSX_GURWX"} -> {"V", "X"}
    [] p \in {"VSRWX_GRWX", "VSRWX_GURWX", "VSRWX_GUX", "VSRWX_GR", "VSRWX_GX"} -> {"V", "R", "W", "X"}
    [] p = "VSUR_GR" -> {"V", "U", "R"}
    [] p = "VSURW_GR" -> {"V", "U", "R", "W"}
    [] p = "VSUX_GX" -> {"V", "U", "X"}
    [] OTHER -> {"V", "U", "R", "W", "X"}    \* VSURWX_GRWX, VSURWX_GURWX

LeafFlags(t, x) ==
  IF x \in Supers THEN t.super[x]
  ELSE (PagePerm(x) \union {"A", "D"} \union t.added) \ t.removed

(***************************************************************************)
(* The setups of page_tables.c.                                            *)
(***************************************************************************)
Plain == {"V", "R", "W", "X", "A", "D"}

\* hspt_init writes every entry but hspt[0][1].
InitTables(t) ==
  [pointer |-> [k \in Pointers |-> "ok"],
   super |-> [s \in Supers |-> IF s = "512G" THEN t.super[s] ELSE Plain],
   added |-> {}, removed |-> {}]

EditLeaves(t, add, del) ==
  [t EXCEPT !.added = (@ \union add) \ del, !.removed = (@ \union del) \ add]

hspt_u_mode_allow_no_leaf(t) ==
  [t EXCEPT !.super = [s \in Supers |-> IF s = "512G" THEN @[s] ELSE @[s] \union {"U"}]]

hspt_u_mode_allow(t) == EditLeaves(hspt_u_mode_allow_no_leaf(t), {"U"}, {})

\* The superpage setups: a fresh entry, with an aligned PPN or one that is not
SetSuper(t, s, aligned) ==
  [t EXCEPT !.super[s] = IF aligned THEN Plain ELSE Plain \union {"misaligned"}]

SetPointer(t, k, mark) == [t EXCEPT !.pointer[k] = mark]

\* .bss before the first hspt_init
TablesAtStart ==
  [pointer |-> [k \in Pointers |-> "invalid"], super |-> [s \in Supers |-> {}],
   added |-> {}, removed |-> {"V"}]

(***************************************************************************)
(* The walk.                                                               *)
(***************************************************************************)
\* The leaf that maps address a: none, or one
LeafAt(a) ==
  CASE a < Giga3 -> {"giga"}
    [] a = Giga3 -> {"1G"}
    [] a = Mega0 -> {"2M"}
    [] a = Tera1 -> {"512G"}
    [] OTHER     -> {p \in Pages : hs_page_base(p) = a}

\* The superpages map to the same place: no boundary of the PMP or PMA tells the
\* places of their virtual and their physical addresses apart.
Translated(x, a) == IF x \in Pages THEN phys_page_base(x) ELSE a

\* The tables the walk to leaf x reads, by their index in hspt
Path(x) ==
  CASE x \in Pages         -> <<0, 1, 2, 4>>
    [] x = "2M"            -> <<0, 1, 3>>
    [] x \in {"giga", "1G"} -> <<0, 1>>
    [] x = "512G"          -> <<0>>

PointerFault(t, x, k) ==
  LET mark == IF k = 0 \/ x \in Pages THEN t.pointer[k] ELSE "ok"
  IN  CASE mark = "ok"                      -> "none"
        [] mark = "overflow"                -> "access"
        [] mark \in {"invalid", "reserved"} -> "page"

\* An entry without R and X is a pointer, which the last table may not hold.
Malformed(f) ==
  \/ "V" \notin f
  \/ "W" \in f /\ "R" \notin f
  \/ f \intersect {"R", "X"} = {}
  \/ f \intersect {"reserved", "misaligned"} # {}

LeafFault(f) ==
  IF Malformed(f) THEN "page" ELSE IF "overflow" \in f THEN "access" ELSE "none"

FaultAt(t, x, readable, i) ==
  IF Path(x)[i] \notin readable THEN "access"
  ELSE IF i < Len(Path(x)) THEN PointerFault(t, x, Path(x)[i])
  ELSE LeafFault(LeafFlags(t, x))

\* The first fault on the way to x, given the tables the hart may read
WalkFault(t, x, readable) ==
  LET bad == {i \in DOMAIN Path(x) : FaultAt(t, x, readable, i) # "none"}
  IN  IF bad = {} THEN "none"
      ELSE FaultAt(t, x, readable, CHOOSE i \in bad : \A j \in bad : i <= j)

\* A leaf with flags f lets mode m use its page in the ways of needs.  The hart
\* leaves A and D to software.  st holds mstatus.SUM and MXR.
Grants(f, m, needs, st) ==
  /\ "A" \in f /\ ("W" \in needs => "D" \in f)
  /\ needs \subseteq f \union (IF st.mxr /\ "X" \in f THEN {"R"} ELSE {})
  /\ IF m = "U" THEN "U" \in f ELSE "U" \in f => st.sum /\ "X" \notin needs

(***************************************************************************)
(* The TLB keeps one translation of a test page or a superpage until a     *)
(* fence asks for its removal; the harness' own pages are walked anew.     *)
(***************************************************************************)
Asids   == {"0", "0x1234"}
Entries == [page : Pages \union Supers, asid : Asids, flags : SUBSET Flags]

Hits(tlb, x, asid) == {e \in tlb : e.page = x /\ (e.asid = asid \/ "G" \in e.flags)}

Fill(tlb, xs, asid, t) ==
  {e \in tlb : e.page \notin xs}
    \union {[page |-> x, asid |-> asid, flags |-> LeafFlags(t, x)] : x \in xs}

\* sfence_vma_rs of the address of page x: with an ASID global entries stay.
Flushed(tlb, x, asid) ==
  {e \in tlb : ~(e.page = x /\ (asid = "all" \/ (e.asid = asid /\ "G" \notin e.flags)))}
===============================================================================
