-------------------------------- MODULE Places --------------------------------
(***************************************************************************)
(* The addresses the tests use, as places in their order, and the test     *)
(* pages.  pmpaddr and pmaaddr hold an address divided by four; the places *)
(* of their operands are those of the addresses meant.                     *)
(***************************************************************************)
EXTENDS Integers, Sequences

RamBase == 1                        \* 0x80000000
Code    == 2                        \* .boot to .bss
Hspt(k) == 3 + k                    \* the page hspt[k], k in 0..4
Stack   == 8                        \* the harness' stacks
I81     == 9                        \* 0x81000000
I81in   == 10
I82     == 11

\* The test pages the scripts use.  Their own order does not matter.
PageOrder ==
  <<"VSURWX_GRWX", "VSURWX_GURWX", "VSRWX_GRWX", "VSRW_GRWX", "VSR_GRWX", "VSX_GRWX",
    "VSI_GI", "VSRW_GRW", "VSX_GX", "VSUX_GX", "VSRWX_GURWX", "VSRW_GURWX", "VSW_GI", "VSV_GV",
    "VSR_GURWX", "VSR_GUR", "VSX_GUX", "VSRWX_GUX", "VSR_GR", "VSUR_GR", "VSR_GX", "VSRX_GX",
    "VSX_GURWX", "VSRX_GRWX", "VSRW_GURW", "VSRW_GR", "VSURW_GR", "VSRWX_GR",
    "VSRWX_GX">>

Pages == {PageOrder[i] : i \in DOMAIN PageOrder}

PageNumber == [p \in Pages |-> (CHOOSE i \in DOMAIN PageOrder : PageOrder[i] = p) - 1]

\* One place for the inside of a page and one for its end
phys_page_base(p) == 12 + 2 * PageNumber[p]

Giga3 == 70                         \* 0xc0000000, mapped by hspt[1][3]

hs_page_base(p) == 71 + 2 * PageNumber[p]

Mega0   == 129                      \* 0x140000000, mapped by hspt[3][0]
A80     == 130                      \* 0x80000000 << 2
A80in   == 131                      \* 0x80000100 << 2
A80mid  == 132                      \* 0x80300000 << 2
A81     == 133
A82     == 134
A83     == 135
A88     == 136
A88in   == 137                      \* 0x88100000 << 2
A89     == 138
A8f     == 139
A90     == 140
A9f     == 141
A120    == 142                      \* 0x120000000 << 2
A1ff    == 143                      \* 0x1fffffffe << 2
A800    == 144                      \* 0x800000000
A803    == 145                      \* 0x800030000
A810    == 146                      \* 0x810000000
Tera1   == 147                      \* 0x8000000000, mapped by hspt[0][1]
Ac00    == 148                      \* 0xC000000000 << 2
A1000   == 149                      \* 0x10000000000 << 2
A1000in == 150                      \* 0x10000000004 << 2
Afff    == 151                      \* 0xFFFFFFFFFFF << 2
EndOfMemory == 152                  \* pmpaddr = -1
Beyond  == 153                      \* past the physical and the virtual addresses

\* What one can do with memory, and what it can provide
Perms      == {"R", "W", "X"}
Attributes == Perms \union {"cached", "atomic"}
===============================================================================
