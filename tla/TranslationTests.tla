--------------------------- MODULE TranslationTests ---------------------------
(***************************************************************************)
(* The fence tests of translation_tests.c, as the steps of TestProgram: an *)
(* access succeeds, a flag is taken from the leaves, and the access        *)
(* succeeds until a fence lets the hart see the tables.                    *)
(***************************************************************************)
EXTENDS TestSteps

Page == hs_page_base("VSRWX_GX")

Paged == Goto("HS") \o HsptInit

\* From HS.  Behind the fence the access, or what it is then, ends as given.
Removed(k, flag, then, c) ==
  Expect(k, Page, "none") \o Goto("M") \o Del(flag) \o Goto("HS") \o Expect(k, Page, "none")
    \o Fence \o Expect(then, Page, c)

\* A ret instruction is written to the page before it is called.
CallRemoved(flag, then, c) ==
  Access("store", Page) \o Fence \o Setup \o Removed("call", flag, then, c)

VTests ==
  [fence_test_1 |->
     Paged \o Removed("load", "V", "load", "LPF") \o Paged \o Fence \o Removed("store", "V", "store", "SPF")
       \o Paged \o Fence \o CallRemoved("V", "exec", "IPF")]

PermissionTests ==
  [fence_test_2 |->
     Paged \o Removed("store", "W", "store", "SPF") \o Paged \o Removed("load", "R", "load", "LPF")
       \o Paged \o CallRemoved("X", "exec", "IPF")]

\* Without R, W is a reserved encoding.
OtherPermissionTests ==
  [fence_test_3 |->
     Paged \o CallRemoved("W", "call", "none") \o Paged \o CallRemoved("R", "exec", "IPF")
       \o Paged \o Fence \o Removed("store", "X", "store", "none")
       \o Paged \o Fence \o Removed("load", "W", "load", "none")
       \o Paged \o Fence \o Removed("load", "X", "load", "none")]

\* A fence for an address that is not the page's leaves its translation.
OtherAddress ==
  [fence_test_4 |->
     Tvm(FALSE) \o Paged \o Access("store", Page) \o Goto("M") \o Del("V") \o Goto("HS")
       \o FenceRs("none", "0") \o Expect("load", Page, "none")
       \o Fence \o Expect("load", Page, "LPF")]

Tests == VTests @@ PermissionTests @@ OtherPermissionTests @@ OtherAddress
===============================================================================
