------------------------- MODULE MCKernelAllocator -------------------------
(***************************************************************************)
(* Two cores and two nodes: one with base pages and a large page, one with  *)
(* a large page.  A large page freed under the affinity of the other node   *)
(* meets the one that is there.                                             *)
(***************************************************************************)
EXTENDS KernelAllocator, TLC

CONSTANTS c1, c2, b1, b2, b3, l1, l2

HomeOf == [f \in {b1, b2, b3, l1, l2} |-> IF f = l2 THEN 2 ELSE 1]

\* The sizes of regions: one page of each kind, and both.
Regions == {<<1, 0>>, <<1, 1>>}

\* A big object of base pages, and one with so many that a large page is used.
BigObjects == {<<1, 0>>, <<2, 0>>}

\* Cores are interchangeable, and so are the base pages.
Interchangeable ==
    Permutations({c1, c2}) \cup Permutations({b1, b2, b3})
=============================================================================
