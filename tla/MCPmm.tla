------------------------------- MODULE MCPmm --------------------------------
(***************************************************************************)
(* Small instances of Pmm for TLC.                                         *)
(***************************************************************************)
EXTENDS Pmm

Base == PMM_MANAGED_START
PageAddr(p) == Base + p * PMM_PAGE_SIZE

MCWord == 268435456

\* Every page count up to one more than the range, and the largest uint32_t.
MCCounts == 0 .. TotalPages + 1 \cup {Word - 1}
SmallCounts == {1, 2}

\* Every page of the range, and the addresses the guards turn down: NULL,
\* below the range, beyond it, and not on a page boundary.
PageAddrs == {PageAddr(p) : p \in 0 .. TotalPages - 1}
MCAddrs == PageAddrs \cup {NULL, Base - PMM_PAGE_SIZE, PageAddr(TotalPages), PageAddr(2) + 100}

\* Regions below the range, inside it, and at its end.
MCRegionStarts == {32768, PageAddr(3), PageAddr(TotalPages - 1)}
MCRegionSizes == {0, 1, 2 * PMM_PAGE_SIZE}
None == {}
=============================================================================
