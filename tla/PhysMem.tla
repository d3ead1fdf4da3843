------------------------------ MODULE PhysMem -------------------------------
(***************************************************************************)
(* The two page allocators of the kernel together.  kernel_main calls      *)
(* pmm_init and then paging_init, whose init_free_list takes its pool from *)
(* HEAP_START + HEAP_SIZE: the address 0x1020000 that pmm.h calls          *)
(* PMM_MANAGED_START.  Page p of Pmm and frame p + 1 of FreeList are the   *)
(* same memory, so each allocator zeroes what the other keeps there.       *)
(***************************************************************************)
EXTENDS Integers, FiniteSets

CONSTANTS TotalPages, Word, Counts, Addrs, RegionStarts, RegionSizes,
          MaxFrames, InitialPool, WalkLimit, ClientWords

VARIABLES pmm_initialized, pmm_bitmap, pmm_free_page_count, pmm_last_allocated,
          owned, reserved,
          free_list_head, next, next_free_page, total_pages_allocated,
          total_pages_freed, inuse, misused, astray,
          booted            \* paging_init has run

P == INSTANCE Pmm
L == INSTANCE FreeList

pmmVars == <<pmm_initialized, pmm_bitmap, pmm_free_page_count, pmm_last_allocated,
             owned, reserved>>
listVars == <<free_list_head, next, next_free_page, total_pages_allocated,
              total_pages_freed, inuse, misused, astray>>
vars == <<pmmVars, listVars, booted>>

Init ==
    /\ P!Init
    /\ free_list_head = 0
    /\ next = [f \in L!Frames |-> 0]
    /\ next_free_page = 1
    /\ total_pages_allocated = 0
    /\ total_pages_freed = 0
    /\ inuse = {}
    /\ misused = FALSE
    /\ astray = FALSE
    /\ booted = FALSE

\* The bits of the bitmap that zeroing the pages clears.
BitsIn(pages) == UNION {P!BitsStoredIn(p) : p \in pages}

pmm_init == P!pmm_init /\ UNCHANGED <<listVars, booted>>

\* init_free_list zeroes every page of the pool and links it; the first page
\* linked, page 0, gets the link NULL.
paging_init ==
    /\ pmm_initialized /\ ~booted
    /\ booted' = TRUE
    /\ free_list_head' = InitialPool
    /\ next' = L!InitialLinks(next)
    /\ next_free_page' = InitialPool + 1
    /\ pmm_bitmap' = pmm_bitmap \ BitsIn(0 .. InitialPool - 1)
    /\ UNCHANGED <<pmm_initialized, pmm_free_page_count, pmm_last_allocated, owned,
                   reserved, total_pages_allocated, total_pages_freed, inuse, misused, astray>>

\* Page tables come from the list.  The page that holds the bitmap is last on
\* it, and the kernel never gets that far.
TakeTable ==
    /\ booted
    /\ free_list_head \notin {0, 1}
    /\ L!AllocateFromList
    /\ UNCHANGED <<pmmVars, booted>>

\* The bitmap allocator zeroes the pages it hands out, links included.
pmm_alloc_pages ==
    /\ booted
    /\ \E n \in Counts :
          /\ P!pmm_alloc_pages(n)
          /\ next' = [f \in L!Frames |-> IF f - 1 \in owned' \ owned THEN 0 ELSE next[f]]
    /\ UNCHANGED <<free_list_head, next_free_page, total_pages_allocated,
                   total_pages_freed, inuse, misused, astray, booted>>

Next == pmm_init \/ paging_init \/ TakeTable \/ pmm_alloc_pages

Spec == Init /\ [][Next]_vars

-----------------------------------------------------------------------------
\* pmm.c:108 "Add bitmap region (reserved)": once pmm_init has reserved the
\* pages of its bitmap they stay in use, and are never handed out.
BitmapStaysReserved == pmm_initialized => P!OwnPages \subseteq pmm_bitmap /\ P!OwnPages \cap owned = {}

=============================================================================
