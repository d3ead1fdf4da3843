-------------------------------- MODULE Pmm ---------------------------------
(***************************************************************************)
(* The physical memory manager of src/src/memory/pmm.c: a next-fit bitmap  *)
(* allocator over one managed range, whose bitmap lives in the first pages *)
(* of the range it manages.                                                *)
(*                                                                         *)
(* The kernel calls it with interrupts off and on one CPU, so every        *)
(* function is one atomic action.  Addresses are byte addresses; the bit   *)
(* of page p of the managed range is set iff p \in pmm_bitmap.             *)
(* PMM_MANAGED_SIZE is a multiple of 32 pages, so the bitmap has exactly   *)
(* one bit per page, and a bit is out of the bitmap iff its page is out of *)
(* the range.                                                              *)
(***************************************************************************)
EXTENDS Integers, FiniteSets, FiniteSetsExt, Sequences

CONSTANTS
    TotalPages,     \* PMM_MANAGED_SIZE / PMM_PAGE_SIZE (4096 in the build)
    Word,           \* 2^32: uint32_t arithmetic is modulo Word
    Counts,         \* page counts callers pass
    Addrs,          \* addresses callers pass to pmm_free_pages
    RegionStarts,   \* start addresses of the regions callers describe
    RegionSizes     \* and their sizes in bytes

PMM_PAGE_SIZE == 4096
PMM_MANAGED_START == 16908288       \* 0x1020000
PMM_MANAGED_SIZE == TotalPages * PMM_PAGE_SIZE
NULL == 0

ASSUME PmmAssumption ==
    /\ TotalPages \in Nat \ {0}
    /\ Word \in Nat
    /\ Word > PMM_MANAGED_START + PMM_MANAGED_SIZE + PMM_PAGE_SIZE
    /\ Counts \subseteq 0 .. Word - 1
    /\ Addrs \subseteq 0 .. Word - 1
    /\ RegionStarts \subseteq 0 .. Word - 1
    /\ RegionSizes \subseteq 0 .. Word - 1

VARIABLES
    pmm_initialized,
    pmm_bitmap,             \* pages whose bit is set (in use)
    pmm_free_page_count,
    pmm_last_allocated,     \* where the next search starts
    owned,                  \* history: pages handed out and not yet freed
    reserved                \* history: pages of the regions reserved with success

vars == <<pmm_initialized, pmm_bitmap, pmm_free_page_count, pmm_last_allocated,
          owned, reserved>>

Pages == 0 .. TotalPages - 1
NotFound == Word - 1                \* 0xFFFFFFFF

BitmapBytes == ((TotalPages + 31) \div 32) * 4
PagesFor_RoundedDown(bytes) == bytes \div PMM_PAGE_SIZE     \* mutant
PagesFor(bytes) == ((bytes + PMM_PAGE_SIZE - 1) % Word) \div PMM_PAGE_SIZE

pmm_addr_to_page(addr) == addr \div PMM_PAGE_SIZE

\* The pages of the managed range that pmm_init, pmm_reserve_region and
\* pmm_mark_available visit for a region: none of a region that starts below
\* the range, and for the others page_count pages, cut off at the end.
RegionPages(start, size) ==
    LET first == pmm_addr_to_page(start) - pmm_addr_to_page(PMM_MANAGED_START)
    IN  {p \in Pages : /\ start >= PMM_MANAGED_START
                       /\ first <= p
                       /\ p < first + PagesFor(size)}

\* The region table pmm_init builds; the last region starts at the page after
\* the bitmap.
pmm_regions ==
    LET available == PMM_MANAGED_START + PagesFor(BitmapBytes) * PMM_PAGE_SIZE
    IN << [start |-> 32768,  size |-> 98304,    type |-> "KERNEL"],
          [start |-> 131072, size |-> 16777216, type |-> "RESERVED"],
          [start |-> PMM_MANAGED_START, size |-> BitmapBytes, type |-> "RESERVED"],
          [start |-> available,
           size  |-> PMM_MANAGED_SIZE - (available - PMM_MANAGED_START),
           type  |-> "AVAILABLE"] >>

NothingReservedAtInit == {}                                 \* mutant
ReservedAtInit ==
    UNION {RegionPages(pmm_regions[i].start, pmm_regions[i].size) :
              i \in {j \in 1 .. Len(pmm_regions) : pmm_regions[j].type # "AVAILABLE"}}

\* The bits stored in page q of the managed range are those of the pages
\* q * 32768 onwards; the bitmap starts at page 0.
BitsStoredIn(q) == {p \in Pages : p \div (8 * PMM_PAGE_SIZE) = q}

pmm_test_bit(page) == page \notin Pages \/ page \in pmm_bitmap

-----------------------------------------------------------------------------
Init ==
    /\ pmm_initialized = FALSE
    /\ pmm_bitmap = {}
    /\ pmm_free_page_count = 0
    /\ pmm_last_allocated = 0
    /\ owned = {}
    /\ reserved = {}

\* A second call finds pmm_initialized set and changes nothing.
pmm_init ==
    /\ ~pmm_initialized
    /\ pmm_initialized' = TRUE
    /\ pmm_bitmap' = ReservedAtInit
    /\ pmm_free_page_count' = Cardinality(Pages \ ReservedAtInit)
    /\ pmm_last_allocated' = 0
    /\ UNCHANGED <<owned, reserved>>

\* The search walks all pages once from pmm_last_allocated, wrapping round at
\* the end of the range, and stops at the first step whose last n pages were
\* all free.  The wrap does not restart the run.
ScanPage_NoWrap(i) == pmm_last_allocated + i                \* mutant
ScanPage(i) == (pmm_last_allocated + i) % TotalPages

RunEnds_FirstPageUnchecked(n) ==                            \* mutant
    {i \in Pages : n <= i + 1 /\ \A j \in i - n + 2 .. i : ~pmm_test_bit(ScanPage(j))}
RunEnds_StopsShort(n) ==                                    \* mutant
    {i \in 0 .. TotalPages - 2 :
        n <= i + 1 /\ \A j \in i - n + 1 .. i : ~pmm_test_bit(ScanPage(j))}
RunEnds(n) == {i \in Pages : /\ n <= i + 1
                             /\ \A j \in i - n + 1 .. i : ~pmm_test_bit(ScanPage(j))}

pmm_find_free_pages(n) ==
    IF ~pmm_initialized \/ n = 0 \/ RunEnds(n) = {}
    THEN NotFound
    ELSE ScanPage(Min(RunEnds(n)) - n + 1)

\* The same search as the loop of the code has it: its state after the first i
\* iterations, result being what it has returned, or NotFound while it goes on.
LoopStep(n, s, i) ==
    LET page == ScanPage(i)
    IN  IF s.result # NotFound THEN s
        ELSE IF pmm_test_bit(page) THEN [s EXCEPT !.found = 0]
        ELSE LET first == IF s.found = 0 THEN page ELSE s.start_page
             IN  [found |-> s.found + 1, start_page |-> first,
                  result |-> IF s.found + 1 = n THEN first ELSE NotFound]

FindLoop(n) ==
    LET after[i \in 0 .. TotalPages] ==
            IF i = 0 THEN [found |-> 0, start_page |-> 0, result |-> NotFound]
            ELSE LoopStep(n, after[i - 1], i - 1)
    IN  IF ~pmm_initialized \/ n = 0 THEN NotFound ELSE after[TotalPages].result

NextStart_NoWrap(start, n) == start + n                     \* mutant
NextStart(start, n) == (start + n) % TotalPages

AllocRefused(n) ==
    \/ ~pmm_initialized
    \/ n = 0
    \/ pmm_free_page_count < n
    \/ pmm_find_free_pages(n) = NotFound

\* The pages are marked (bits beyond the bitmap are skipped), accounted for,
\* and zeroed: zeroing a page that stores bits of the bitmap clears those bits.
pmm_alloc_pages(n) ==
    LET start == pmm_find_free_pages(n)
        block == start .. start + n - 1
    IN  /\ ~AllocRefused(n)
        /\ pmm_bitmap' = (pmm_bitmap \cup (block \cap Pages))
                            \ UNION {BitsStoredIn(q) : q \in block}
        /\ pmm_free_page_count' = pmm_free_page_count - n
        /\ pmm_last_allocated' = NextStart(start, n)
        /\ owned' = owned \cup block
        /\ UNCHANGED <<pmm_initialized, reserved>>

\* The uint32_t sum of the bounds check may wrap.
StartPage(addr) == (addr - PMM_MANAGED_START) \div PMM_PAGE_SIZE
FreeRefused(addr, n) ==
    \/ ~pmm_initialized
    \/ addr = NULL
    \/ n = 0
    \/ addr % PMM_PAGE_SIZE # 0
    \/ addr < PMM_MANAGED_START
    \/ addr >= PMM_MANAGED_START + PMM_MANAGED_SIZE
    \/ (StartPage(addr) + n) % Word > TotalPages

\* The pages start_page + i, i < n, with the sum taken modulo Word.
FreedPages_OneTooMany(addr, n) ==                           \* mutant
    {p \in Pages : (p - StartPage(addr)) % Word <= n}
FreedPages(addr, n) == {p \in Pages : (p - StartPage(addr)) % Word < n}

\* Freeing a page that is already free is only warned about.
pmm_free_pages(addr, n) ==
    /\ ~FreeRefused(addr, n)
    /\ pmm_bitmap' = pmm_bitmap \ FreedPages(addr, n)
    /\ pmm_free_page_count' = (pmm_free_page_count + n) % Word
    /\ owned' = owned \ FreedPages(addr, n)
    /\ UNCHANGED <<pmm_initialized, pmm_last_allocated, reserved>>

\* The pages a region overlaps, whatever the code makes of it.
TouchedPages(start, size) ==
    {p \in Pages : /\ PMM_MANAGED_START + p * PMM_PAGE_SIZE < start + size
                   /\ start < PMM_MANAGED_START + (p + 1) * PMM_PAGE_SIZE}

pmm_reserve_region(start, size) ==
    LET fresh == RegionPages(start, size) \ pmm_bitmap
    IN  /\ pmm_initialized
        /\ pmm_bitmap' = pmm_bitmap \cup fresh
        /\ pmm_free_page_count' = (pmm_free_page_count - Cardinality(fresh)) % Word
        /\ reserved' = reserved \cup TouchedPages(start, size)
        /\ UNCHANGED <<pmm_initialized, pmm_last_allocated, owned>>

pmm_mark_available(start, size) ==
    LET freed == RegionPages(start, size) \cap pmm_bitmap
    IN  /\ pmm_initialized
        /\ pmm_bitmap' = pmm_bitmap \ freed
        /\ pmm_free_page_count' = (pmm_free_page_count + Cardinality(freed)) % Word
        /\ reserved' = reserved \ RegionPages(start, size)
        /\ UNCHANGED <<pmm_initialized, pmm_last_allocated, owned>>

\* A call the code turns down (NULL or an error code) changes nothing.
RefusedCall ==
    /\ \/ \E n \in Counts : AllocRefused(n)
       \/ \E addr \in Addrs, n \in Counts : FreeRefused(addr, n)
       \/ ~pmm_initialized
    /\ UNCHANGED vars

-----------------------------------------------------------------------------
(***************************************************************************)
(* Callers that keep to the interface: they free pages they own, describe  *)
(* whole-page regions that do not straddle the start of the managed range, *)
(* keep regions off pages in use, and give back only what they reserved.   *)
(***************************************************************************)
OwnPages == 0 .. PagesFor(BitmapBytes) - 1      \* where the bitmap lives

WellFormedRegion(start, size) ==
    /\ start % PMM_PAGE_SIZE = 0
    /\ start >= PMM_MANAGED_START
    /\ size + PMM_PAGE_SIZE <= Word

FreeByOwner(addr, n) ==
    /\ StartPage(addr) .. StartPage(addr) + n - 1 \subseteq owned
    /\ pmm_free_pages(addr, n)

ReserveByContract(start, size) ==
    /\ WellFormedRegion(start, size)
    /\ RegionPages(start, size) \cap owned = {}
    /\ pmm_reserve_region(start, size)

MarkByContract(start, size) ==
    /\ WellFormedRegion(start, size)
    /\ RegionPages(start, size) \cap (owned \cup OwnPages) = {}
    /\ pmm_mark_available(start, size)

Next ==
    \/ pmm_init
    \/ RefusedCall
    \/ \E n \in Counts : pmm_alloc_pages(n)
    \/ \E addr \in Addrs, n \in Counts : FreeByOwner(addr, n)
    \/ \E start \in RegionStarts, size \in RegionSizes :
          ReserveByContract(start, size) \/ MarkByContract(start, size)

Spec == Init /\ [][Next]_vars

-----------------------------------------------------------------------------
(***************************************************************************)
(* Callers that only respect the types of the arguments.                   *)
(***************************************************************************)
AnyNext ==
    \/ pmm_init
    \/ RefusedCall
    \/ \E n \in Counts : pmm_alloc_pages(n)
    \/ \E addr \in Addrs, n \in Counts : pmm_free_pages(addr, n)
    \/ \E start \in RegionStarts, size \in RegionSizes :
          pmm_reserve_region(start, size) \/ pmm_mark_available(start, size)

AnySpec == Init /\ [][AnyNext]_vars

-----------------------------------------------------------------------------
pmm_get_free_memory == IF pmm_initialized THEN pmm_free_page_count * PMM_PAGE_SIZE ELSE 0

FreePages == IF pmm_initialized THEN Pages \ pmm_bitmap ELSE {}
FreeRun(s, n) == s .. s + n - 1 \subseteq FreePages

TypeOK ==
    /\ pmm_initialized \in BOOLEAN
    /\ pmm_bitmap \subseteq Pages
    /\ pmm_free_page_count \in 0 .. TotalPages
    /\ pmm_last_allocated \in Pages
    /\ owned \subseteq Pages
    /\ reserved \subseteq Pages

\* The loop of pmm_find_free_pages returns the start of the first run of n free
\* pages that the definition above describes, or that there is none.
LoopFindsRun == \A n \in Counts : FindLoop(n) = pmm_find_free_pages(n)

\* The running count of free pages, adjusted by every operation on its own,
\* never drifts from the number of clear bits, although an allocation also
\* zeroes memory that could hold the bitmap.
CountExact == pmm_free_page_count = Cardinality(FreePages)

\* Every set bit has one reason: the bitmap's own pages, a page some caller
\* owns, or a region reserved and not given back; and these do not overlap.
BitmapAccounts ==
    pmm_initialized =>
        /\ pmm_bitmap = OwnPages \cup owned \cup reserved
        /\ owned \cap (OwnPages \cup reserved) = {}

\* The next-fit search does not restart its run at the wrap, yet no block it
\* returns wraps round the end of the managed range: the pages of the bitmap
\* stand in the way.
BlockNeverWraps ==
    \A n \in Counts :
        LET s == pmm_find_free_pages(n)
        IN  s # NotFound => s + n <= TotalPages /\ FreeRun(s, n)

\* A single page is found whenever the count says one is free: pmm_alloc_page
\* fails only when memory is exhausted.
SinglePageAlwaysFound ==
    pmm_free_page_count > 0 => pmm_find_free_pages(1) # NotFound

\* When a search for n pages fails, the only free runs of n pages are those
\* the starting point cuts in two.
MissesOnlyAcrossStart ==
    \A n \in Counts \ {0} :
        pmm_initialized /\ pmm_find_free_pages(n) = NotFound =>
            \A s \in Pages : FreeRun(s, n) =>
                s < pmm_last_allocated /\ pmm_last_allocated <= s + n - 1

\* The bitmap allocator implements the abstract frame allocator.
Frame == INSTANCE FrameAllocator WITH
            Frames <- Pages, avail <- FreePages, reported <- pmm_free_page_count
FrameSpec == Frame!Spec

-----------------------------------------------------------------------------
(***************************************************************************)
(* What a comment of the code says and the code does not keep.             *)
(***************************************************************************)
\* pmm.c:370 "Get free memory in bytes", whatever pages callers give back.
FreeMemoryIsReported ==
    pmm_get_free_memory = Cardinality(FreePages) * PMM_PAGE_SIZE
=============================================================================
