----------------------------- MODULE PmmProofs ------------------------------
(***************************************************************************)
(* Proofs about Pmm, for every number of pages and every set of arguments. *)
(*                                                                         *)
(* The inductive invariant is TypeOK, BitmapAccounts and CountExact        *)
(* together with what holds before pmm_init.  BitmapAccounts is what makes *)
(* it inductive: because the first page, which stores the bitmap, never    *)
(* becomes free, a run of free pages cannot wrap round the end of the      *)
(* range, and zeroing a block never clears bits of the bitmap.             *)
(***************************************************************************)
EXTENDS Pmm, ProofLemmas, FiniteSetTheorems, TLAPS

IInv ==
    /\ TypeOK
    /\ CountExact
    /\ BitmapAccounts
    /\ ~pmm_initialized => owned = {} /\ reserved = {}

-----------------------------------------------------------------------------
(***************************************************************************)
(* Arithmetic.                                                             *)
(***************************************************************************)
\* The bitmap fits in the range it manages, and its pages hold the bits of
\* all pages.
LEMMA BitmapFits ==
    /\ PagesFor(BitmapBytes) \in 1 .. TotalPages
    /\ \A p \in Pages : p \div (8 * PMM_PAGE_SIZE) < PagesFor(BitmapBytes)
  <1> USE PmmAssumption
  <1> DEFINE bytes == ((TotalPages + 31) \div 32) * 4
  <1>1. bytes \in Nat /\ bytes + 4095 < Word
    BY DEF PMM_MANAGED_START, PMM_MANAGED_SIZE, PMM_PAGE_SIZE
  <1>2. PagesFor(BitmapBytes) = (bytes + 4095) \div 4096
    <2>1. BitmapBytes = bytes
      BY DEF BitmapBytes
    <2> HIDE DEF bytes
    <2>2. bytes + 4096 - 1 = bytes + 4095
      BY <1>1
    <2>3. (bytes + 4095) % Word = bytes + 4095
      BY <1>1, ModSmall
    <2> QED
      BY <2>1, <2>2, <2>3 DEF PagesFor, PMM_PAGE_SIZE
  <1>3. (bytes + 4095) \div 4096 \in 1 .. TotalPages
    OBVIOUS
  <1>4. ASSUME NEW p \in 0 .. TotalPages - 1
        PROVE  p \div (8 * 4096) < (bytes + 4095) \div 4096
    OBVIOUS
  <1> QED
    BY <1>2, <1>3, <1>4 DEF Pages, PMM_PAGE_SIZE

\* The bitmap's pages are in the range, the first page is one of them, and no
\* other page stores bits of it.
LEMMA OwnPagesFacts ==
    /\ OwnPages \subseteq Pages
    /\ 0 \in OwnPages
    /\ \A q \in Pages \ OwnPages : BitsStoredIn(q) = {}
  <1> USE PmmAssumption, BitmapFits
  <1>1. OwnPages \subseteq Pages /\ 0 \in OwnPages
    BY DEF OwnPages, Pages
  <1>2. ASSUME NEW q \in Pages \ OwnPages, NEW p \in BitsStoredIn(q)
        PROVE  FALSE
    <2>1. p \in Pages /\ p \div (8 * PMM_PAGE_SIZE) = q
      BY DEF BitsStoredIn
    <2>2. q \in Nat /\ q >= PagesFor(BitmapBytes)
      BY DEF OwnPages, Pages
    <2> QED
      BY <2>1, <2>2
  <1> QED
    BY <1>1, <1>2

\* Pages of a region described in whole pages: those the code visits are
\* those the region overlaps.
LEMMA WellFormedPages ==
    ASSUME NEW start \in RegionStarts, NEW size \in RegionSizes,
           WellFormedRegion(start, size)
    PROVE  RegionPages(start, size) = TouchedPages(start, size)
  <1> USE PmmAssumption
  <1>1. start \in Nat /\ size \in Nat /\ size + 4096 <= Word
    BY DEF WellFormedRegion, PMM_PAGE_SIZE
  <1>2. start % 4096 = 0 /\ start >= 16908288
    BY DEF WellFormedRegion, PMM_PAGE_SIZE, PMM_MANAGED_START
  <1>3. PagesFor(size) = (size + 4095) \div 4096
    <2>1. size + 4096 - 1 = size + 4095
      BY <1>1
    <2>2. (size + 4095) % Word = size + 4095
      BY <1>1, ModSmall
    <2> QED
      BY <2>1, <2>2 DEF PagesFor, PMM_PAGE_SIZE
  <1> DEFINE first == (start \div 4096) - 4128
  <1>4. pmm_addr_to_page(start) - pmm_addr_to_page(PMM_MANAGED_START) = first
    BY DEF pmm_addr_to_page, PMM_PAGE_SIZE, PMM_MANAGED_START
  <1>5. ASSUME NEW p \in Pages
        PROVE  /\ 16908288 + p * 4096 < start + size
                    <=> p < first + ((size + 4095) \div 4096)
               /\ start < 16908288 + (p + 1) * 4096 <=> first <= p
    BY <1>1, <1>2 DEF Pages
  <1> HIDE DEF first
  <1>6. RegionPages(start, size)
          = {p \in Pages : first <= p /\ p < first + ((size + 4095) \div 4096)}
    BY <1>2, <1>3, <1>4 DEF RegionPages, PMM_MANAGED_START
  <1>7. TouchedPages(start, size)
          = {p \in Pages : /\ 16908288 + p * 4096 < start + size
                           /\ start < 16908288 + (p + 1) * 4096}
    BY DEF TouchedPages, PMM_MANAGED_START, PMM_PAGE_SIZE
  <1> QED
    BY <1>5, <1>6, <1>7

\* The regions pmm_init reserves come to the pages of the bitmap: the kernel
\* and the low 16 megabytes lie below the managed range.
LEMMA InitReservesOwnPages == ReservedAtInit = OwnPages
  <1> USE PmmAssumption
  <1>1. \A size : RegionPages(32768, size) = {} /\ RegionPages(131072, size) = {}
    BY DEF RegionPages, PMM_MANAGED_START
  <1>2. RegionPages(PMM_MANAGED_START, BitmapBytes) = OwnPages
    <2>1. RegionPages(PMM_MANAGED_START, BitmapBytes)
            = {p \in Pages : p < PagesFor(BitmapBytes)}
      BY BitmapFits DEF RegionPages, PMM_MANAGED_START, pmm_addr_to_page, PMM_PAGE_SIZE,
                        Pages
    <2> QED
      BY <2>1, BitmapFits DEF OwnPages, Pages
  <1>3. {j \in 1 .. Len(pmm_regions) : pmm_regions[j].type # "AVAILABLE"} = {1, 2, 3}
    BY DEF pmm_regions
  <1>4. /\ RegionPages(pmm_regions[1].start, pmm_regions[1].size) = {}
        /\ RegionPages(pmm_regions[2].start, pmm_regions[2].size) = {}
        /\ RegionPages(pmm_regions[3].start, pmm_regions[3].size) = OwnPages
    BY <1>1, <1>2 DEF pmm_regions
  <1>5. ReservedAtInit =
          UNION {RegionPages(pmm_regions[i].start, pmm_regions[i].size) : i \in {1, 2, 3}}
    BY <1>3 DEF ReservedAtInit
  <1> QED
    BY <1>4, <1>5

-----------------------------------------------------------------------------
(***************************************************************************)
(* The search.                                                             *)
(***************************************************************************)
\* The scan visits pages from pmm_last_allocated up, then from 0.
LEMMA ScanPageValue ==
    ASSUME pmm_last_allocated \in Pages, NEW i \in Pages
    PROVE  /\ ScanPage(i) \in Pages
           /\ pmm_last_allocated + i < TotalPages
                => ScanPage(i) = pmm_last_allocated + i
           /\ pmm_last_allocated + i >= TotalPages
                => ScanPage(i) = pmm_last_allocated + i - TotalPages
  <1> USE PmmAssumption
  <1>1. pmm_last_allocated \in Nat /\ i \in Nat
        /\ pmm_last_allocated < TotalPages /\ i < TotalPages
    BY DEF Pages
  <1>2. CASE pmm_last_allocated + i < TotalPages
    <2>1. (pmm_last_allocated + i) % TotalPages = pmm_last_allocated + i
      BY <1>1, <1>2, ModSmall
    <2> QED
      BY <1>1, <1>2, <2>1 DEF ScanPage, Pages
  <1>3. CASE pmm_last_allocated + i >= TotalPages
    <2>1. (pmm_last_allocated + i) % TotalPages = (pmm_last_allocated + i) - TotalPages
      <3>1. pmm_last_allocated + i \in TotalPages .. 2 * TotalPages - 1
        BY <1>1, <1>3
      <3> QED
        BY <3>1, ModOnce, Zenon
    <2> QED
      BY <1>1, <1>3, <2>1 DEF ScanPage, Pages
  <1> QED
    BY <1>1, <1>2, <1>3

\* What a search that fails says.
LEMMA SearchFails ==
    ASSUME NEW n \in Nat \ {0}, pmm_initialized, pmm_last_allocated \in Pages
    PROVE  pmm_find_free_pages(n) = NotFound <=> RunEnds(n) = {}
  <1> USE PmmAssumption
  <1>1. ASSUME RunEnds(n) # {} PROVE pmm_find_free_pages(n) # NotFound
    <2> DEFINE i == Min(RunEnds(n))
    <2>1. RunEnds(n) \in SUBSET Nat
      BY DEF RunEnds, Pages
    <2>2. i \in RunEnds(n)
      BY <1>1, <2>1, MinExists
    <2>3. i \in Pages /\ n <= i + 1
      BY <2>2 DEF RunEnds
    <2>4. i - n + 1 \in Pages
      BY <2>3 DEF Pages
    <2>5. ScanPage(i - n + 1) \in Pages
      BY <2>4, ScanPageValue
    <2>6. pmm_find_free_pages(n) = ScanPage(i - n + 1)
      BY <1>1 DEF pmm_find_free_pages
    <2> QED
      BY <2>5, <2>6 DEF Pages, NotFound, PMM_MANAGED_START, PMM_MANAGED_SIZE, PMM_PAGE_SIZE
  <1> QED
    BY <1>1 DEF pmm_find_free_pages

\* The states the loop goes through.
LoopState == [found : Nat, start_page : Nat, result : Nat]

\* A step of the loop goes from one to the next.
LEMMA LoopStepTyped ==
    ASSUME TypeOK, NEW n \in Nat, NEW s \in LoopState, NEW i \in Pages
    PROVE  LoopStep(n, s, i) \in LoopState
  <1>1. ScanPage(i) \in Nat
    BY ScanPageValue DEF TypeOK, Pages
  <1>2. NotFound \in Nat
    BY PmmAssumption DEF NotFound, PMM_MANAGED_START, PMM_MANAGED_SIZE, PMM_PAGE_SIZE
  <1> QED
    BY <1>1, <1>2 DEF LoopStep, LoopState

\* FindLoop goes through them.
LEMMA LoopStates ==
    ASSUME TypeOK, pmm_initialized, NEW n \in Nat \ {0}
    PROVE  \E f : /\ f \in [0 .. TotalPages -> LoopState]
                  /\ f[0] = [found |-> 0, start_page |-> 0, result |-> NotFound]
                  /\ \A i \in Pages : f[i + 1] = LoopStep(n, f[i], i)
                  /\ FindLoop(n) = f[TotalPages].result
  <1> USE PmmAssumption
  <1> DEFINE a == [found |-> 0, start_page |-> 0, result |-> NotFound]
             p == [i \in Nat |-> IF i = 0 THEN 0 ELSE i - 1]
             step == [i \in Nat |-> [s \in LoopState |->
                         IF i - 1 \in Pages THEN LoopStep(n, s, i - 1) ELSE s]]
             IsLoop(f) == f = [i \in 0 .. TotalPages |->
                                  IF i = 0 THEN a ELSE LoopStep(n, f[i - 1], i - 1)]
  <1>1. a \in LoopState
    BY DEF LoopState, NotFound, PMM_MANAGED_START, PMM_MANAGED_SIZE, PMM_PAGE_SIZE
  <1>2. p \in [Nat -> Nat] /\ \A i \in Nat \ {0} : p[i] < i
    OBVIOUS
  <1>3. step \in [Nat -> [LoopState -> LoopState]]
    BY LoopStepTyped
  <1> HIDE DEF a, step
  <1>4. PICK g : Solves(g, LoopState, a, p, step)
    <2>1. IsRecursion(LoopState, a, p, step)
      BY <1>1, <1>2, <1>3 DEF IsRecursion
    <2> HIDE DEF p
    <2> QED
      BY <2>1, RecursionExists
  <1>5. ASSUME NEW i \in 1 .. TotalPages PROVE g[i] = LoopStep(n, g[i - 1], i - 1)
    <2>1. g[i] = step[i][g[i - 1]] /\ g[i - 1] \in LoopState /\ i - 1 \in Pages
      BY <1>4 DEF Pages, Solves
    <2> QED
      BY <2>1 DEF step
  <1> DEFINE f == [i \in 0 .. TotalPages |-> g[i]]
  <1>6. IsLoop(f)
    <2>1. \A i \in 0 .. TotalPages :
              g[i] = IF i = 0 THEN a ELSE LoopStep(n, g[i - 1], i - 1)
      BY <1>4, <1>5 DEF Solves
    <2>2. ASSUME NEW i \in 0 .. TotalPages
          PROVE  f[i] = IF i = 0 THEN a ELSE LoopStep(n, f[i - 1], i - 1)
      <3>1. CASE i = 0
        BY <2>1, <3>1
      <3>2. CASE i # 0
        <4>1. i - 1 \in 0 .. TotalPages
          BY <3>2
        <4>2. f[i] = g[i] /\ f[i - 1] = g[i - 1]
          BY <4>1
        <4> QED
          BY <2>1, <3>2, <4>2
      <3> QED
        BY <3>1, <3>2
    <2>3. f = [i \in 0 .. TotalPages |-> f[i]]
      OBVIOUS
    <2> HIDE DEF f
    <2> QED
      BY <2>2, <2>3
  <1> DEFINE h == CHOOSE after : IsLoop(after)
  <1>7. IsLoop(h)
    <2> HIDE DEF IsLoop, f
    <2> QED
      BY <1>6
  <1>8. FindLoop(n) = h[TotalPages].result
    BY DEF FindLoop, a
  <1> HIDE DEF h
  <1>9. h[0] = a
    BY <1>7
  <1>10. ASSUME NEW i \in Pages PROVE h[i + 1] = LoopStep(n, h[i], i)
    BY <1>7 DEF Pages
  <1>11. \A i \in Nat : i <= TotalPages => h[i] \in LoopState
    <2> DEFINE S == {i \in Nat : i <= TotalPages => h[i] \in LoopState}
    <2>1. 0 \in S
      BY <1>1, <1>9
    <2>2. ASSUME NEW i \in S PROVE i + 1 \in S
      BY <1>10, LoopStepTyped DEF Pages
    <2>3. S = Nat
      <3>1. S \in SUBSET Nat
        OBVIOUS
      <3> HIDE DEF S
      <3> QED
        BY <2>1, <2>2, <3>1, SimpleInduction
    <2> QED
      BY <2>3
  <1>12. h \in [0 .. TotalPages -> LoopState]
    <2>1. h = [i \in 0 .. TotalPages |-> h[i]]
      BY <1>7
    <2> QED
      BY <1>11, <2>1
  <1> QED
    BY <1>8, <1>9, <1>10, <1>12 DEF a

\* What the loop knows after i iterations: the run of free pages it is in, or
\* the first run long enough.
LoopKnows(n, s, i) ==
    \/ /\ s.result = NotFound
       /\ \A k \in RunEnds(n) : k >= i
       /\ s.found \in 0 .. i /\ s.found < n
       /\ \A j \in i - s.found .. i - 1 : ~pmm_test_bit(ScanPage(j))
       /\ s.found < i => pmm_test_bit(ScanPage(i - s.found - 1))
       /\ s.found > 0 => s.start_page = ScanPage(i - s.found)
    \/ /\ s.result # NotFound
       /\ RunEnds(n) # {}
       /\ s.result = ScanPage(Min(RunEnds(n)) - n + 1)

\* A step of the loop keeps that.
LEMMA LoopStepKnows ==
    ASSUME TypeOK, NEW n \in Nat \ {0}, NEW i \in Pages, NEW s \in LoopState,
           LoopKnows(n, s, i)
    PROVE  LoopKnows(n, LoopStep(n, s, i), i + 1)
  <1> DEFINE page == ScanPage(i)
             t == LoopStep(n, s, i)
  <1>1. /\ page \in Pages /\ i \in Nat /\ s.found \in Nat
        /\ \A j \in Pages : ScanPage(j) \in Pages /\ ScanPage(j) # NotFound
    <2>1. \A j \in Pages : ScanPage(j) \in Pages
      BY ScanPageValue DEF TypeOK
    <2> QED
      BY <2>1, PmmAssumption
         DEF Pages, LoopState, NotFound, PMM_MANAGED_START, PMM_MANAGED_SIZE, PMM_PAGE_SIZE
  <1> HIDE DEF page
  <1>2. CASE s.result # NotFound
    BY <1>2 DEF LoopStep, LoopKnows
  <1>3. CASE s.result = NotFound
    <2>1. /\ \A k \in RunEnds(n) : k >= i
          /\ s.found \in 0 .. i /\ s.found < n
          /\ \A j \in i - s.found .. i - 1 : ~pmm_test_bit(ScanPage(j))
          /\ s.found < i => pmm_test_bit(ScanPage(i - s.found - 1))
          /\ s.found > 0 => s.start_page = ScanPage(i - s.found)
      BY <1>3 DEF LoopKnows
    <2>2. CASE pmm_test_bit(page)
      <3>1. t.found = 0 /\ t.result = NotFound
        BY <1>3, <2>2 DEF LoopStep, LoopState, page
      <3>2. i \notin RunEnds(n)
        <4>1. i \in i - n + 1 .. i
          BY <1>1
        <4> QED
          BY <2>2, <4>1 DEF RunEnds, page
      <3>3. \A k \in RunEnds(n) : k >= i + 1
        BY <1>1, <2>1, <3>2 DEF RunEnds, Pages
      <3>4. (i + 1) - 0 - 1 = i
        BY <1>1
      <3> HIDE DEF t
      <3>5. \A j \in i + 1 - t.found .. (i + 1) - 1 : ~pmm_test_bit(ScanPage(j))
        BY <1>1, <3>1
      <3>6. pmm_test_bit(ScanPage((i + 1) - t.found - 1))
        BY <2>2, <3>1, <3>4 DEF page
      <3>7. LoopKnows(n, t, i + 1)
        BY <1>1, <3>1, <3>3, <3>5, <3>6 DEF LoopKnows
      <3> QED
        BY <3>7 DEF t
    <2>3. CASE ~pmm_test_bit(page)
      <3> DEFINE first == IF s.found = 0 THEN page ELSE s.start_page
      <3>1. t = [found |-> s.found + 1, start_page |-> first,
                 result |-> IF s.found + 1 = n THEN first ELSE NotFound]
        BY <1>3, <2>3 DEF LoopStep, page
      <3>2. first = ScanPage(i - s.found)
        <4>1. s.found = 0 => i - s.found = i
          BY <1>1
        <4> QED
          BY <1>1, <2>1, <4>1 DEF page
      <3>3. \A j \in i - s.found .. i : ~pmm_test_bit(ScanPage(j))
        <4> SUFFICES ASSUME NEW j \in i - s.found .. i PROVE ~pmm_test_bit(ScanPage(j))
          OBVIOUS
        <4>1. j = i \/ j \in i - s.found .. i - 1
          BY <1>1
        <4> QED
          BY <2>1, <2>3, <4>1 DEF page
      <3> HIDE DEF first, t
      <3>4. CASE s.found + 1 = n
        <4>1. i \in RunEnds(n)
          <5>1. n <= i + 1 /\ i - n + 1 = i - s.found
            BY <1>1, <2>1, <3>4
          <5> QED
            BY <3>3, <5>1 DEF RunEnds
        <4>2. Min(RunEnds(n)) = i
          <5>1. RunEnds(n) \in SUBSET Nat
            BY DEF RunEnds, Pages
          <5>2. Min(RunEnds(n)) \in RunEnds(n) /\ Min(RunEnds(n)) <= i
            BY <4>1, <5>1, MinExists
          <5> QED
            BY <1>1, <2>1, <5>1, <5>2
        <4>3. i - n + 1 = i - s.found /\ i - s.found \in Pages
          BY <1>1, <2>1, <3>4, PmmAssumption DEF Pages
        <4>4. t.result = ScanPage(Min(RunEnds(n)) - n + 1) /\ t.result # NotFound
          BY <1>1, <3>1, <3>2, <3>4, <4>2, <4>3
        <4> QED
          BY <4>1, <4>4 DEF LoopKnows, t
      <3>5. CASE s.found + 1 # n
        <4>1. t.found = s.found + 1 /\ t.start_page = first /\ t.result = NotFound
          BY <3>1, <3>5
        <4>2. i \notin RunEnds(n)
          <5> SUFFICES ASSUME i \in RunEnds(n) PROVE FALSE
            OBVIOUS
          <5>1. n <= i + 1 /\ \A j \in i - n + 1 .. i : ~pmm_test_bit(ScanPage(j))
            BY DEF RunEnds
          <5>2. s.found < i /\ i - s.found - 1 \in i - n + 1 .. i
            BY <1>1, <2>1, <3>5, <5>1
          <5> QED
            BY <2>1, <5>1, <5>2
        <4>3. \A k \in RunEnds(n) : k >= i + 1
          BY <1>1, <2>1, <4>2 DEF RunEnds, Pages
        <4>4. (i + 1) - t.found = i - s.found /\ (i + 1) - 1 = i
          BY <1>1, <4>1
        <4>5. t.found \in 0 .. i + 1 /\ t.found < n
          BY <1>1, <2>1, <3>5, <4>1
        <4>6. t.found < i + 1 => s.found < i
          BY <1>1, <4>1
        <4>7. LoopKnows(n, t, i + 1)
          BY <2>1, <3>2, <3>3, <4>1, <4>3, <4>4, <4>5, <4>6 DEF LoopKnows
        <4> QED
          BY <4>7 DEF t
      <3> QED
        BY <3>4, <3>5
    <2> QED
      BY <2>2, <2>3
  <1> QED
    BY <1>2, <1>3

\* The loop computes what pmm_find_free_pages is defined to be.
LEMMA LoopComputes ==
    ASSUME TypeOK, NEW n \in Nat
    PROVE  FindLoop(n) = pmm_find_free_pages(n)
  <1>1. CASE ~pmm_initialized \/ n = 0
    BY <1>1 DEF FindLoop, pmm_find_free_pages
  <1>2. CASE pmm_initialized /\ n # 0
    <2>1. PICK f : /\ f \in [0 .. TotalPages -> LoopState]
                   /\ f[0] = [found |-> 0, start_page |-> 0, result |-> NotFound]
                   /\ \A i \in Pages : f[i + 1] = LoopStep(n, f[i], i)
                   /\ FindLoop(n) = f[TotalPages].result
      BY <1>2, LoopStates
    <2> DEFINE S == {i \in Nat : i <= TotalPages => LoopKnows(n, f[i], i)}
    <2>2. 0 \in S
      BY <1>2, <2>1 DEF LoopKnows, RunEnds, Pages
    <2>3. ASSUME NEW i \in S PROVE i + 1 \in S
      <3> SUFFICES ASSUME i + 1 <= TotalPages PROVE LoopKnows(n, f[i + 1], i + 1)
        OBVIOUS
      <3>1. i \in Pages /\ f[i] \in LoopState /\ LoopKnows(n, f[i], i)
        BY <2>1, PmmAssumption DEF Pages
      <3> QED
        BY <1>2, <2>1, <3>1, LoopStepKnows
    <2>4. S = Nat
      <3>1. S \in SUBSET Nat
        OBVIOUS
      <3> HIDE DEF S
      <3> QED
        BY <2>2, <2>3, <3>1, SimpleInduction
    <2>5. LoopKnows(n, f[TotalPages], TotalPages)
      BY <2>4, PmmAssumption
    <2>6. ASSUME RunEnds(n) # {} PROVE ~ \A k \in RunEnds(n) : k >= TotalPages
      <3>1. PICK k \in RunEnds(n) : TRUE
        BY <2>6
      <3>2. k \in 0 .. TotalPages - 1
        BY <3>1 DEF RunEnds, Pages
      <3>3. k < TotalPages
        BY <3>2, PmmAssumption
      <3> QED
        BY <3>1, <3>2, <3>3, PmmAssumption
    <2> QED
      BY <1>2, <2>1, <2>5, <2>6 DEF LoopKnows, pmm_find_free_pages
  <1> QED
    BY <1>1, <1>2

\* A search that succeeds, while the first page is in use, returns a block of
\* free pages within the range.
LEMMA FindBlock ==
    ASSUME NEW n \in Nat, TypeOK, 0 \in pmm_bitmap,
           pmm_find_free_pages(n) # NotFound
    PROVE  /\ pmm_find_free_pages(n) \in Pages
           /\ pmm_find_free_pages(n) + n <= TotalPages
           /\ pmm_find_free_pages(n) .. pmm_find_free_pages(n) + n - 1
                \subseteq Pages \ pmm_bitmap
  <1> USE PmmAssumption
  <1> DEFINE i == Min(RunEnds(n))
             a == i - n + 1
             s == pmm_find_free_pages(n)
             L == pmm_last_allocated
  <1>1. pmm_initialized /\ n # 0 /\ RunEnds(n) # {} /\ s = ScanPage(a)
    BY DEF pmm_find_free_pages
  <1>2. i \in RunEnds(n)
    <2>1. RunEnds(n) \in SUBSET Nat
      BY DEF RunEnds, Pages
    <2> QED
      BY <1>1, <2>1, MinExists
  <1> HIDE DEF i, s
  <1>3. i \in Pages /\ n <= i + 1 /\ \A j \in a .. i : ~pmm_test_bit(ScanPage(j))
    BY <1>2 DEF RunEnds
  <1>4. L \in Pages
    BY DEF TypeOK
  <1>5. a \in Nat /\ a <= i /\ i \in Nat /\ i < TotalPages /\ L \in Nat /\ L < TotalPages
    BY <1>1, <1>3, <1>4 DEF Pages
  <1>6. ASSUME NEW j \in a .. i
        PROVE  /\ j \in Pages
               /\ ScanPage(j) \in Pages \ pmm_bitmap
    <2>1. j \in Pages
      BY <1>5 DEF Pages
    <2> QED
      BY <1>3, <1>4, <2>1, ScanPageValue DEF pmm_test_bit
  <1>7. CASE L + i < TotalPages
    <2>1. \A j \in a .. i : ScanPage(j) = L + j
      BY <1>4, <1>5, <1>6, <1>7, ScanPageValue
    <2>2. s = L + a
      BY <1>1, <1>5, <2>1
    <2>3. ASSUME NEW q \in s .. s + n - 1 PROVE q \in Pages \ pmm_bitmap
      <3>1. q - L \in a .. i /\ L + (q - L) = q
        BY <1>5, <2>2
      <3> QED
        BY <1>6, <2>1, <3>1
    <2> QED
      BY <1>5, <1>7, <2>2, <2>3 DEF Pages, s
  <1>8. CASE L + a >= TotalPages
    <2>1. \A j \in a .. i : ScanPage(j) = L + j - TotalPages
      BY <1>4, <1>5, <1>6, <1>8, ScanPageValue
    <2>2. s = L + a - TotalPages
      BY <1>1, <1>5, <2>1
    <2>3. ASSUME NEW q \in s .. s + n - 1 PROVE q \in Pages \ pmm_bitmap
      <3>1. /\ q - L + TotalPages \in a .. i
            /\ L + (q - L + TotalPages) - TotalPages = q
        BY <1>5, <2>2
      <3> QED
        BY <1>6, <2>1, <3>1
    <2> QED
      BY <1>5, <1>8, <2>2, <2>3 DEF Pages, s
  <1>9. CASE L + a < TotalPages /\ L + i >= TotalPages
    <2>1. TotalPages - L \in a .. i
      BY <1>5, <1>9
    <2>2. ScanPage(TotalPages - L) = 0
      BY <1>4, <1>5, <1>6, <2>1, ScanPageValue
    <2> QED
      BY <1>6, <2>1, <2>2
  <1> QED
    BY <1>5, <1>7, <1>8, <1>9

-----------------------------------------------------------------------------
(***************************************************************************)
(* What each operation does to the set of free pages.                      *)
(***************************************************************************)
\* The pages of the range are TotalPages in number.
LEMMA PagesFinite ==
    /\ IsFiniteSet(Pages)
    /\ Cardinality(Pages) = TotalPages
    /\ \A S \in SUBSET Pages :
          IsFiniteSet(S) /\ Cardinality(S) \in 0 .. TotalPages
  <1> USE PmmAssumption
  <1>1. IsFiniteSet(Pages) /\ Cardinality(Pages) = TotalPages
    BY FS_Interval DEF Pages
  <1>2. ASSUME NEW S \in SUBSET Pages
        PROVE  IsFiniteSet(S) /\ Cardinality(S) \in 0 .. TotalPages
    BY <1>1, FS_Subset, FS_CardinalityType
  <1> QED
    BY <1>1, <1>2

\* Setting bits that are clear, or clearing bits that are set, changes their
\* number by as many.
LEMMA CardinalityOfUnion ==
    ASSUME NEW A \in SUBSET Pages, NEW B \in SUBSET Pages, A \cap B = {}
    PROVE  Cardinality(A \cup B) = Cardinality(A) + Cardinality(B)
  <1>1. IsFiniteSet(A) /\ IsFiniteSet(B) /\ Cardinality(A) \in Nat /\ Cardinality(B) \in Nat
    BY PagesFinite, PmmAssumption
  <1>2. Cardinality(A \cup B) = Cardinality(A) + Cardinality(B) - Cardinality({})
    BY <1>1, FS_Union, Zenon
  <1>3. Cardinality({}) = 0
    BY FS_EmptySet
  <1> QED
    BY <1>1, <1>2, <1>3

\* The same for the pages taken out of a set.
LEMMA CardinalityOfDifference ==
    ASSUME NEW A \in SUBSET Pages, NEW B \in SUBSET A
    PROVE  Cardinality(A \ B) = Cardinality(A) - Cardinality(B)
  <1>1. IsFiniteSet(A) /\ A \cap B = B
    BY PagesFinite
  <1>2. Cardinality(A \ B) = Cardinality(A) - Cardinality(A \cap B)
    BY <1>1, FS_Difference, Zenon
  <1> QED
    BY <1>1, <1>2, Zenon

\* An allocation leaves the bitmap as marked: the block it zeroes stores none
\* of it.
LEMMA AllocEffect ==
    ASSUME IInv, NEW n \in Counts, pmm_alloc_pages(n)
    PROVE  LET s == pmm_find_free_pages(n)
               block == s .. s + n - 1
           IN  /\ pmm_initialized
               /\ n \in Nat \ {0} /\ n <= pmm_free_page_count
               /\ s \in Pages /\ s + n - 1 \in Pages
               /\ block \subseteq Pages \ pmm_bitmap
               /\ pmm_bitmap' = pmm_bitmap \cup block
               /\ pmm_last_allocated' \in Pages
  <1> USE PmmAssumption
  <1> DEFINE s == pmm_find_free_pages(n)
             block == s .. s + n - 1
  <1>1. /\ pmm_initialized
        /\ n \in Nat \ {0} /\ n <= pmm_free_page_count
        /\ s # NotFound
    BY DEF pmm_alloc_pages, AllocRefused, IInv, TypeOK
  <1>2. 0 \in pmm_bitmap /\ OwnPages \subseteq pmm_bitmap
    BY <1>1, OwnPagesFacts DEF IInv, BitmapAccounts
  <1>3. s \in Pages /\ s + n <= TotalPages /\ block \subseteq Pages \ pmm_bitmap
    BY <1>1, <1>2, FindBlock DEF IInv
  <1>4. \A q \in block : BitsStoredIn(q) = {}
    BY <1>2, <1>3, OwnPagesFacts
  <1>5. pmm_bitmap' = (pmm_bitmap \cup (block \cap Pages))
                         \ UNION {BitsStoredIn(q) : q \in block}
    BY DEF pmm_alloc_pages
  <1>6. pmm_last_allocated' = (s + n) % TotalPages
    BY DEF pmm_alloc_pages, NextStart
  <1> HIDE DEF s
  <1>7. pmm_bitmap' = pmm_bitmap \cup block
    BY <1>3, <1>4, <1>5
  <1>8. pmm_last_allocated' \in Pages /\ s + n - 1 \in Pages
    BY <1>1, <1>3, <1>6 DEF Pages
  <1> QED
    BY <1>1, <1>3, <1>7, <1>8 DEF s

\* The pages freed are those from the address on, whatever the wrap of the sum.
LEMMA FreedBlock ==
    ASSUME IInv, NEW addr \in Addrs, NEW n \in Counts, FreeByOwner(addr, n)
    PROVE  /\ pmm_initialized
           /\ n \in Nat \ {0}
           /\ StartPage(addr) \in Pages
           /\ FreedPages(addr, n) = StartPage(addr) .. StartPage(addr) + n - 1
           /\ FreedPages(addr, n) \subseteq owned
  <1> USE PmmAssumption
  <1> DEFINE s == StartPage(addr)
  <1>1. pmm_initialized /\ n \in Nat \ {0} /\ s .. s + n - 1 \subseteq owned
    BY DEF FreeByOwner, pmm_free_pages, FreeRefused
  <1>2. s \in Pages
    BY DEF FreeByOwner, pmm_free_pages, FreeRefused, StartPage, Pages, PMM_MANAGED_START,
           PMM_MANAGED_SIZE, PMM_PAGE_SIZE
  <1> HIDE DEF s
  <1>3. s \in Nat /\ s < TotalPages /\ 2 * TotalPages < Word
    BY <1>2 DEF Pages, PMM_MANAGED_START, PMM_MANAGED_SIZE, PMM_PAGE_SIZE
  <1>4. s + n - 1 \in Pages
    <2>1. s + n - 1 \in s .. s + n - 1
      BY <1>1, <1>3
    <2> QED
      BY <1>1, <2>1 DEF IInv, TypeOK
  <1>5. ASSUME NEW p \in Pages
        PROVE  (p - s) % Word < n <=> p \in s .. s + n - 1
    <2>1. p \in Nat /\ p < TotalPages /\ n <= TotalPages
      BY <1>1, <1>3, <1>4 DEF Pages
    <2>2. CASE p >= s
      <3>1. p - s \in 0 .. Word - 1
        BY <1>3, <2>1, <2>2
      <3>2. (p - s) % Word = p - s
        BY <3>1, ModSmall
      <3> QED
        BY <1>1, <1>3, <2>1, <2>2, <3>2
    <2>3. CASE p < s
      <3>1. p - s \in Int /\ -Word <= p - s /\ p - s < 0
        BY <1>3, <2>1, <2>3
      <3>2. (p - s) % Word = p - s + Word
        BY <3>1, ModNegative
      <3> QED
        BY <1>1, <1>3, <2>1, <2>3, <3>2
    <2> QED
      BY <1>3, <2>1, <2>2, <2>3
  <1>6. FreedPages(addr, n) = s .. s + n - 1
    <2>1. FreedPages(addr, n) = {p \in Pages : (p - s) % Word < n}
      BY DEF FreedPages, s
    <2>2. s .. s + n - 1 \subseteq Pages
      BY <1>1 DEF IInv, TypeOK
    <2> QED
      BY <1>5, <2>1, <2>2
  <1> QED
    BY <1>1, <1>2, <1>6 DEF s

-----------------------------------------------------------------------------
(***************************************************************************)
(* The inductive invariant.                                                *)
(***************************************************************************)
\* The invariant holds before pmm_init has run,
LEMMA InitInv == Init => IInv
  <1> SUFFICES ASSUME Init PROVE IInv
    OBVIOUS
  <1>1. 0 \in Pages
    BY PmmAssumption DEF Pages
  <1>2. FreePages = {} /\ Cardinality({}) = 0
    BY FS_EmptySet DEF Init, FreePages
  <1> QED
    BY <1>1, <1>2, PagesFinite, PmmAssumption DEF Init, IInv, TypeOK, CountExact, BitmapAccounts

\* and after it: the count is that of the pages it leaves free.
LEMMA InitStepInv == IInv /\ pmm_init => IInv'
  <1> SUFFICES ASSUME IInv, pmm_init PROVE IInv'
    OBVIOUS
  <1> USE OwnPagesFacts, InitReservesOwnPages, PagesFinite
  <1>1. pmm_initialized' /\ pmm_bitmap' = OwnPages /\ owned' = {} /\ reserved' = {}
    BY DEF pmm_init, IInv
  <1>2. FreePages' = Pages \ OwnPages
    BY <1>1 DEF FreePages
  <1>3. CountExact'
    BY <1>2 DEF pmm_init, CountExact
  <1>4. TypeOK'
    <2>1. Pages \ OwnPages \in SUBSET Pages /\ 0 \in Pages
      OBVIOUS
    <2> QED
      BY <1>1, <2>1 DEF pmm_init, TypeOK
  <1>5. BitmapAccounts'
    BY <1>1 DEF BitmapAccounts
  <1> QED
    BY <1>1, <1>3, <1>4, <1>5 DEF IInv

\* An allocation keeps it: the block is free, in the range, and stores no bits.
LEMMA AllocInv ==
    ASSUME IInv, NEW n \in Counts, pmm_alloc_pages(n)
    PROVE  IInv'
  <1> DEFINE s == pmm_find_free_pages(n)
             block == s .. s + n - 1
  <1>1. /\ pmm_initialized
        /\ n \in Nat \ {0} /\ n <= pmm_free_page_count
        /\ s \in Pages /\ s + n - 1 \in Pages
        /\ block \subseteq Pages \ pmm_bitmap
        /\ pmm_bitmap' = pmm_bitmap \cup block
        /\ pmm_last_allocated' \in Pages
    BY AllocEffect
  <1>2. /\ pmm_initialized' = pmm_initialized /\ reserved' = reserved
        /\ owned' = owned \cup block
        /\ pmm_free_page_count' = pmm_free_page_count - n
    BY DEF pmm_alloc_pages
  <1>3. Cardinality(block) = n
    <2> HIDE DEF s
    <2> QED
      BY <1>1, FS_Interval DEF Pages
  <1> HIDE DEF block
  <1>4. TypeOK'
    <2>1. block \subseteq Pages /\ n \in Nat /\ n <= pmm_free_page_count
      BY <1>1
    <2>2. pmm_free_page_count' \in 0 .. TotalPages
      BY <1>2, <2>1, PmmAssumption DEF IInv, TypeOK
    <2> QED
      BY <1>1, <1>2, <2>1, <2>2 DEF IInv, TypeOK
  <1>5. CountExact'
    <2>1. FreePages = Pages \ pmm_bitmap /\ FreePages' = FreePages \ block
      BY <1>1, <1>2 DEF FreePages
    <2>2. FreePages \in SUBSET Pages /\ block \in SUBSET FreePages
      BY <1>1, <2>1
    <2>3. Cardinality(FreePages \ block) = Cardinality(FreePages) - n
      BY <1>3, <2>2, CardinalityOfDifference, Zenon
    <2> QED
      BY <1>2, <2>1, <2>3, Zenon DEF IInv, CountExact
  <1>6. BitmapAccounts'
    BY <1>1, <1>2 DEF IInv, BitmapAccounts, OwnPages
  <1> QED
    BY <1>1, <1>2, <1>4, <1>5, <1>6 DEF IInv

\* A free keeps it: the caller owns the block, so all its bits are set.
LEMMA FreeInv ==
    ASSUME IInv, NEW addr \in Addrs, NEW n \in Counts, FreeByOwner(addr, n)
    PROVE  IInv'
  <1> USE PmmAssumption
  <1> DEFINE s == StartPage(addr)
             block == FreedPages(addr, n)
  <1>1. /\ pmm_initialized
        /\ n \in Nat \ {0}
        /\ s \in Pages
        /\ block = s .. s + n - 1
        /\ block \subseteq owned
    BY FreedBlock
  <1>2. /\ pmm_initialized' = pmm_initialized /\ reserved' = reserved
        /\ pmm_last_allocated' = pmm_last_allocated
        /\ owned' = owned \ block
        /\ pmm_bitmap' = pmm_bitmap \ block
        /\ pmm_free_page_count' = (pmm_free_page_count + n) % Word
    BY DEF FreeByOwner, pmm_free_pages
  <1>3. Cardinality(block) = n
    <2> HIDE DEF s, block
    <2> QED
      BY <1>1, FS_Interval DEF Pages
  <1> HIDE DEF block
  <1>4. block \subseteq Pages /\ block \subseteq pmm_bitmap
    BY <1>1 DEF IInv, TypeOK, BitmapAccounts
  <1>5. /\ FreePages = Pages \ pmm_bitmap
        /\ FreePages' = FreePages \cup block
        /\ FreePages \cap block = {}
    BY <1>1, <1>2, <1>4 DEF FreePages
  <1>6. /\ FreePages \in SUBSET Pages
        /\ FreePages \cup block \in SUBSET Pages
    BY <1>4, <1>5
  <1>7. Cardinality(FreePages \cup block) = Cardinality(FreePages) + n
    BY <1>3, <1>4, <1>5, <1>6, CardinalityOfUnion, Zenon
  <1>8. pmm_free_page_count' = Cardinality(FreePages \cup block)
    <2>1. Cardinality(FreePages \cup block) \in 0 .. TotalPages
      BY <1>6, PagesFinite
    <2>2. pmm_free_page_count + n \in 0 .. Word - 1
      BY <1>7, <2>1 DEF IInv, CountExact, PMM_MANAGED_START, PMM_MANAGED_SIZE, PMM_PAGE_SIZE
    <2>3. (pmm_free_page_count + n) % Word = pmm_free_page_count + n
      BY <2>2, ModSmall
    <2> QED
      BY <1>2, <1>7, <2>3 DEF IInv, CountExact
  <1>9. CountExact'
    BY <1>5, <1>8 DEF CountExact
  <1>10. TypeOK'
    BY <1>1, <1>2, <1>6, <1>8, PagesFinite DEF IInv, TypeOK
  <1>11. BitmapAccounts'
    BY <1>1, <1>2 DEF IInv, BitmapAccounts, OwnPages
  <1> QED
    BY <1>1, <1>2, <1>9, <1>10, <1>11 DEF IInv

\* A region outside the blocks in use is withdrawn from the free pages.
LEMMA ReserveInv ==
    ASSUME IInv, NEW start \in RegionStarts, NEW size \in RegionSizes,
           ReserveByContract(start, size)
    PROVE  IInv'
  <1> USE PmmAssumption
  <1> DEFINE region == RegionPages(start, size)
             fresh == region \ pmm_bitmap
  <1>1. /\ pmm_initialized
        /\ region \cap owned = {}
        /\ region = TouchedPages(start, size)
        /\ region \subseteq Pages
    BY WellFormedPages DEF ReserveByContract, pmm_reserve_region, RegionPages
  <1>2. /\ pmm_initialized' = pmm_initialized /\ owned' = owned
        /\ pmm_last_allocated' = pmm_last_allocated
        /\ reserved' = reserved \cup region
        /\ pmm_bitmap' = pmm_bitmap \cup region
        /\ pmm_free_page_count' = (pmm_free_page_count - Cardinality(fresh)) % Word
    BY <1>1 DEF ReserveByContract, pmm_reserve_region
  <1> HIDE DEF region
  <1>3. /\ FreePages = Pages \ pmm_bitmap
        /\ FreePages' = FreePages \ fresh
        /\ FreePages \cap fresh = fresh
        /\ FreePages \in SUBSET Pages
        /\ FreePages \ fresh \in SUBSET Pages
    BY <1>1, <1>2 DEF FreePages
  <1> HIDE DEF fresh
  <1>4. Cardinality(FreePages \ fresh) = pmm_free_page_count - Cardinality(fresh)
    <2>1. fresh \in SUBSET FreePages
      BY <1>3
    <2>2. Cardinality(FreePages \ fresh) = Cardinality(FreePages) - Cardinality(fresh)
      BY <1>3, <2>1, CardinalityOfDifference, Zenon
    <2> QED
      BY <2>2, Zenon DEF IInv, CountExact
  <1>5. pmm_free_page_count' = Cardinality(FreePages \ fresh)
    <2>1. Cardinality(FreePages \ fresh) \in 0 .. Word - 1
      BY <1>3, PagesFinite DEF PMM_MANAGED_START, PMM_MANAGED_SIZE, PMM_PAGE_SIZE
    <2>2. Cardinality(FreePages \ fresh) % Word = Cardinality(FreePages \ fresh)
      BY <2>1, ModSmall
    <2> QED
      BY <1>2, <1>4, <2>2
  <1>6. CountExact'
    BY <1>3, <1>5 DEF CountExact
  <1>7. TypeOK'
    BY <1>1, <1>2, <1>3, <1>5, PagesFinite DEF IInv, TypeOK
  <1>8. BitmapAccounts'
    BY <1>1, <1>2 DEF IInv, BitmapAccounts, OwnPages
  <1> QED
    BY <1>1, <1>2, <1>6, <1>7, <1>8 DEF IInv

\* A region given back holds neither owned pages nor the bitmap.
LEMMA MarkInv ==
    ASSUME IInv, NEW start \in RegionStarts, NEW size \in RegionSizes,
           MarkByContract(start, size)
    PROVE  IInv'
  <1> USE PmmAssumption
  <1> DEFINE region == RegionPages(start, size)
             freed == region \cap pmm_bitmap
  <1>1. /\ pmm_initialized
        /\ region \cap (owned \cup OwnPages) = {}
        /\ region \subseteq Pages
    BY DEF MarkByContract, pmm_mark_available, RegionPages
  <1>2. /\ pmm_initialized' = pmm_initialized /\ owned' = owned
        /\ pmm_last_allocated' = pmm_last_allocated
        /\ reserved' = reserved \ region
        /\ pmm_bitmap' = pmm_bitmap \ region
        /\ pmm_free_page_count' = (pmm_free_page_count + Cardinality(freed)) % Word
    BY DEF MarkByContract, pmm_mark_available
  <1> HIDE DEF region
  <1>3. /\ FreePages = Pages \ pmm_bitmap
        /\ FreePages' = FreePages \cup freed
        /\ FreePages \cap freed = {}
        /\ FreePages \in SUBSET Pages
        /\ freed \in SUBSET Pages
        /\ FreePages \cup freed \in SUBSET Pages
    BY <1>1, <1>2 DEF FreePages
  <1> HIDE DEF freed
  <1>4. Cardinality(FreePages \cup freed) = pmm_free_page_count + Cardinality(freed)
    <2>1. Cardinality(FreePages \cup freed) = Cardinality(FreePages) + Cardinality(freed)
      BY <1>3, CardinalityOfUnion, Zenon
    <2> QED
      BY <2>1, Zenon DEF IInv, CountExact
  <1>5. pmm_free_page_count' = Cardinality(FreePages \cup freed)
    <2>1. Cardinality(FreePages \cup freed) \in 0 .. Word - 1
      BY <1>3, PagesFinite DEF PMM_MANAGED_START, PMM_MANAGED_SIZE, PMM_PAGE_SIZE
    <2>2. Cardinality(FreePages \cup freed) % Word = Cardinality(FreePages \cup freed)
      BY <2>1, ModSmall
    <2> QED
      BY <1>2, <1>4, <2>2
  <1>6. CountExact'
    BY <1>3, <1>5 DEF CountExact
  <1>7. TypeOK'
    BY <1>1, <1>2, <1>3, <1>5, PagesFinite DEF IInv, TypeOK
  <1>8. BitmapAccounts'
    BY <1>1, <1>2 DEF IInv, BitmapAccounts, OwnPages
  <1> QED
    BY <1>1, <1>2, <1>6, <1>7, <1>8 DEF IInv

\* Every step of a caller that keeps to the interface keeps the invariant.
LEMMA NextInv == IInv /\ [Next]_vars => IInv'
  <1> SUFFICES ASSUME IInv, [Next]_vars PROVE IInv'
    OBVIOUS
  <1>1. CASE pmm_init
    BY <1>1, InitStepInv
  <1>2. CASE UNCHANGED vars
    BY <1>2 DEF vars, IInv, TypeOK, CountExact, BitmapAccounts, FreePages, OwnPages
  <1>3. CASE RefusedCall
    BY <1>2, <1>3 DEF RefusedCall
  <1>4. ASSUME NEW n \in Counts, pmm_alloc_pages(n) PROVE IInv'
    BY <1>4, AllocInv
  <1>5. ASSUME NEW addr \in Addrs, NEW n \in Counts, FreeByOwner(addr, n) PROVE IInv'
    BY <1>5, FreeInv
  <1>6. ASSUME NEW start \in RegionStarts, NEW size \in RegionSizes,
               ReserveByContract(start, size)
        PROVE  IInv'
    BY <1>6, ReserveInv
  <1>7. ASSUME NEW start \in RegionStarts, NEW size \in RegionSizes,
               MarkByContract(start, size)
        PROVE  IInv'
    BY <1>7, MarkInv
  <1> QED
    BY <1>1, <1>2, <1>3, <1>4, <1>5, <1>6, <1>7 DEF Next

\* The invariant holds in every state callers that keep to the interface of
\* pmm.c can bring about.
THEOREM Invariant == Spec => []IInv
  BY InitInv, NextInv, PTL DEF Spec

-----------------------------------------------------------------------------
(***************************************************************************)
(* What follows from it.                                                   *)
(***************************************************************************)
\* The variables of pmm.c keep their types: the count never wraps below zero
\* nor beyond the range, pmm_last_allocated never leaves the range, and no page
\* outside the range is ever marked, owned or reserved.
THEOREM TypeCorrect == Spec => []TypeOK
  <1>1. IInv => TypeOK
    BY DEF IInv
  <1> QED
    BY <1>1, Invariant, PTL

\* pmm_free_page_count is the number of clear bits of initialized bitmaps of
\* any size, whatever sequence of calls led there.
THEOREM CountIsExact == Spec => []CountExact
  <1>1. IInv => CountExact
    BY DEF IInv
  <1> QED
    BY <1>1, Invariant, PTL

\* Every set bit is there for exactly one kind of reason: no page is handed out
\* twice, and no page of the bitmap or of a reserved region is handed out.
THEOREM BitmapAccounted == Spec => []BitmapAccounts
  <1>1. IInv => BitmapAccounts
    BY DEF IInv
  <1> QED
    BY <1>1, Invariant, PTL

\* The next-fit search, which does not restart its run where it wraps, never
\* returns a block that wraps round the end of the range.
THEOREM NoBlockWraps == Spec => []BlockNeverWraps
  <1>1. ASSUME IInv PROVE BlockNeverWraps
    <2> SUFFICES ASSUME NEW n \in Counts, pmm_find_free_pages(n) # NotFound
                 PROVE  /\ pmm_find_free_pages(n) + n <= TotalPages
                        /\ FreeRun(pmm_find_free_pages(n), n)
      BY DEF BlockNeverWraps
    <2>1. n \in Nat
      BY PmmAssumption
    <2>2. pmm_initialized
      BY DEF pmm_find_free_pages
    <2>3. 0 \in pmm_bitmap
      BY <1>1, <2>2, OwnPagesFacts DEF IInv, BitmapAccounts
    <2>4. /\ pmm_find_free_pages(n) + n <= TotalPages
          /\ pmm_find_free_pages(n) .. pmm_find_free_pages(n) + n - 1
               \subseteq Pages \ pmm_bitmap
      BY <1>1, <2>1, <2>3, FindBlock DEF IInv
    <2> QED
      BY <2>2, <2>4 DEF FreeRun, FreePages
  <1> QED
    BY <1>1, Invariant, PTL

\* When the count is positive a single page is found: the scan passes every
\* page of the range.
THEOREM SinglePageFound == Spec => []SinglePageAlwaysFound
  <1>1. ASSUME IInv PROVE SinglePageAlwaysFound
    <2> USE PmmAssumption
    <2> SUFFICES ASSUME pmm_free_page_count > 0
                 PROVE  pmm_find_free_pages(1) # NotFound
      BY DEF SinglePageAlwaysFound
    <2> DEFINE L == pmm_last_allocated
    <2>1. pmm_free_page_count = Cardinality(FreePages)
      BY <1>1 DEF IInv, CountExact
    <2>2. FreePages # {}
      <3>1. Cardinality({}) = 0
        BY FS_EmptySet
      <3> QED
        BY <2>1, <3>1
    <2>3. PICK p \in Pages : pmm_initialized /\ p \notin pmm_bitmap
      BY <2>2 DEF FreePages
    <2>4. L \in Pages
      BY <1>1 DEF IInv, TypeOK
    <2>5. PICK i \in Pages : ScanPage(i) = p
      <3>1. CASE p >= L
        <4>1. p - L \in Pages /\ L + (p - L) = p /\ p < TotalPages
          BY <2>4, <3>1 DEF Pages
        <4> QED
          BY <2>4, <4>1, ScanPageValue
      <3>2. CASE p < L
        <4>1. /\ p - L + TotalPages \in Pages
              /\ L + (p - L + TotalPages) >= TotalPages
              /\ L + (p - L + TotalPages) - TotalPages = p
          BY <2>4, <3>2 DEF Pages
        <4> QED
          BY <2>4, <4>1, ScanPageValue
      <3> QED
        BY <2>4, <3>1, <3>2 DEF Pages
    <2>6. i \in RunEnds(1)
      <3>1. 1 <= i + 1 /\ \A j \in i - 1 + 1 .. i : j = i
        BY DEF Pages
      <3>2. ~pmm_test_bit(ScanPage(i))
        BY <2>3, <2>5 DEF pmm_test_bit
      <3> QED
        BY <3>1, <3>2 DEF RunEnds
    <2> QED
      BY <2>3, <2>4, <2>6, SearchFails
  <1> QED
    BY <1>1, Invariant, PTL

\* A search fails only when every free run of that many pages straddles the
\* page the search starts from.
THEOREM MissesAcrossStart == Spec => []MissesOnlyAcrossStart
  <1>1. ASSUME IInv PROVE MissesOnlyAcrossStart
    <2> USE PmmAssumption
    <2> DEFINE L == pmm_last_allocated
    <2> SUFFICES ASSUME NEW n \in Counts \ {0}, pmm_initialized,
                        pmm_find_free_pages(n) = NotFound,
                        NEW s \in Pages, FreeRun(s, n)
                 PROVE  s < L /\ L <= s + n - 1
      BY DEF MissesOnlyAcrossStart
    <2>1. n \in Nat \ {0} /\ L \in Pages /\ s + n - 1 \in s .. s + n - 1
      BY <1>1 DEF IInv, TypeOK, Pages
    <2>2. \A p \in s .. s + n - 1 : p \in Pages /\ ~pmm_test_bit(p)
      BY DEF FreeRun, FreePages, pmm_test_bit
    <2>3. RunEnds(n) = {}
      BY <2>1, SearchFails
    <2>4. s \in Nat /\ L \in Nat /\ L < TotalPages /\ s + n - 1 \in Nat
          /\ s + n - 1 < TotalPages
      BY <2>1, <2>2 DEF Pages
    <2>5. CASE s >= L
      <3> DEFINE i == s + n - 1 - L
      <3>1. i \in Pages /\ n <= i + 1
        BY <2>1, <2>4, <2>5 DEF Pages
      <3>2. ASSUME NEW j \in i - n + 1 .. i PROVE ~pmm_test_bit(ScanPage(j))
        <4>1. j \in Pages /\ L + j < TotalPages /\ L + j \in s .. s + n - 1
          BY <2>1, <2>4, <2>5 DEF Pages
        <4> QED
          BY <2>1, <2>2, <4>1, ScanPageValue
      <3> QED
        BY <2>3, <3>1, <3>2 DEF RunEnds
    <2>6. CASE s + n - 1 < L
      <3> DEFINE i == s + n - 1 - L + TotalPages
      <3>1. i \in Pages /\ n <= i + 1
        BY <2>1, <2>4, <2>6 DEF Pages
      <3>2. ASSUME NEW j \in i - n + 1 .. i PROVE ~pmm_test_bit(ScanPage(j))
        <4>1. j \in Pages /\ L + j >= TotalPages /\ L + j - TotalPages \in s .. s + n - 1
          BY <2>1, <2>4, <2>6 DEF Pages
        <4> QED
          BY <2>1, <2>2, <4>1, ScanPageValue
      <3> QED
        BY <2>3, <3>1, <3>2 DEF RunEnds
    <2> QED
      BY <2>4, <2>5, <2>6
  <1> QED
    BY <1>1, Invariant, PTL

\* The loop of pmm_find_free_pages finds the first run of free pages from where
\* the last search ended, for every length and every bitmap.
THEOREM LoopIsSearch == Spec => []LoopFindsRun
  <1>1. TypeOK => LoopFindsRun
    BY LoopComputes, PmmAssumption DEF LoopFindsRun
  <1> QED
    BY <1>1, TypeCorrect, PTL

-----------------------------------------------------------------------------
(***************************************************************************)
(* The bitmap allocator implements the frame allocator.                    *)
(***************************************************************************)
\* The cardinality of the instance is that of the module.
LEMMA FrameCardinality == \A S : Frame!Cardinality(S) = Cardinality(S)
  BY Zenon DEF Frame!Cardinality, Cardinality

\* Before pmm_init nothing is available, which the abstract allocator allows.
LEMMA RefinesInit == Init => Frame!Init
  <1> SUFFICES ASSUME Init PROVE Frame!Init
    OBVIOUS
  <1>1. FreePages = {} /\ Cardinality({}) = 0
    BY FS_EmptySet DEF Init, FreePages
  <1> QED
    BY <1>1, FrameCardinality DEF Init, Frame!Init

\* pmm_init and pmm_mark_available release withheld frames, pmm_reserve_region
\* withholds frames, and pmm_alloc_pages and pmm_free_pages are Alloc and Free.
LEMMA RefinesStep == IInv /\ IInv' /\ [Next]_vars => [Frame!Next]_Frame!frameVars
  <1> SUFFICES ASSUME IInv, IInv', [Next]_vars
               PROVE  Frame!Next \/ UNCHANGED Frame!frameVars
    OBVIOUS
  <1>1. pmm_free_page_count' = Frame!Cardinality(FreePages')
    BY FrameCardinality DEF IInv, CountExact
  <1>2. CASE pmm_init
    <2> DEFINE S == Pages \ OwnPages
    <2>1. FreePages = {} /\ owned = {} /\ owned' = owned /\ FreePages' = FreePages \cup S
      BY <1>2, InitReservesOwnPages DEF pmm_init, FreePages, IInv
    <2>2. Frame!Release(S)
      BY <1>1, <2>1 DEF Frame!Release, Frame!Withheld
    <2> QED
      BY <2>2 DEF Frame!Next
  <1>3. CASE UNCHANGED vars
    BY <1>3 DEF vars, Frame!frameVars, FreePages
  <1>4. CASE RefusedCall
    BY <1>3, <1>4 DEF RefusedCall
  <1>5. ASSUME NEW n \in Counts, pmm_alloc_pages(n) PROVE Frame!Next
    <2> DEFINE s == pmm_find_free_pages(n)
               block == s .. s + n - 1
    <2>1. /\ pmm_initialized
          /\ n \in Nat \ {0}
          /\ s \in Pages /\ s + n - 1 \in Pages
          /\ block \subseteq Pages \ pmm_bitmap
          /\ pmm_bitmap' = pmm_bitmap \cup block
      BY <1>5, AllocEffect
    <2>2. pmm_initialized' = pmm_initialized /\ owned' = owned \cup block
      BY <1>5 DEF pmm_alloc_pages
    <2> HIDE DEF s
    <2>3. s \in block /\ s + n - 1 \in block
      BY <2>1 DEF Pages
    <2>4. Frame!IsRun(block)
      BY <2>3 DEF Frame!IsRun
    <2> HIDE DEF block
    <2>5. FreePages = Pages \ pmm_bitmap /\ FreePages' = FreePages \ block
      BY <2>1, <2>2 DEF FreePages
    <2>6. Frame!Alloc(block)
      BY <1>1, <2>1, <2>2, <2>4, <2>5 DEF Frame!Alloc
    <2> QED
      BY <2>1, <2>6 DEF Frame!Next
  <1>6. ASSUME NEW addr \in Addrs, NEW n \in Counts, FreeByOwner(addr, n)
        PROVE  Frame!Next
    <2> DEFINE block == FreedPages(addr, n)
    <2>1. pmm_initialized /\ block \subseteq owned
      BY <1>6, FreedBlock
    <2>2. /\ pmm_initialized' = pmm_initialized
          /\ owned' = owned \ block
          /\ pmm_bitmap' = pmm_bitmap \ block
      BY <1>6 DEF FreeByOwner, pmm_free_pages
    <2> HIDE DEF block
    <2>3. block \subseteq Pages
      BY <2>1 DEF IInv, TypeOK
    <2>4. FreePages' = FreePages \cup block
      BY <2>1, <2>2, <2>3 DEF FreePages
    <2>5. Frame!Free(block)
      BY <1>1, <2>1, <2>2, <2>4 DEF Frame!Free
    <2> QED
      BY <2>3, <2>5 DEF Frame!Next
  <1>7. ASSUME NEW start \in RegionStarts, NEW size \in RegionSizes,
               ReserveByContract(start, size)
        PROVE  Frame!Next
    <2> DEFINE region == RegionPages(start, size)
    <2>1. /\ pmm_initialized /\ pmm_initialized' = pmm_initialized
          /\ owned' = owned
          /\ pmm_bitmap' = pmm_bitmap \cup region
          /\ region \subseteq Pages
      BY <1>7 DEF ReserveByContract, pmm_reserve_region, RegionPages
    <2> HIDE DEF region
    <2>2. FreePages' = FreePages \ region
      BY <2>1 DEF FreePages
    <2>3. Frame!Withhold(region)
      BY <1>1, <2>1, <2>2 DEF Frame!Withhold
    <2> QED
      BY <2>1, <2>3 DEF Frame!Next
  <1>8. ASSUME NEW start \in RegionStarts, NEW size \in RegionSizes,
               MarkByContract(start, size)
        PROVE  Frame!Next
    <2> DEFINE freed == RegionPages(start, size) \cap pmm_bitmap
    <2>1. /\ pmm_initialized /\ pmm_initialized' = pmm_initialized
          /\ owned' = owned
          /\ pmm_bitmap' = pmm_bitmap \ freed
          /\ freed \subseteq Pages /\ freed \subseteq pmm_bitmap
          /\ freed \cap owned = {}
      BY <1>8 DEF MarkByContract, pmm_mark_available, RegionPages
    <2> HIDE DEF freed
    <2>2. FreePages' = FreePages \cup freed /\ freed \subseteq Pages \ (FreePages \cup owned)
      BY <2>1 DEF FreePages
    <2>3. Frame!Release(freed)
      BY <1>1, <2>1, <2>2 DEF Frame!Release, Frame!Withheld
    <2> QED
      BY <2>1, <2>3 DEF Frame!Next
  <1> QED
    BY <1>2, <1>3, <1>4, <1>5, <1>6, <1>7, <1>8 DEF Next

\* Seen through the set of clear bits, every behaviour of the bitmap allocator
\* is one of the abstract allocator: allocations hand out runs of available
\* frames, only owners' frames come back, and the reported count is exact.
THEOREM ImplementsFrameAllocator == Spec => FrameSpec
  BY RefinesInit, RefinesStep, InitInv, NextInv, PTL DEF Spec, FrameSpec, Frame!Spec
=============================================================================
