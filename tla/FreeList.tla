------------------------------ MODULE FreeList ------------------------------
(***************************************************************************)
(* The page allocator of src/src/memory/paging.c: a linked list threaded   *)
(* through the free pages themselves, and a pool beyond next_free_page     *)
(* that is drawn from when the list is empty.                              *)
(*                                                                         *)
(* Frame f is the page at HEAP_START + HEAP_SIZE + (f - 1) * PAGE_SIZE and *)
(* 0 is NULL.  Of a page's contents only its first word counts: next[f],   *)
(* the link while the page is on the list, and the client's data while it  *)
(* is not.  A word above MaxFrames is an address where no page of the pool *)
(* is: any such address that the code follows as a link leads it astray,   *)
(* to a page fault or to memory that belongs to something else, and the    *)
(* model stops there.                                                      *)
(***************************************************************************)
EXTENDS Integers, FiniteSets

CONSTANTS
    MaxFrames,          \* bound: frames the pool may reach
    InitialPool,        \* initial_pool_size (1024 in the build)
    Word,               \* 2^32: the counters are uint32_t
    WalkLimit,          \* 10000: where get_memory_stats gives up
    ClientWords         \* what clients store in the first word of their pages,
                        \* and what memory not yet drawn holds: any words

NULL == 0
Frames == 1 .. MaxFrames
Words == (0 .. MaxFrames) \cup ClientWords

ASSUME FreeListAssumption ==
    /\ MaxFrames \in Nat
    /\ InitialPool \in 0 .. MaxFrames
    /\ Word \in Nat \ {0}
    /\ WalkLimit \in Nat
    /\ ClientWords \subseteq Nat

VARIABLES
    free_list_head,
    next,                   \* the first word of every frame
    next_free_page,         \* the first frame of the pool not yet drawn
    total_pages_allocated,
    total_pages_freed,
    inuse,                  \* history: frames handed out and not given back
    misused,                \* history: a client has freed a frame it did not hold
    astray                  \* a word that is no page has been followed as a link

listVars == <<free_list_head, next, next_free_page>>
vars == <<free_list_head, next, next_free_page, total_pages_allocated,
          total_pages_freed, inuse, misused, astray>>

\* The list a call of init_free_list leaves: pages are linked in address
\* order, each in front of the one before.  The memory beyond keeps what it held.
InitialLinks(memory) == [f \in Frames |-> IF f <= InitialPool THEN f - 1 ELSE memory[f]]

\* init_free_list runs once, at boot, before any other operation.
init_free_list ==
    /\ free_list_head = InitialPool
    /\ next \in [Frames -> Words]
    /\ next = InitialLinks(next)
    /\ next_free_page = InitialPool + 1
    /\ total_pages_allocated = 0
    /\ total_pages_freed = 0
    /\ inuse = {}
    /\ misused = FALSE
    /\ astray = FALSE

Counted_NoWrap(n) == n + 1                                          \* mutant
Counted_Saturates(n) == IF n = Word - 1 THEN n ELSE n + 1           \* mutant
Counted(n) == (n + 1) % Word

\* The list is empty: the next page of the pool, zeroed.
AllocateFromPool ==
    /\ ~astray
    /\ free_list_head = NULL
    /\ next_free_page <= MaxFrames
    /\ next_free_page' = next_free_page + 1
    /\ next' = [next EXCEPT ![next_free_page] = 0]
    /\ total_pages_allocated' = Counted(total_pages_allocated)
    /\ inuse' = inuse \cup {next_free_page}
    /\ UNCHANGED <<free_list_head, total_pages_freed, misused, astray>>

\* The head of the list, unlinked and then zeroed.
AfterHead_ZeroedFirst == 0                                          \* mutant
AfterHead_NotAdvanced == free_list_head                             \* mutant
AfterHead == next[free_list_head]

AllocateFromList ==
    /\ ~astray
    /\ free_list_head \in Frames
    /\ free_list_head' = AfterHead
    /\ next' = [next EXCEPT ![free_list_head] = 0]
    /\ total_pages_allocated' = Counted(total_pages_allocated)
    /\ inuse' = inuse \cup {free_list_head}
    /\ UNCHANGED <<next_free_page, total_pages_freed, misused, astray>>

\* What the code does next is no longer known, nor what it leaves intact.
GoesAstray ==
    /\ astray' = TRUE
    /\ UNCHANGED <<listVars, total_pages_allocated, total_pages_freed, inuse, misused>>

\* The head is no page: what lies there becomes the head, and is zeroed.
Wild(w) == w \notin Frames \cup {NULL}
AllocateWild ==
    /\ ~astray
    /\ Wild(free_list_head)
    /\ GoesAstray

allocate_from_free_list == AllocateFromPool \/ AllocateFromList \/ AllocateWild

\* Frames taken from memory so far.
Drawn == 1 .. next_free_page - 1

\* NULL and addresses inside a page are turned down; nothing else is.
add_to_free_list(f) ==
    /\ ~astray
    /\ next' = [next EXCEPT ![f] = free_list_head]
    /\ free_list_head' = f
    /\ total_pages_freed' = Counted(total_pages_freed)
    /\ inuse' = inuse \ {f}
    /\ misused' = (misused \/ f \notin inuse)
    /\ UNCHANGED <<next_free_page, total_pages_allocated, astray>>

\* What add_to_free_list does with an address that is no page: nothing.
RefusedFree == UNCHANGED vars

\* A client stores into a page of its own.
ClientWrite(f, w) ==
    /\ ~astray
    /\ next' = [next EXCEPT ![f] = w]
    /\ UNCHANGED <<free_list_head, next_free_page, total_pages_allocated,
                   total_pages_freed, inuse, misused, astray>>

-----------------------------------------------------------------------------
\* The node i links down the list: NULL once the end is passed, and a word
\* that is no page once the walk has come to one.
After(w) == IF w \in Frames THEN next[w] ELSE w
Node(i) ==
    LET node[k \in 0 .. i] == IF k = 0 THEN free_list_head ELSE After(node[k - 1])
    IN  node[i]

\* The walk of get_memory_stats reads the links of the first WalkLimit + 1
\* nodes; it changes nothing, unless it comes to a word that is no page.
Strays == \E i \in 0 .. WalkLimit : Wild(Node(i))
get_memory_stats ==
    /\ ~astray
    /\ Strays
    /\ GoesAstray

\* Clients write the pages they hold, and free any page drawn so far: nothing
\* stops them from freeing one twice.
Next ==
    \/ allocate_from_free_list
    \/ RefusedFree
    \/ get_memory_stats
    \/ \E f \in Drawn : add_to_free_list(f)
    \/ \E f \in inuse, w \in ClientWords : ClientWrite(f, w)

Spec == init_free_list /\ [][Next]_vars

-----------------------------------------------------------------------------
\* What a walk that does not stray counts: the nodes, or WalkLimit + 1 when it
\* takes the list for corrupted.
StatsCount_StopsEarly ==                                            \* mutant
    LET ends == {i \in 0 .. WalkLimit : i > 0 /\ Node(i - 1) = free_list_head}
    IN  IF ends = {} THEN WalkLimit + 1 ELSE CHOOSE i \in ends : \A j \in ends : i <= j
StatsCount ==
    LET ends == {i \in 0 .. WalkLimit : Node(i) = NULL}
    IN  IF ends = {} THEN WalkLimit + 1 ELSE CHOOSE i \in ends : \A j \in ends : i <= j

ListFrames == {Node(i) : i \in 0 .. MaxFrames} \cap Frames
PagesInUse == (total_pages_allocated - total_pages_freed) % Word

TypeOK ==
    /\ free_list_head \in Words
    /\ next \in [Frames -> Words]
    /\ next_free_page \in 1 .. MaxFrames + 1
    /\ total_pages_allocated \in 0 .. Word - 1
    /\ total_pages_freed \in 0 .. Word - 1
    /\ inuse \subseteq Frames
    /\ misused \in BOOLEAN
    /\ astray \in BOOLEAN

\* The list, threaded through memory that clients write while they hold it,
\* always ends in NULL, visits no page twice, and holds exactly the pages
\* drawn from the pool that nobody holds, until a page is freed twice.
ListIsFreePages ==
    ~misused => /\ ListFrames = Drawn \ inuse
                /\ inuse \subseteq Drawn
                /\ Node(Cardinality(Drawn \ inuse)) = NULL

\* "Pages in use" of get_memory_stats is the number of pages handed out, also
\* after the uint32_t counters have wrapped round.
InUseExact == ~misused => PagesInUse = Cardinality(inuse) % Word

\* Until a page is freed twice no allocation and no walk goes astray, whatever
\* words clients store, and get_memory_stats prints the number of free pages, or
\* calls the list corrupted because there are more than it counts.  After that
\* a word of a client may be a link and lead either astray.  A walk that stays
\* on pages still counts those of the list, or calls the list corrupted because
\* it never ends or is longer than it counts.
StatsHonest ==
    LET free == Cardinality(Drawn \ inuse)
    IN  /\ ~misused => /\ ~astray /\ ~Strays
                       /\ StatsCount = IF free <= WalkLimit THEN free ELSE WalkLimit + 1
        /\ ~Strays => \/ StatsCount <= WalkLimit /\ StatsCount = Cardinality(ListFrames)
                      \/ StatsCount > WalkLimit /\ \A i \in 0 .. WalkLimit : Node(i) \in Frames

\* Until a page is freed twice, the linked list implements the abstract frame
\* allocator; what it reports is what its counter of pages in use leaves.
Frame == INSTANCE FrameAllocator WITH
            avail <- Frames \ inuse, owned <- inuse, reported <- MaxFrames - PagesInUse
FrameSpec == Frame!Init /\ [][misused' \/ [Frame!Next]_(Frame!frameVars)]_vars

=============================================================================
