------------------------------- MODULE Paging -------------------------------
(***************************************************************************)
(* The PAE page tables of src/src/memory/paging.c: how they are built at   *)
(* boot, map_page and unmap_page on them, and the processor's view of them *)
(* (the walk and the TLB).                                                 *)
(*                                                                         *)
(* Virtual page v has PDPT index v \div (PdSize * PtSize), directory index *)
(* (v \div PtSize) % PdSize and table index v % PtSize.  Physical frames   *)
(* are numbered so that the identity map takes virtual page f to frame f.  *)
(* The page allocator appears as the list of free frames in list order     *)
(* followed by the pool; FreeList has its links.  Once paging is on, the   *)
(* kernel reaches a table through the identity map of its frame.           *)
(***************************************************************************)
EXTENDS Integers, FiniteSets, Sequences

CONSTANTS
    PdptSize, PdSize, PtSize,   \* PDPT_ENTRIES, ENTRIES_PER_TABLE (4, 512, 512)
    IdentityPages,              \* pages mapped by setup_identity_mapping (32 MB)
    HeapPages,                  \* pages mapped by setup_kernel_heap
    PoolStart, InitialPool,     \* init_free_list: first frame, number of frames
    PoolLimit,                  \* bound: last frame the pool may be drawn to
    MapPages,                   \* virtual pages clients map and unmap
    PhysFrames,                 \* physical frames clients map them to
    FlagSets                    \* flags clients pass to map_page

VPages == 0 .. PdptSize * PdSize * PtSize - 1
Frames4G == Cardinality(VPages)     \* frames below 4 GB
PoolFrames == PoolStart .. PoolLimit
NoFrame == -1

\* PAGE_PRESENT, PAGE_WRITABLE and PAGE_USER are bits of the low word,
\* PAGE_NX is bit 63.
Flags == {"PRESENT", "WRITABLE", "USER", "NX"}

ASSUME PagingAssumption ==
    /\ {PdptSize, PdSize, PtSize} \subseteq Nat \ {0}
    /\ IdentityPages \in 0 .. Frames4G
    /\ HeapPages \subseteq 0 .. IdentityPages - 1
    /\ {PoolStart, InitialPool, PoolLimit} \subseteq Nat
    /\ PoolStart + InitialPool <= PoolLimit + 1
    \* the initial pool holds every table made at boot, and is mapped
    /\ PdptSize + 2 + (IdentityPages - 1) \div PtSize <= InitialPool
    /\ PoolStart + InitialPool <= IdentityPages
    /\ MapPages \subseteq VPages \ (0 .. IdentityPages - 1)
    /\ PhysFrames \subseteq Nat \ PoolFrames      \* the memory of devices
    /\ FlagSets \subseteq SUBSET Flags

VARIABLES
    boot,               \* the stage of the boot sequence of kernel_main
    mapped,             \* pages the mapping loop of the stage has done
    page_directories,   \* frame of each page directory, NoFrame before paging_init
    mem,                \* entries of the frames that hold tables
    free_list,          \* free frames, in list order
    next_free_page,
    held,               \* frames clients got from allocate_physical_page
    tlb,                \* translations the processor has cached
    panicked,           \* a page fault in the kernel ends in kernel_panic
    asked,              \* history: what the calls asked for each virtual page
    first               \* history: who the first page mapped in a table was for

tables == <<page_directories, mem>>
allocator == <<free_list, next_free_page>>
history == <<asked, first>>
vars == <<boot, mapped, page_directories, mem, free_list, next_free_page, held,
          tlb, panicked, asked, first>>

Entry(f, flags) == [frame |-> f, flags |-> flags]
Nothing == Entry(0, {})
Zeroed == [i \in 0 .. PdSize + PtSize |-> Nothing]

\* What a page may hold: entries that would look present in a table.
Garbage(f) == [i \in DOMAIN Zeroed |-> Entry(f, {"PRESENT"})]

pdpt_index(v) == v \div (PdSize * PtSize)
pd_index(v) == (v \div PtSize) % PdSize
pt_index(v) == v % PtSize

table_index(v) == v \div PtSize
TableIndexes == {table_index(v) : v \in VPages}

Present(e) == "PRESENT" \in e.flags

\* What is left of flags in the uint32_t parameter of map_page.
Flags32(flags) == flags \ {"NX"}

-----------------------------------------------------------------------------
\* The processor's walk: the entry the tables hold for v, Nothing when some
\* level has none.
Pde(v) == mem[page_directories[pdpt_index(v)]][pd_index(v)]
Walk(v) ==
    IF page_directories[pdpt_index(v)] = NoFrame \/ ~Present(Pde(v)) THEN Nothing
    ELSE LET pte == mem[Pde(v).frame][pt_index(v)]
         IN  IF Present(pte) THEN pte ELSE Nothing

\* What the processor lets user mode do at v: both levels have to allow it (a
\* PDPT entry of PAE always does).
UserRights(v) ==
    IF Present(Walk(v)) /\ "USER" \in Pde(v).flags \cap Walk(v).flags
    THEN Walk(v).flags ELSE {}

\* The frame get_physical_addr returns: 0 for a page that is not mapped, and
\* the mask 0xFFFFF000 keeps the bits below 4 GB.
get_physical_addr(v) == Walk(v).frame % Frames4G

\* The processor may cache any present translation, once paging is on.
TlbFill ==
    /\ boot = "run" /\ ~panicked
    /\ \E v \in MapPages :
          /\ Present(Walk(v))
          /\ tlb' = {t \in tlb : t.page # v} \cup {[page |-> v, entry |-> Walk(v)]}
    /\ UNCHANGED <<boot, mapped, tables, allocator, held, panicked, history>>

\* invlpg
Invalidated_Not(v) == tlb                                           \* mutant
Invalidated(v) == {t \in tlb : t.page # v}

\* The kernel can touch frame f through its identity address.
Accessible(f) == boot # "run" \/ (f \in VPages /\ Walk(f) = Entry(f, {"PRESENT", "WRITABLE"}))

-----------------------------------------------------------------------------
\* allocate_from_free_list: the head of the list, else the next of the pool.
NextFrame == IF free_list = << >> THEN next_free_page ELSE Head(free_list)
TakeFrame ==
    /\ NextFrame \in PoolFrames
    /\ IF free_list = << >>
       THEN next_free_page' = next_free_page + 1 /\ UNCHANGED free_list
       ELSE free_list' = Tail(free_list) /\ UNCHANGED next_free_page

TableNeeded(v) == ~Present(Pde(v))

\* map_page touches the directory, and the table or the frame it becomes.
TouchedBy(v) == {page_directories[pdpt_index(v)],
                 IF TableNeeded(v) THEN NextFrame ELSE Pde(v).frame}

\* The contents of a frame that becomes a page table.
NewTable_NotZeroed(f) == mem[f]                                     \* mutant
NewTable(f) == Zeroed

TableFlags_AlwaysUser(flags) == {"PRESENT", "WRITABLE", "USER"}     \* mutant
TableFlags(flags) == {"PRESENT", "WRITABLE"} \cup (flags \cap {"USER"})

\* A table is made for v when its directory has none, then the entry is
\* written and the TLB invalidated.
map_page(v, f, flags) ==
    LET pd == page_directories[pdpt_index(v)]
        pt == IF TableNeeded(v) THEN NextFrame ELSE Pde(v).frame
        table == IF TableNeeded(v) THEN NewTable(pt) ELSE mem[pt]
        dir == IF TableNeeded(v)
               THEN [mem[pd] EXCEPT ![pd_index(v)] = Entry(pt, TableFlags(Flags32(flags)))]
               ELSE mem[pd]
    IN  /\ pd # NoFrame
        /\ IF TableNeeded(v) THEN TakeFrame ELSE UNCHANGED allocator
        /\ mem' = [mem EXCEPT ![pd] = dir,
                              ![pt] = [table EXCEPT ![pt_index(v)] = Entry(f, Flags32(flags))]]
        /\ tlb' = Invalidated(v)
        /\ asked' = [asked EXCEPT ![v] = Entry(f, flags)]
        /\ first' = IF first[table_index(v)] # "nobody" THEN first
                    ELSE [first EXCEPT ![table_index(v)] =
                             IF "USER" \in flags THEN "user" ELSE "kernel"]
        /\ UNCHANGED page_directories

\* The entry is cleared; the table stays, even when it is empty.
unmap_page(v) ==
    /\ page_directories[pdpt_index(v)] # NoFrame
    /\ Present(Pde(v))
    /\ mem' = [mem EXCEPT ![Pde(v).frame][pt_index(v)] = Nothing]
    /\ tlb' = Invalidated(v)
    /\ asked' = [asked EXCEPT ![v] = Nothing]
    /\ UNCHANGED <<page_directories, first>>

-----------------------------------------------------------------------------
Init ==
    /\ boot = "paging_init"
    /\ mapped = 0
    /\ page_directories = [i \in 0 .. PdptSize - 1 |-> NoFrame]
    /\ mem = [f \in PoolFrames |-> Garbage(f)]
    /\ free_list = << >>
    /\ next_free_page = PoolStart
    /\ held = {}
    /\ tlb = {}
    /\ panicked = FALSE
    /\ asked = [v \in VPages |-> Nothing]
    /\ first = [t \in TableIndexes |-> "nobody"]

\* init_free_list zeroes the initial pool and links it, highest frame first;
\* the PDPT and then one frame per directory are taken from it.
InitialList_OneLow == [i \in 1 .. InitialPool |-> PoolStart + InitialPool - i - 1] \* mutant
InitialList == [i \in 1 .. InitialPool |-> PoolStart + InitialPool - i]

ListAfterInit_KeepsLast == SubSeq(InitialList, PdptSize + 1, InitialPool) \* mutant
ListAfterInit == SubSeq(InitialList, PdptSize + 2, InitialPool)

paging_init ==
    /\ boot = "paging_init"
    /\ page_directories' = [i \in 0 .. PdptSize - 1 |-> InitialList[i + 2]]
    /\ mem' = [f \in PoolFrames |->
                  IF f < PoolStart + InitialPool THEN Zeroed ELSE mem[f]]
    /\ free_list' = ListAfterInit
    /\ next_free_page' = PoolStart + InitialPool
    /\ boot' = "identity"
    /\ UNCHANGED <<mapped, held, tlb, panicked, history>>

\* One call of map_page of a mapping loop over the pages of a stage.
MapOwn(stage, pages, nextStage) ==
    LET v == CHOOSE p \in pages \ (0 .. mapped - 1) :
                \A q \in pages \ (0 .. mapped - 1) : p <= q
    IN  /\ boot = stage
        /\ IF pages \subseteq 0 .. mapped - 1
           THEN /\ boot' = nextStage
                /\ mapped' = 0
                /\ UNCHANGED <<tables, allocator, tlb, history>>
           ELSE /\ map_page(v, v, {"PRESENT", "WRITABLE"})
                /\ mapped' = v + 1
                /\ UNCHANGED boot
        /\ UNCHANGED <<held, panicked>>

setup_identity_mapping_OneShort ==                                  \* mutant
    MapOwn("identity", 0 .. IdentityPages - 2, "heap")
setup_identity_mapping == MapOwn("identity", 0 .. IdentityPages - 1, "heap")
setup_kernel_heap == MapOwn("heap", HeapPages, "enable")

\* CR3 is loaded, which empties the TLB, and paging switched on.
enable_pae_paging ==
    /\ boot = "enable"
    /\ boot' = "run"
    /\ tlb' = {}
    /\ UNCHANGED <<mapped, tables, allocator, held, panicked, history>>

\* The running kernel's calls, each of which faults when a frame it touches
\* cannot be reached.
Running == boot = "run" /\ ~panicked

ClientMap ==
    /\ Running
    /\ \E v \in MapPages, f \in PhysFrames, flags \in FlagSets :
          (\A t \in TouchedBy(v) : Accessible(t)) /\ map_page(v, f, flags)
    /\ UNCHANGED <<boot, mapped, held, panicked>>

ClientUnmap ==
    /\ Running
    /\ \E v \in MapPages : unmap_page(v)
    /\ UNCHANGED <<boot, mapped, allocator, held, panicked>>

UnmapRefused ==
    /\ Running
    /\ \E v \in MapPages : ~Present(Pde(v))
    /\ UNCHANGED vars

allocate_physical_page ==
    /\ Running
    /\ Accessible(NextFrame)
    /\ TakeFrame
    /\ held' = held \cup {NextFrame}
    /\ mem' = [mem EXCEPT ![NextFrame] = Zeroed]
    /\ UNCHANGED <<boot, mapped, page_directories, tlb, panicked, history>>

\* The client has filled its page with anything, entries of a table included.
free_physical_page ==
    /\ Running
    /\ \E f \in held :
          /\ free_list' = <<f>> \o free_list
          /\ held' = held \ {f}
          /\ mem' = [mem EXCEPT ![f] = Garbage(f)]
    /\ UNCHANGED <<boot, mapped, page_directories, next_free_page, tlb, panicked, history>>

\* A touched frame that the identity map does not reach: kernel_panic.
PageFault ==
    /\ Running
    /\ \/ \E v \in MapPages : \E t \in TouchedBy(v) : t \in PoolFrames /\ ~Accessible(t)
       \/ NextFrame \in PoolFrames /\ ~Accessible(NextFrame)
    /\ panicked' = TRUE
    /\ UNCHANGED <<boot, mapped, tables, allocator, held, tlb, history>>

Next ==
    \/ paging_init
    \/ setup_identity_mapping
    \/ setup_kernel_heap
    \/ enable_pae_paging
    \/ TlbFill
    \/ ClientMap
    \/ ClientUnmap
    \/ UnmapRefused
    \/ allocate_physical_page
    \/ free_physical_page
    \/ PageFault

Spec == Init /\ [][Next]_vars

-----------------------------------------------------------------------------
TableFrames ==
    UNION {{page_directories[i]} \cup
           {mem[page_directories[i]][j].frame :
               j \in {k \in 0 .. PdSize - 1 : Present(mem[page_directories[i]][k])}} :
           i \in {k \in 0 .. PdptSize - 1 : page_directories[k] # NoFrame}}

FreeFrames == {free_list[i] : i \in 1 .. Len(free_list)}

TypeOK ==
    /\ boot \in {"paging_init", "identity", "heap", "enable", "run"}
    /\ mapped \in 0 .. IdentityPages
    /\ page_directories \in [0 .. PdptSize - 1 -> PoolFrames \cup {NoFrame}]
    /\ \A f \in PoolFrames : \A i \in DOMAIN mem[f] : mem[f][i].flags \subseteq Flags
    /\ FreeFrames \subseteq PoolFrames
    /\ next_free_page \in PoolStart .. PoolLimit + 1
    /\ held \subseteq PoolFrames
    /\ panicked \in BOOLEAN

\* Every frame drawn from the pool is, at any time, exactly one of: the PDPT, a
\* directory or page table in use, a link of the free list (once), a client's.
\* So no page table is handed out or overwritten, and none of the calls that
\* make tables leaks a frame.
TablesOwnTheirFrames ==
    boot # "paging_init" =>
        LET owners == <<{InitialList[1]}, TableFrames, FreeFrames, held>>
        IN  /\ \A i, j \in 1 .. 4 : i # j => owners[i] \cap owners[j] = {}
            /\ Cardinality(FreeFrames) = Len(free_list)
            /\ UNION {owners[i] : i \in 1 .. 4} = PoolStart .. next_free_page - 1

\* The tables translate every virtual page to the frame, with the bits of the
\* low word, that the last map_page or unmap_page of that page asked for,
\* whatever was mapped, unmapped, allocated and freed around it; and
\* get_physical_addr answers with the frame that was asked for when it is below
\* 4 GB.  The bit of the high word is left to NxKept.
TranslationExact ==
    \A v \in VPages :
        /\ Walk(v) = IF Present(asked[v])
                     THEN Entry(asked[v].frame, asked[v].flags \ {"NX"})
                     ELSE Nothing
        /\ Present(asked[v]) /\ asked[v].frame < Frames4G =>
               get_physical_addr(v) = asked[v].frame

\* "64-bit page table entries with NX bit support" (src/README.md:10), "No-execute
\* bit (bit 63)" (paging.h:19): a page mapped with PAGE_NX is not executable.
\* It is: the flags of map_page are a uint32_t, in which bit 63 does not fit.
NxKept ==
    \A v \in VPages :
        Present(asked[v]) /\ "NX" \in asked[v].flags => "NX" \in Walk(v).flags

\* User mode can do at a page what the page was mapped for, provided the first
\* page ever mapped through its table was for user mode, and else nothing: the
\* table keeps the rights of that first call.  (PAGE_NX apart: see NxKept.)
UserReachExact ==
    \A v \in VPages :
        UserRights(v) =
            IF {"PRESENT", "USER"} \subseteq asked[v].flags
               /\ first[table_index(v)] = "user"
            THEN Flags32(asked[v].flags) ELSE {}

\* The processor never uses a translation that the tables no longer hold.
TlbCoherent == \A t \in tlb : t.entry = Walk(t.page)

\* Every table and page the kernel has to touch once paging is on can be
\* reached, until the list is empty and the pool has left the identity map.
FaultOnlyBeyondIdentity ==
    panicked => free_list = << >> /\ next_free_page >= IdentityPages
=============================================================================
