---------------------------- MODULE PagingProofs ----------------------------
(***************************************************************************)
(* Proofs about Paging, for every size of the tables, every pool and every *)
(* choice of pages and flags.                                              *)
(*                                                                         *)
(* The inductive invariant says what the frames are used for: no two       *)
(* directory entries share a page table, no table is a directory, and no   *)
(* table is free or a client's (Separated).  A store to one page table     *)
(* then changes the translation of the one page it is for, which is what   *)
(* keeps the translations exact.                                           *)
(***************************************************************************)
EXTENDS Paging, ProofLemmas, SequenceTheorems, FiniteSetTheorems, FunctionTheorems

Entries == [frame : Nat, flags : SUBSET Flags]
Pdpts == 0 .. PdptSize - 1
Dirs == 0 .. PdSize - 1
Slots == Pdpts \X Dirs

Types ==
    /\ boot \in {"paging_init", "identity", "heap", "enable", "run"}
    /\ mapped \in 0 .. IdentityPages
    /\ page_directories \in [Pdpts -> PoolFrames \cup {NoFrame}]
    /\ mem \in [PoolFrames -> [0 .. PdSize + PtSize -> Entries]]
    /\ free_list \in Seq(PoolFrames)
    /\ next_free_page \in PoolStart .. PoolLimit + 1
    /\ held \subseteq PoolFrames
    /\ panicked \in BOOLEAN
    /\ asked \in [VPages -> Entries]
    /\ first \in [TableIndexes -> {"nobody", "user", "kernel"}]
    /\ tlb \subseteq [page : VPages, entry : Entries]

\* Before paging_init there is nothing; after it every directory.
BeforeInit ==
    boot = "paging_init" =>
        /\ page_directories = [i \in Pdpts |-> NoFrame]
        /\ asked = [v \in VPages |-> Nothing]
        /\ first = [t \in TableIndexes |-> "nobody"]
        /\ tlb = {} /\ held = {} /\ mapped = 0 /\ ~panicked

SlotEntry(i, j) == mem[page_directories[i]][j]
Pdpt == PoolStart + InitialPool - 1         \* the frame of the PDPT

\* A frame that is the PDPT, free or a client's is no table.
Separated ==
    /\ \A i \in Pdpts : page_directories[i] \in PoolFrames \ (FreeFrames \cup held \cup {Pdpt})
    /\ \A i, k \in Pdpts : page_directories[i] = page_directories[k] => i = k
    /\ \A i \in Pdpts, j \in Dirs : Present(SlotEntry(i, j)) =>
          /\ SlotEntry(i, j).frame \in PoolFrames \ (FreeFrames \cup held \cup {Pdpt})
          /\ \A k \in Pdpts : page_directories[k] # SlotEntry(i, j).frame
          /\ \A k \in Pdpts, l \in Dirs :
                Present(SlotEntry(k, l)) /\ SlotEntry(k, l).frame = SlotEntry(i, j).frame
                => k = i /\ l = j

FreeOnce ==
    /\ \A a, b \in 1 .. Len(free_list) : free_list[a] = free_list[b] => a = b
    /\ FreeFrames \cap held = {}
    /\ Pdpt \notin FreeFrames \cup held

Accounted ==
    {Pdpt} \cup TableFrames \cup FreeFrames \cup held = PoolStart .. next_free_page - 1

\* What the tables should hold for a page, and the rights of its table.
Want(v) == LET e == Entry(asked[v].frame, Flags32(asked[v].flags))
           IN  IF Present(e) THEN e ELSE Nothing
Translated == \A v \in VPages : Walk(v) = Want(v)

RightsKept ==
    \A v \in VPages :
        IF Present(Pde(v))
        THEN /\ first[table_index(v)] # "nobody"
             /\ "USER" \in Pde(v).flags <=> first[table_index(v)] = "user"
        ELSE first[table_index(v)] = "nobody"

AfterInit == boot # "paging_init" => Separated /\ FreeOnce /\ Accounted /\ RightsKept

\* The identity map as far as it has been made; nothing else of the kernel's.
Own(v) == Entry(v, {"PRESENT", "WRITABLE"})
IdentityKept ==
    /\ boot = "identity" => \A v \in 0 .. mapped - 1 : asked[v] = Own(v)
    /\ boot \in {"heap", "enable", "run"} =>
          \A v \in 0 .. IdentityPages - 1 : asked[v] = Own(v)
    /\ \A v \in VPages : Present(asked[v]) /\ v >= IdentityPages => asked[v].frame \in PhysFrames

\* The tables that the first m pages of the identity map need.
TablesFor(m) == IF m = 0 THEN 0 ELSE table_index(m - 1) + 1

\* Boot takes its tables from the initial pool, which is mapped by then.
BootTables ==
    /\ boot = "identity" =>
          /\ Len(free_list) = InitialPool - PdptSize - 1 - TablesFor(mapped)
          /\ \A v \in VPages : Present(Pde(v)) <=> table_index(v) < TablesFor(mapped)
    /\ boot \in {"identity", "heap", "enable"} => next_free_page = PoolStart + InitialPool
    /\ boot # "run" => ~panicked
    /\ next_free_page <= IdentityPages

IInv ==
    /\ Types /\ BeforeInit /\ AfterInit /\ Translated /\ TlbCoherent /\ IdentityKept
    /\ BootTables /\ FaultOnlyBeyondIdentity

-----------------------------------------------------------------------------
(***************************************************************************)
(* The indexes of a virtual page.                                          *)
(***************************************************************************)
\* The three indexes of a page are in range and determine its table and it.
LEMMA IndexFacts ==
    ASSUME NEW v \in VPages
    PROVE  /\ v \in Nat /\ v < PdptSize * PdSize * PtSize
           /\ pdpt_index(v) \in Pdpts /\ pd_index(v) \in Dirs /\ pt_index(v) \in 0 .. PtSize - 1
           /\ table_index(v) \in TableIndexes /\ table_index(v) \in Nat
           /\ pdpt_index(v) = table_index(v) \div PdSize
           /\ pd_index(v) = table_index(v) % PdSize
           /\ table_index(v) = PdSize * pdpt_index(v) + pd_index(v)
           /\ v = PtSize * table_index(v) + pt_index(v)
  <1>1. /\ PdptSize \in Nat \ {0} /\ PdSize \in Nat \ {0} /\ PtSize \in Nat \ {0}
    BY PagingAssumption
  <1>2. v \in Nat /\ v < PdptSize * PdSize * PtSize
    BY <1>1 DEF VPages
  <1> DEFINE t == v \div PtSize
  <1>3. t \in Nat /\ v % PtSize \in 0 .. PtSize - 1 /\ v = PtSize * t + (v % PtSize)
    BY <1>1, <1>2, DivMod
  <1>4. v \div (PdSize * PtSize) = t \div PdSize
    BY <1>1, <1>2, DivDiv
  <1> HIDE DEF t
  <1>5. t \div PdSize \in Nat /\ t % PdSize \in 0 .. PdSize - 1
        /\ t = PdSize * (t \div PdSize) + (t % PdSize)
    BY <1>1, <1>3, DivMod
  <1> DEFINE q == t \div PdSize
  <1> HIDE DEF q
  <1>6. q < PdptSize
    <2>1. PtSize * t <= v /\ PdSize * q <= t
      BY <1>1, <1>3, <1>5 DEF q
    <2>2. PtSize * (PdSize * q) <= PtSize * t
      BY <1>1, <1>3, <1>5, <2>1 DEF q
    <2>3. PtSize * (PdSize * q) < PdptSize * PdSize * PtSize
      BY <1>1, <1>2, <1>3, <1>5, <2>1, <2>2 DEF q
    <2>4. q \in Nat /\ PdptSize * PdSize * PtSize = PtSize * (PdSize * PdptSize)
      BY <1>1, <1>5 DEF q
    <2>5. q >= PdptSize => PdSize * q >= PdSize * PdptSize
      BY <1>1, <2>4
    <2>6. PdSize * q >= PdSize * PdptSize =>
              PtSize * (PdSize * q) >= PtSize * (PdSize * PdptSize)
      BY <1>1, <2>4
    <2>7. PtSize * (PdSize * q) \in Int /\ PtSize * (PdSize * PdptSize) \in Int
      BY <1>1, <2>4
    <2> QED
      BY <1>1, <2>3, <2>4, <2>5, <2>6, <2>7
  <1>7. table_index(v) = t /\ pdpt_index(v) = q /\ pd_index(v) = t % PdSize
        /\ pt_index(v) = v % PtSize
    BY <1>4 DEF table_index, pdpt_index, pd_index, pt_index, t, q
  <1>8. table_index(v) \in TableIndexes
    BY DEF TableIndexes
  <1>9. q \in Pdpts /\ t % PdSize \in Dirs
    BY <1>1, <1>5, <1>6 DEF Pdpts, Dirs, q
  <1>10. q = t \div PdSize /\ t = PdSize * q + (t % PdSize)
    BY <1>5 DEF q
  <1> QED
    BY <1>2, <1>3, <1>7, <1>8, <1>9, <1>10, Zenon

\* Two pages of one table share both upper indexes; of one place, they are one.
LEMMA SamePlace ==
    ASSUME NEW v \in VPages, NEW w \in VPages
    PROVE  /\ table_index(v) = table_index(w) <=>
                 pdpt_index(v) = pdpt_index(w) /\ pd_index(v) = pd_index(w)
           /\ table_index(v) = table_index(w) /\ pt_index(v) = pt_index(w) => v = w
  BY IndexFacts

\* The walk in terms of the entry for the directory slot: every directory is
\* there.
WalksAre ==
    Separated =>
    \A v \in VPages :
        /\ Pde(v) = SlotEntry(pdpt_index(v), pd_index(v))
        /\ Walk(v) = IF Present(Pde(v)) /\ Present(mem[Pde(v).frame][pt_index(v)])
                     THEN mem[Pde(v).frame][pt_index(v)] ELSE Nothing
        /\ Present(Pde(v)) => Pde(v).frame \in PoolFrames

\* A page is walked through its slot.
LEMMA WalkFacts == WalksAre
  <1> SUFFICES ASSUME Separated, NEW v \in VPages
               PROVE  /\ Pde(v) = SlotEntry(pdpt_index(v), pd_index(v))
                      /\ Walk(v) = IF Present(Pde(v)) /\ Present(mem[Pde(v).frame][pt_index(v)])
                                   THEN mem[Pde(v).frame][pt_index(v)] ELSE Nothing
                      /\ Present(Pde(v)) => Pde(v).frame \in PoolFrames
    BY DEF WalksAre
  <1>1. pdpt_index(v) \in Pdpts /\ pd_index(v) \in Dirs
    BY IndexFacts
  <1>2. Pde(v) = SlotEntry(pdpt_index(v), pd_index(v))
    BY DEF Pde, SlotEntry
  <1>3. page_directories[pdpt_index(v)] # NoFrame
    BY <1>1, PagingAssumption DEF Separated, PoolFrames, NoFrame
  <1>4. Present(Pde(v)) => Pde(v).frame \in PoolFrames
    BY <1>1, <1>2 DEF Separated
  <1> QED
    BY <1>2, <1>3, <1>4 DEF Walk

\* So it is after a step.
LEMMA WalkFactsNext == WalksAre'
  BY WalkFacts, PTL

\* Directory entries and translations are entries.
LEMMA WalkTypes ==
    ASSUME Types, Separated, NEW v \in VPages
    PROVE  /\ Pde(v) \in Entries /\ Walk(v) \in Entries
           /\ Present(Pde(v)) => mem[Pde(v).frame][pt_index(v)] \in Entries
  <1>1. /\ pdpt_index(v) \in Pdpts /\ pd_index(v) \in Dirs /\ pt_index(v) \in 0 .. PtSize - 1
    BY IndexFacts
  <1>2. pd_index(v) \in 0 .. PdSize + PtSize /\ pt_index(v) \in 0 .. PdSize + PtSize
    BY <1>1, PagingAssumption DEF Dirs
  <1>3. Pde(v) \in Entries
    <2>1. page_directories[pdpt_index(v)] \in PoolFrames
      BY <1>1 DEF Separated
    <2> QED
      BY <1>2, <2>1 DEF Types, Pde
  <1>4. Present(Pde(v)) => mem[Pde(v).frame][pt_index(v)] \in Entries
    BY <1>2, WalkFacts DEF WalksAre, Types
  <1>5. Nothing \in Entries
    BY DEF Nothing, Entry, Entries
  <1> QED
    BY <1>3, <1>4, <1>5, WalkFacts DEF WalksAre

-----------------------------------------------------------------------------
(***************************************************************************)
(* The frames.                                                             *)
(***************************************************************************)
\* The frames of tables are those of the directories and of the slots.
IsTableFrame(f) ==
    \/ \E i \in Pdpts : f = page_directories[i]
    \/ \E i \in Pdpts, j \in Dirs : Present(SlotEntry(i, j)) /\ f = SlotEntry(i, j).frame
TablesAreSlots == Separated => \A f : f \in TableFrames <=> IsTableFrame(f)

\* Whatever the tables hold, their frames are those.
LEMMA TableFramesAre == TablesAreSlots
  <1> SUFFICES ASSUME Separated, NEW f
               PROVE  f \in TableFrames <=> IsTableFrame(f)
    BY DEF TablesAreSlots
  <1>1. \A i \in Pdpts : page_directories[i] # NoFrame
    BY PagingAssumption DEF Separated, PoolFrames, NoFrame
  <1> QED
    BY <1>1 DEF TableFrames, IsTableFrame, Pdpts, Dirs, SlotEntry

\* So they are after a step.
LEMMA TableFramesAreNext == TablesAreSlots'
  BY TableFramesAre, PTL

\* A frame taken was in nobody's use, and is no longer free.
LEMMA TakeFrameFacts ==
    ASSUME Types, Separated, FreeOnce, Accounted, TakeFrame
    PROVE  /\ NextFrame \in PoolFrames
           /\ NextFrame \notin TableFrames \cup held \cup {Pdpt}
           /\ free_list' \in Seq(PoolFrames)
           /\ next_free_page' \in PoolStart .. PoolLimit + 1
           /\ next_free_page' = next_free_page \/ next_free_page' = NextFrame + 1
           /\ FreeFrames' = FreeFrames \ {NextFrame}
           /\ \A a, b \in 1 .. Len(free_list') : free_list'[a] = free_list'[b] => a = b
           /\ PoolStart .. next_free_page' - 1
                  = (PoolStart .. next_free_page - 1) \cup {NextFrame}
  <1>1. NextFrame \in PoolFrames /\ PoolStart \in Nat /\ PoolLimit \in Nat
    BY PagingAssumption DEF TakeFrame
  <1>2. free_list \in Seq(PoolFrames) /\ next_free_page \in PoolStart .. PoolLimit + 1
    BY DEF Types
  <1>3. \A f \in TableFrames : f \notin FreeFrames \cup held \cup {Pdpt}
    BY TableFramesAre DEF TablesAreSlots, IsTableFrame, Separated
  <1>4. CASE free_list = << >>
    <2>1. NextFrame = next_free_page /\ next_free_page' = next_free_page + 1
          /\ free_list' = free_list
      BY <1>4 DEF NextFrame, TakeFrame
    <2>2. FreeFrames = {} /\ FreeFrames' = {}
      BY <1>4, <2>1 DEF FreeFrames
    <2>3. NextFrame \notin PoolStart .. next_free_page - 1
      BY <1>2, <2>1
    <2>4. NextFrame \notin TableFrames \cup held \cup {Pdpt}
      BY <2>3 DEF Accounted
    <2>5. next_free_page' \in PoolStart .. PoolLimit + 1
      BY <1>1, <1>2, <2>1 DEF PoolFrames
    <2>6. PoolStart .. next_free_page' - 1 = (PoolStart .. next_free_page - 1) \cup {NextFrame}
      BY <1>1, <1>2, <2>1
    <2> QED
      BY <1>1, <1>2, <1>4, <2>1, <2>2, <2>4, <2>5, <2>6
  <1>5. CASE free_list # << >>
    <2>1. NextFrame = Head(free_list) /\ next_free_page' = next_free_page
          /\ free_list' = Tail(free_list)
      BY <1>5 DEF NextFrame, TakeFrame
    <2>2. /\ Len(free_list) \in Nat \ {0} /\ NextFrame = free_list[1]
          /\ free_list' \in Seq(PoolFrames) /\ Len(free_list') = Len(free_list) - 1
          /\ \A i \in 1 .. Len(free_list') : free_list'[i] = free_list[i + 1]
      BY <1>2, <1>5, <2>1
    <2>3. NextFrame \in FreeFrames
      BY <2>2 DEF FreeFrames
    <2>4. NextFrame \notin TableFrames \cup held \cup {Pdpt}
      BY <1>3, <2>3 DEF FreeOnce
    <2>5. \A a, b \in 1 .. Len(free_list) : free_list[a] = free_list[b] => a = b
      BY DEF FreeOnce
    <2>6. \A a, b \in 1 .. Len(free_list') : free_list'[a] = free_list'[b] => a = b
      BY <2>2, <2>5
    <2>7. ASSUME NEW f
          PROVE  f \in FreeFrames' <=> f \in FreeFrames \ {NextFrame}
      <3>1. ASSUME NEW i \in 1 .. Len(free_list'), f = free_list'[i]
            PROVE  f \in FreeFrames \ {NextFrame}
        BY <2>2, <2>5, <3>1 DEF FreeFrames
      <3>2. ASSUME NEW i \in 1 .. Len(free_list), f = free_list[i], f # NextFrame
            PROVE  f \in FreeFrames'
        <4>1. i - 1 \in 1 .. Len(free_list')
          BY <2>2, <3>2
        <4>2. f = free_list'[i - 1]
          BY <2>2, <3>2, <4>1
        <4> QED
          BY <4>1, <4>2 DEF FreeFrames
      <3> QED
        BY <3>1, <3>2 DEF FreeFrames
    <2>8. NextFrame \in PoolStart .. next_free_page - 1
      BY <2>3 DEF Accounted
    <2> QED
      BY <1>1, <1>2, <2>1, <2>2, <2>4, <2>6, <2>7, <2>8
  <1> QED
    BY <1>4, <1>5

-----------------------------------------------------------------------------
(***************************************************************************)
(* map_page and unmap_page.                                                *)
(***************************************************************************)
FramesWell == Types /\ Separated /\ FreeOnce /\ Accounted
TableOf(v) == IF TableNeeded(v) THEN NextFrame ELSE Pde(v).frame

\* The stores of map_page: to the slot of the page when it makes a table, and
\* to the page's place in its table; a new table is empty elsewhere.
LEMMA MapStores ==
    ASSUME FramesWell, NEW v \in VPages, NEW f \in Nat, NEW flags \in SUBSET Flags,
           map_page(v, f, flags)
    PROVE  /\ page_directories' = page_directories
           /\ mem' \in [PoolFrames -> [0 .. PdSize + PtSize -> Entries]]
           /\ TableOf(v) \in PoolFrames
           /\ \A k \in Pdpts : page_directories[k] # TableOf(v)
           /\ \A i \in Pdpts, j \in Dirs :
                 SlotEntry(i, j)' =
                     IF TableNeeded(v) /\ i = pdpt_index(v) /\ j = pd_index(v)
                     THEN Entry(TableOf(v), TableFlags(Flags32(flags))) ELSE SlotEntry(i, j)
           /\ \A g \in PoolFrames :
                 g # TableOf(v) /\ (\A k \in Pdpts : page_directories[k] # g)
                 => mem'[g] = mem[g]
           /\ \A k \in 0 .. PtSize - 1 :
                 mem'[TableOf(v)][k] =
                     IF k = pt_index(v) THEN Entry(f, Flags32(flags))
                     ELSE IF TableNeeded(v) THEN Nothing ELSE mem[TableOf(v)][k]
  <1> DEFINE pd == page_directories[pdpt_index(v)]
             pt == TableOf(v)
             table == IF TableNeeded(v) THEN Zeroed ELSE mem[pt]
             slot == Entry(pt, TableFlags(Flags32(flags)))
             dir == IF TableNeeded(v) THEN [mem[pd] EXCEPT ![pd_index(v)] = slot] ELSE mem[pd]
             e == Entry(f, Flags32(flags))
             full == [table EXCEPT ![pt_index(v)] = e]
  <1>1. Types /\ Separated /\ FreeOnce /\ Accounted
    BY DEF FramesWell
  <1>2. /\ pdpt_index(v) \in Pdpts /\ pd_index(v) \in Dirs /\ pt_index(v) \in 0 .. PtSize - 1
    BY IndexFacts
  <1>3. PdSize \in Nat \ {0} /\ PtSize \in Nat \ {0} /\ PoolFrames \subseteq Nat
    BY PagingAssumption DEF PoolFrames
  <1>4. pd \in PoolFrames
    BY <1>1, <1>2 DEF Separated
  <1>5. Pde(v) = SlotEntry(pdpt_index(v), pd_index(v))
    BY DEF Pde, SlotEntry
  <1>6. TableNeeded(v) => TakeFrame
    BY DEF map_page
  <1>7. pt \in PoolFrames /\ \A k \in Pdpts : page_directories[k] # pt
    <2>1. CASE TableNeeded(v)
      <3>1. NextFrame \in PoolFrames /\ NextFrame \notin TableFrames
        BY <1>1, <1>6, <2>1, TakeFrameFacts
      <3>2. \A k \in Pdpts : page_directories[k] \in TableFrames
        BY <1>1, TableFramesAre DEF TablesAreSlots, IsTableFrame
      <3> QED
        BY <2>1, <3>1, <3>2 DEF TableOf
    <2>2. CASE ~TableNeeded(v)
      BY <1>1, <1>2, <1>5, <2>2 DEF TableOf, TableNeeded, Separated
    <2> QED
      BY <2>1, <2>2
  <1>8. mem' = [mem EXCEPT ![pd] = dir, ![pt] = full]
    BY DEF map_page, TableOf, NewTable
  <1>9. page_directories' = page_directories
    BY DEF map_page
  <1>10. mem \in [PoolFrames -> [0 .. PdSize + PtSize -> Entries]]
    BY <1>1 DEF Types
  <1>11. slot \in Entries /\ e \in Entries /\ Nothing \in Entries
    BY <1>3, <1>7 DEF Entries, Entry, TableFlags, Flags32, Flags, Nothing
  <1>12. table \in [0 .. PdSize + PtSize -> Entries]
    BY <1>7, <1>10, <1>11 DEF Zeroed
  <1>13. pd_index(v) \in 0 .. PdSize + PtSize /\ pt_index(v) \in 0 .. PdSize + PtSize
         /\ Dirs \subseteq 0 .. PdSize + PtSize /\ 0 .. PtSize - 1 \subseteq 0 .. PdSize + PtSize
    BY <1>2, <1>3 DEF Dirs
  <1> HIDE DEF pt, slot, e, table
  <1>14. dir \in [0 .. PdSize + PtSize -> Entries] /\ full \in [0 .. PdSize + PtSize -> Entries]
    BY <1>4, <1>10, <1>11, <1>12, <1>13
  <1>15. pd # pt
    BY <1>2, <1>7
  <1>16. \A j \in Dirs : dir[j] = IF TableNeeded(v) /\ j = pd_index(v) THEN slot ELSE mem[pd][j]
    BY <1>4, <1>10, <1>13
  <1>17. \A k \in 0 .. PtSize - 1 : full[k] = IF k = pt_index(v) THEN e ELSE table[k]
    BY <1>12, <1>13
  <1>18. \A k \in 0 .. PtSize - 1 : table[k] = IF TableNeeded(v) THEN Nothing ELSE mem[pt][k]
    BY <1>13 DEF table, Zeroed
  <1> HIDE DEF pd, dir, full
  <1>19. /\ mem' \in [PoolFrames -> [0 .. PdSize + PtSize -> Entries]]
         /\ mem'[pd] = dir /\ mem'[pt] = full
         /\ \A g \in PoolFrames : g # pd /\ g # pt => mem'[g] = mem[g]
    BY <1>4, <1>7, <1>8, <1>10, <1>14, <1>15
  <1>20. ASSUME NEW i \in Pdpts, NEW j \in Dirs
         PROVE  SlotEntry(i, j)' = IF TableNeeded(v) /\ i = pdpt_index(v) /\ j = pd_index(v)
                                   THEN slot ELSE SlotEntry(i, j)
    <2>1. SlotEntry(i, j)' = mem'[page_directories[i]][j]
      BY <1>9 DEF SlotEntry
    <2>2. CASE i = pdpt_index(v)
      BY <1>16, <1>19, <2>1, <2>2 DEF SlotEntry, pd
    <2>3. CASE i # pdpt_index(v)
      <3>1. page_directories[i] # pd /\ page_directories[i] \in PoolFrames
        BY <1>1, <1>2, <2>3 DEF Separated, pd
      <3> QED
        BY <1>7, <1>19, <2>1, <2>3, <3>1 DEF SlotEntry
    <2> QED
      BY <2>2, <2>3
  <1>21. pd = page_directories[pdpt_index(v)]
    BY DEF pd
  <1> QED
    BY <1>2, <1>7, <1>9, <1>17, <1>18, <1>19, <1>20, <1>21 DEF pt, slot, e

\* A new table's slot is the only one that changes, and it was empty.
LEMMA SlotsAfterMap ==
    ASSUME FramesWell, NEW v \in VPages, NEW f \in Nat, NEW flags \in SUBSET Flags,
           map_page(v, f, flags), NEW i \in Pdpts, NEW j \in Dirs
    PROVE  /\ Present(SlotEntry(i, j)) =>
                 Present(SlotEntry(i, j)') /\ SlotEntry(i, j)' = SlotEntry(i, j)
           /\ Present(SlotEntry(i, j)') =>
                 \/ Present(SlotEntry(i, j)) /\ SlotEntry(i, j)' = SlotEntry(i, j)
                 \/ /\ TableNeeded(v) /\ i = pdpt_index(v) /\ j = pd_index(v)
                    /\ SlotEntry(i, j)'.frame = NextFrame
  <1>1. SlotEntry(i, j)' = IF TableNeeded(v) /\ i = pdpt_index(v) /\ j = pd_index(v)
                           THEN Entry(TableOf(v), TableFlags(Flags32(flags)))
                           ELSE SlotEntry(i, j)
    BY MapStores
  <1>2. TableNeeded(v) => ~Present(SlotEntry(pdpt_index(v), pd_index(v)))
    BY DEF TableNeeded, Pde, SlotEntry
  <1> QED
    BY <1>1, <1>2 DEF TableOf, Entry

\* So map_page leaves every frame with one use.
LEMMA MapKeepsFrames ==
    ASSUME FramesWell, NEW v \in VPages, NEW f \in Nat, NEW flags \in SUBSET Flags,
           map_page(v, f, flags), held' = held
    PROVE  Separated' /\ FreeOnce' /\ Accounted'
  <1> DEFINE took == TableNeeded(v)
  <1>1. Types /\ Separated /\ FreeOnce /\ Accounted
    BY DEF FramesWell
  <1>2. page_directories' = page_directories
    BY MapStores
  <1>3. IF took THEN TakeFrame ELSE UNCHANGED <<free_list, next_free_page>>
    BY DEF map_page, allocator
  <1>4. CASE took
    <2>1. /\ NextFrame \in PoolFrames
          /\ NextFrame \notin TableFrames \cup held \cup {Pdpt}
          /\ FreeFrames' = FreeFrames \ {NextFrame}
          /\ \A a, b \in 1 .. Len(free_list') : free_list'[a] = free_list'[b] => a = b
          /\ PoolStart .. next_free_page' - 1 = (PoolStart .. next_free_page - 1) \cup {NextFrame}
      BY <1>1, <1>3, <1>4, TakeFrameFacts
    <2>2. FreeOnce'
      BY <1>1, <2>1 DEF FreeOnce, Pdpt
    <2>3. /\ \A k \in Pdpts : page_directories[k] # NextFrame
          /\ \A k \in Pdpts, l \in Dirs : Present(SlotEntry(k, l)) => SlotEntry(k, l).frame # NextFrame
      BY <1>1, <2>1, TableFramesAre DEF TablesAreSlots, IsTableFrame
    <2>4. \A i \in Pdpts :
              page_directories'[i] \in PoolFrames \ (FreeFrames' \cup held' \cup {Pdpt'})
      BY <1>1, <1>2, <2>1 DEF Separated, Pdpt
    <2>5. ASSUME NEW i \in Pdpts, NEW j \in Dirs, Present(SlotEntry(i, j)')
          PROVE  /\ SlotEntry(i, j)'.frame
                        \in PoolFrames \ (FreeFrames' \cup held' \cup {Pdpt'})
                 /\ \A k \in Pdpts : page_directories'[k] # SlotEntry(i, j)'.frame
      <3>1. CASE Present(SlotEntry(i, j)) /\ SlotEntry(i, j)' = SlotEntry(i, j)
        BY <1>1, <1>2, <2>1, <3>1 DEF Separated, Pdpt
      <3>2. CASE SlotEntry(i, j)'.frame = NextFrame
        BY <1>2, <2>1, <2>3, <3>2 DEF Pdpt
      <3> QED
        BY <2>5, <3>1, <3>2, SlotsAfterMap
    <2>6. ASSUME NEW i \in Pdpts, NEW j \in Dirs, Present(SlotEntry(i, j)'),
                 NEW k \in Pdpts, NEW l \in Dirs, Present(SlotEntry(k, l)'),
                 SlotEntry(k, l)'.frame = SlotEntry(i, j)'.frame
          PROVE  k = i /\ l = j
      <3>1. \/ Present(SlotEntry(i, j)) /\ SlotEntry(i, j)' = SlotEntry(i, j)
            \/ /\ i = pdpt_index(v) /\ j = pd_index(v)
               /\ SlotEntry(i, j)'.frame = NextFrame
        BY <2>6, SlotsAfterMap
      <3>2. \/ Present(SlotEntry(k, l)) /\ SlotEntry(k, l)' = SlotEntry(k, l)
            \/ /\ k = pdpt_index(v) /\ l = pd_index(v)
               /\ SlotEntry(k, l)'.frame = NextFrame
        BY <2>6, SlotsAfterMap
      <3> QED
        BY <1>1, <2>3, <2>6, <3>1, <3>2 DEF Separated
    <2>7. Separated'
      BY <1>1, <1>2, <2>4, <2>5, <2>6 DEF Separated
    <2>8. ASSUME NEW g PROVE g \in TableFrames' <=> g \in TableFrames \cup {NextFrame}
      <3>1. IsTableFrame(g)' =>  g \in TableFrames \cup {NextFrame}
        BY <1>1, <1>2, SlotsAfterMap, TableFramesAre DEF TablesAreSlots, IsTableFrame
      <3>2. IsTableFrame(g) => IsTableFrame(g)'
        BY <1>2, SlotsAfterMap DEF IsTableFrame
      <3>3. ASSUME g = NextFrame PROVE IsTableFrame(g)'
        <4>1. SlotEntry(pdpt_index(v), pd_index(v))' =
                  Entry(NextFrame, TableFlags(Flags32(flags)))
          BY <1>4, IndexFacts, MapStores DEF TableOf
        <4>2. NextFrame = Entry(NextFrame, TableFlags(Flags32(flags))).frame
              /\ Present(Entry(NextFrame, TableFlags(Flags32(flags))))
          BY DEF Entry, TableFlags, Present
        <4> QED
          BY <3>3, <4>1, <4>2, IndexFacts DEF IsTableFrame
      <3> QED
        BY <1>1, <2>7, <3>1, <3>2, <3>3, TableFramesAre, TableFramesAreNext DEF TablesAreSlots
    <2>9. Accounted'
      BY <1>1, <2>1, <2>8 DEF Accounted, Pdpt
    <2> QED
      BY <2>2, <2>7, <2>9
  <1>5. CASE ~took
    <2>1. \A i \in Pdpts, j \in Dirs : SlotEntry(i, j)' = SlotEntry(i, j)
      BY <1>5, MapStores
    <2>2. FreeFrames' = FreeFrames
      BY <1>3, <1>5 DEF FreeFrames
    <2>3. Separated' /\ FreeOnce'
      BY <1>1, <1>2, <1>3, <1>5, <2>1, <2>2 DEF Separated, FreeOnce, Pdpt
    <2>4. \A g : g \in TableFrames' <=> g \in TableFrames
      BY <1>1, <1>2, <2>1, <2>3, TableFramesAre, TableFramesAreNext
         DEF TablesAreSlots, IsTableFrame
    <2> QED
      BY <1>1, <1>3, <1>5, <2>2, <2>3, <2>4 DEF Accounted, Pdpt
  <1> QED
    BY <1>4, <1>5

\* map_page changes the translation of its page, and of no other; the only
\* directory entry it changes is one that was empty.
LEMMA MapWalks ==
    ASSUME FramesWell, NEW v \in VPages, NEW f \in Nat, NEW flags \in SUBSET Flags,
           map_page(v, f, flags), held' = held, NEW w \in VPages
    PROVE  /\ Pde(w)' = IF TableNeeded(v) /\ table_index(w) = table_index(v)
                        THEN Entry(NextFrame, TableFlags(Flags32(flags))) ELSE Pde(w)
           /\ Walk(w)' = IF w # v THEN Walk(w)
                         ELSE IF Present(Entry(f, Flags32(flags)))
                         THEN Entry(f, Flags32(flags)) ELSE Nothing
  <1> DEFINE e == Entry(f, Flags32(flags))
             slot == Entry(NextFrame, TableFlags(Flags32(flags)))
  <1>1. Separated /\ Separated'
    BY MapKeepsFrames DEF FramesWell
  <1>2. /\ pdpt_index(v) \in Pdpts /\ pd_index(v) \in Dirs /\ pt_index(v) \in 0 .. PtSize - 1
        /\ pdpt_index(w) \in Pdpts /\ pd_index(w) \in Dirs /\ pt_index(w) \in 0 .. PtSize - 1
    BY IndexFacts
  <1>3. /\ Pde(v) = SlotEntry(pdpt_index(v), pd_index(v))
        /\ Pde(w) = SlotEntry(pdpt_index(w), pd_index(w))
        /\ Walk(w) = IF Present(Pde(w)) /\ Present(mem[Pde(w).frame][pt_index(w)])
                     THEN mem[Pde(w).frame][pt_index(w)] ELSE Nothing
        /\ Present(Pde(w)) => Pde(w).frame \in PoolFrames
    BY <1>1, WalkFacts DEF WalksAre
  <1>4. /\ Pde(w)' = SlotEntry(pdpt_index(w), pd_index(w))'
        /\ Walk(w)' = IF Present(Pde(w)') /\ Present(mem'[Pde(w)'.frame][pt_index(w)])
                      THEN mem'[Pde(w)'.frame][pt_index(w)] ELSE Nothing
    BY <1>1, WalkFactsNext DEF WalksAre
  <1>5. SlotEntry(pdpt_index(w), pd_index(w))' =
            IF TableNeeded(v) /\ pdpt_index(w) = pdpt_index(v) /\ pd_index(w) = pd_index(v)
            THEN Entry(TableOf(v), TableFlags(Flags32(flags)))
            ELSE SlotEntry(pdpt_index(w), pd_index(w))
    BY <1>2, MapStores
  <1>6. /\ table_index(w) = table_index(v) <=>
              pdpt_index(w) = pdpt_index(v) /\ pd_index(w) = pd_index(v)
        /\ table_index(w) = table_index(v) /\ pt_index(w) = pt_index(v) => w = v
    BY SamePlace
  <1>7. Pde(w)' = IF TableNeeded(v) /\ table_index(w) = table_index(v) THEN slot ELSE Pde(w)
    BY <1>3, <1>4, <1>5, <1>6 DEF TableOf
  <1>8. /\ \A g \in PoolFrames :
              g # TableOf(v) /\ (\A k \in Pdpts : page_directories[k] # g) => mem'[g] = mem[g]
        /\ \A k \in 0 .. PtSize - 1 :
              mem'[TableOf(v)][k] = IF k = pt_index(v) THEN e
                                    ELSE IF TableNeeded(v) THEN Nothing ELSE mem[TableOf(v)][k]
    BY MapStores
  <1>9. /\ slot.frame = NextFrame /\ Present(slot) /\ ~Present(Nothing)
    BY DEF Entry, TableFlags, Present, Nothing
  <1> HIDE DEF e, slot
  <1>10. CASE table_index(w) = table_index(v)
    <2>1. Pde(w) = Pde(v) /\ Pde(w)' = IF TableNeeded(v) THEN slot ELSE Pde(w)
      BY <1>3, <1>6, <1>7, <1>10
    <2>2. Present(Pde(w)') /\ Pde(w)'.frame = TableOf(v)
      BY <1>9, <2>1 DEF TableOf, TableNeeded
    <2>3. Walk(w)' = IF Present(mem'[TableOf(v)][pt_index(w)])
                     THEN mem'[TableOf(v)][pt_index(w)] ELSE Nothing
      BY <1>4, <2>2
    <2>4. mem'[TableOf(v)][pt_index(w)] =
              IF w = v THEN e ELSE IF TableNeeded(v) THEN Nothing ELSE mem[TableOf(v)][pt_index(w)]
      BY <1>2, <1>6, <1>8, <1>10
    <2>5. CASE w = v
      BY <1>7, <2>3, <2>4, <2>5 DEF e, slot
    <2>6. CASE w # v
      <3>1. CASE TableNeeded(v)
        <4>1. Walk(w) = Nothing
          BY <1>3, <2>1, <3>1 DEF TableNeeded
        <4> QED
          BY <1>7, <1>9, <2>3, <2>4, <2>6, <3>1, <4>1 DEF slot
      <3>2. CASE ~TableNeeded(v)
        <4>1. TableOf(v) = Pde(w).frame /\ Present(Pde(w))
          BY <2>1, <3>2 DEF TableOf, TableNeeded
        <4> QED
          BY <1>3, <1>7, <2>3, <2>4, <2>6, <3>2, <4>1 DEF slot
      <3> QED
        BY <3>1, <3>2
    <2> QED
      BY <2>5, <2>6
  <1>11. CASE table_index(w) # table_index(v)
    <2>1. Pde(w)' = Pde(w) /\ w # v
      BY <1>7, <1>11
    <2>2. ASSUME Present(Pde(w)) PROVE mem'[Pde(w).frame] = mem[Pde(w).frame]
      <3>1. \A k \in Pdpts : page_directories[k] # Pde(w).frame
        BY <1>1, <1>2, <1>3, <2>2 DEF Separated
      <3>2. Pde(w).frame # TableOf(v)
        <4>1. CASE TableNeeded(v)
          <5>1. NextFrame \notin TableFrames
            BY <4>1, TakeFrameFacts DEF FramesWell, map_page
          <5>2. Pde(w).frame \in TableFrames
            BY <1>1, <1>2, <1>3, <2>2, TableFramesAre DEF TablesAreSlots, IsTableFrame
          <5> QED
            BY <4>1, <5>1, <5>2 DEF TableOf
        <4>2. CASE ~TableNeeded(v)
          BY <1>1, <1>2, <1>3, <1>6, <1>11, <2>2, <4>2 DEF TableOf, TableNeeded, Separated
        <4> QED
          BY <4>1, <4>2
      <3> QED
        BY <1>3, <1>8, <2>2, <3>1, <3>2
    <2> QED
      BY <1>3, <1>4, <1>7, <1>11, <2>1, <2>2 DEF slot
  <1> QED
    BY <1>10, <1>11

\* unmap_page clears one entry of one table.
LEMMA UnmapWalks ==
    ASSUME FramesWell, NEW v \in VPages, unmap_page(v), held' = held, UNCHANGED allocator
    PROVE  /\ mem' \in [PoolFrames -> [0 .. PdSize + PtSize -> Entries]]
           /\ Separated' /\ FreeOnce' /\ Accounted'
           /\ \A w \in VPages : /\ Pde(w)' = Pde(w)
                                /\ Walk(w)' = IF w = v THEN Nothing ELSE Walk(w)
  <1> DEFINE pt == Pde(v).frame
  <1>1. Types /\ Separated /\ FreeOnce /\ Accounted
    BY DEF FramesWell
  <1>2. /\ pdpt_index(v) \in Pdpts /\ pd_index(v) \in Dirs /\ pt_index(v) \in 0 .. PtSize - 1
    BY IndexFacts
  <1>3. /\ Present(Pde(v)) /\ Pde(v) = SlotEntry(pdpt_index(v), pd_index(v))
        /\ pt \in PoolFrames
    BY <1>1, WalkFacts DEF WalksAre, unmap_page
  <1>4. \A k \in Pdpts : page_directories[k] # pt
    BY <1>1, <1>2, <1>3 DEF Separated
  <1>5. /\ mem' = [mem EXCEPT ![pt][pt_index(v)] = Nothing]
        /\ page_directories' = page_directories
    BY DEF unmap_page
  <1>6. mem \in [PoolFrames -> [0 .. PdSize + PtSize -> Entries]] /\ Nothing \in Entries
        /\ ~Present(Nothing)
    BY <1>1 DEF Types, Nothing, Entry, Entries, Present
  <1>7. pt_index(v) \in 0 .. PdSize + PtSize /\ 0 .. PtSize - 1 \subseteq 0 .. PdSize + PtSize
    BY <1>2, PagingAssumption
  <1> HIDE DEF pt
  <1>8. /\ mem' \in [PoolFrames -> [0 .. PdSize + PtSize -> Entries]]
        /\ \A g \in PoolFrames : g # pt => mem'[g] = mem[g]
        /\ \A k \in 0 .. PtSize - 1 :
              mem'[pt][k] = IF k = pt_index(v) THEN Nothing ELSE mem[pt][k]
    BY <1>3, <1>5, <1>6, <1>7
  <1>9. \A i \in Pdpts, j \in Dirs : SlotEntry(i, j)' = SlotEntry(i, j)
    BY <1>1, <1>4, <1>5, <1>8 DEF SlotEntry, Separated
  <1>10. FreeFrames' = FreeFrames /\ next_free_page' = next_free_page
         /\ free_list' = free_list
    BY DEF FreeFrames, allocator
  <1>11. Separated' /\ FreeOnce'
    BY <1>1, <1>5, <1>9, <1>10 DEF Separated, FreeOnce, Pdpt
  <1>12. \A g : g \in TableFrames' <=> g \in TableFrames
    BY <1>1, <1>5, <1>9, <1>11, TableFramesAre, TableFramesAreNext
       DEF TablesAreSlots, IsTableFrame
  <1>13. Accounted'
    BY <1>1, <1>10, <1>12 DEF Accounted, Pdpt
  <1>14. ASSUME NEW w \in VPages
         PROVE  /\ Pde(w)' = Pde(w)
                /\ Walk(w)' = IF w = v THEN Nothing ELSE Walk(w)
    <2>1. /\ pdpt_index(w) \in Pdpts /\ pd_index(w) \in Dirs /\ pt_index(w) \in 0 .. PtSize - 1
      BY IndexFacts
    <2>2. /\ Pde(w) = SlotEntry(pdpt_index(w), pd_index(w))
          /\ Walk(w) = IF Present(Pde(w)) /\ Present(mem[Pde(w).frame][pt_index(w)])
                       THEN mem[Pde(w).frame][pt_index(w)] ELSE Nothing
          /\ Present(Pde(w)) => Pde(w).frame \in PoolFrames
      BY <1>1, WalkFacts DEF WalksAre
    <2>3. /\ Pde(w)' = SlotEntry(pdpt_index(w), pd_index(w))'
          /\ Walk(w)' = IF Present(Pde(w)') /\ Present(mem'[Pde(w)'.frame][pt_index(w)])
                        THEN mem'[Pde(w)'.frame][pt_index(w)] ELSE Nothing
      BY <1>11, WalkFactsNext DEF WalksAre
    <2>4. Pde(w)' = Pde(w)
      BY <1>9, <2>1, <2>2, <2>3
    <2>5. /\ table_index(w) = table_index(v) <=>
                pdpt_index(w) = pdpt_index(v) /\ pd_index(w) = pd_index(v)
          /\ table_index(w) = table_index(v) /\ pt_index(w) = pt_index(v) => w = v
      BY SamePlace
    <2>6. CASE table_index(w) = table_index(v)
      <3>1. Pde(w) = Pde(v)
        BY <1>3, <2>2, <2>5, <2>6
      <3> QED
        BY <1>3, <1>6, <1>8, <2>1, <2>2, <2>3, <2>4, <2>5, <2>6, <3>1 DEF pt
    <2>7. CASE table_index(w) # table_index(v)
      <3>1. Present(Pde(w)) => Pde(w).frame # pt
        BY <1>1, <1>2, <1>3, <2>1, <2>2, <2>5, <2>7 DEF Separated, pt
      <3> QED
        BY <1>8, <2>2, <2>3, <2>4, <2>7, <3>1
    <2> QED
      BY <2>6, <2>7
  <1> QED
    BY <1>8, <1>11, <1>13, <1>14

\* A step that leaves the frames of tables alone leaves the translations.
LEMMA TablesAlone ==
    ASSUME Separated, Separated', page_directories' = page_directories,
           \A g \in TableFrames : mem'[g] = mem[g]
    PROVE  /\ \A g : g \in TableFrames' <=> g \in TableFrames
           /\ \A w \in VPages : Pde(w)' = Pde(w) /\ Walk(w)' = Walk(w)
  <1>1. \A i \in Pdpts : mem'[page_directories[i]] = mem[page_directories[i]]
    BY TableFramesAre DEF TablesAreSlots, IsTableFrame
  <1>2. \A i \in Pdpts, j \in Dirs : SlotEntry(i, j)' = SlotEntry(i, j)
    BY <1>1 DEF SlotEntry
  <1>3. \A g : g \in TableFrames' <=> g \in TableFrames
    BY <1>2, TableFramesAre, TableFramesAreNext DEF TablesAreSlots, IsTableFrame
  <1>4. ASSUME NEW w \in VPages PROVE Pde(w)' = Pde(w) /\ Walk(w)' = Walk(w)
    <2>1. pdpt_index(w) \in Pdpts /\ pd_index(w) \in Dirs
      BY IndexFacts
    <2>2. /\ Pde(w) = SlotEntry(pdpt_index(w), pd_index(w))
          /\ Walk(w) = IF Present(Pde(w)) /\ Present(mem[Pde(w).frame][pt_index(w)])
                       THEN mem[Pde(w).frame][pt_index(w)] ELSE Nothing
      BY WalkFacts DEF WalksAre
    <2>3. /\ Pde(w)' = SlotEntry(pdpt_index(w), pd_index(w))'
          /\ Walk(w)' = IF Present(Pde(w)') /\ Present(mem'[Pde(w)'.frame][pt_index(w)])
                        THEN mem'[Pde(w)'.frame][pt_index(w)] ELSE Nothing
      BY WalkFactsNext DEF WalksAre
    <2>4. Pde(w)' = Pde(w)
      BY <1>2, <2>1, <2>2, <2>3
    <2>5. Present(Pde(w)) => mem'[Pde(w).frame] = mem[Pde(w).frame]
      BY <2>1, <2>2, TableFramesAre DEF TablesAreSlots, IsTableFrame
    <2> QED
      BY <2>2, <2>3, <2>4, <2>5
  <1> QED
    BY <1>3, <1>4

\* What the tables, the requests and the TLB have to do with each other.
TablesServe == Translated /\ TlbCoherent /\ RightsKept

\* map_page serves the request, and every other page as before, ...
LEMMA MapServes ==
    ASSUME Types, Separated, FreeOnce, Accounted, TablesServe, NEW v \in VPages,
           NEW f \in Nat, NEW flags \in SUBSET Flags, map_page(v, f, flags), held' = held
    PROVE  /\ TablesServe'
           /\ asked' \in [VPages -> Entries]
           /\ \A w \in VPages : asked'[w] = IF w = v THEN Entry(f, flags) ELSE asked[w]
           /\ first' \in [TableIndexes -> {"nobody", "user", "kernel"}]
           /\ tlb' \subseteq tlb
  <1>1. FramesWell
    BY DEF FramesWell
  <1>2. /\ asked' = [asked EXCEPT ![v] = Entry(f, flags)]
        /\ tlb' = {t \in tlb : t.page # v}
        /\ first' = IF first[table_index(v)] # "nobody" THEN first
                    ELSE [first EXCEPT ![table_index(v)] =
                             IF "USER" \in flags THEN "user" ELSE "kernel"]
    BY DEF map_page, Invalidated
  <1>3. /\ asked \in [VPages -> Entries]
        /\ first \in [TableIndexes -> {"nobody", "user", "kernel"}]
        /\ tlb \subseteq [page : VPages, entry : Entries]
    BY DEF Types
  <1>4. Entry(f, flags) \in Entries
    BY DEF Entry, Entries
  <1>5. /\ asked' \in [VPages -> Entries]
        /\ \A w \in VPages : asked'[w] = IF w = v THEN Entry(f, flags) ELSE asked[w]
    BY <1>2, <1>3, <1>4
  <1>6. \A w \in VPages : table_index(w) \in TableIndexes
    BY IndexFacts
  <1>7. /\ first' \in [TableIndexes -> {"nobody", "user", "kernel"}]
        /\ \A t \in TableIndexes :
              first'[t] = IF t = table_index(v) /\ first[t] = "nobody"
                          THEN IF "USER" \in flags THEN "user" ELSE "kernel" ELSE first[t]
    BY <1>2, <1>3, <1>6
  <1>8. \A w \in VPages :
            /\ Pde(w)' = IF TableNeeded(v) /\ table_index(w) = table_index(v)
                         THEN Entry(NextFrame, TableFlags(Flags32(flags))) ELSE Pde(w)
            /\ Walk(w)' = IF w # v THEN Walk(w)
                          ELSE IF Present(Entry(f, Flags32(flags)))
                          THEN Entry(f, Flags32(flags)) ELSE Nothing
    BY <1>1, MapWalks
  <1>9. Translated'
    <2>1. ASSUME NEW w \in VPages PROVE Walk(w)' = Want(w)'
      <3>1. CASE w # v
        BY <1>5, <1>8, <3>1 DEF TablesServe, Translated, Want
      <3>2. CASE w = v
        <4>1. Entry(asked'[w].frame, Flags32(asked'[w].flags)) = Entry(f, Flags32(flags))
          BY <1>5, <3>2 DEF Entry
        <4> QED
          BY <1>8, <3>2, <4>1 DEF Want
      <3> QED
        BY <3>1, <3>2
    <2> QED
      BY <2>1 DEF Translated
  <1>10. TlbCoherent'
    BY <1>2, <1>3, <1>8 DEF TablesServe, TlbCoherent
  <1>11. ASSUME NEW w \in VPages
         PROVE  IF Present(Pde(w)')
                THEN /\ first'[table_index(w)] # "nobody"
                     /\ "USER" \in Pde(w)'.flags <=> first'[table_index(w)] = "user"
                ELSE first'[table_index(w)] = "nobody"
    <2> DEFINE slot == Entry(NextFrame, TableFlags(Flags32(flags)))
    <2>1. Present(slot) /\ ("USER" \in slot.flags <=> "USER" \in flags)
      BY DEF Entry, TableFlags, Flags32, Present
    <2>2. TableNeeded(v) => first[table_index(v)] = "nobody"
      BY DEF TableNeeded, TablesServe, RightsKept
    <2>3. ~TableNeeded(v) => first[table_index(v)] # "nobody"
      BY DEF TableNeeded, TablesServe, RightsKept
    <2> HIDE DEF slot
    <2>4. Pde(w)' = IF TableNeeded(v) /\ table_index(w) = table_index(v) THEN slot ELSE Pde(w)
      BY <1>8 DEF slot
    <2>5. CASE TableNeeded(v) /\ table_index(w) = table_index(v)
      BY <1>6, <1>7, <2>1, <2>2, <2>4, <2>5
    <2>6. CASE ~(TableNeeded(v) /\ table_index(w) = table_index(v))
      <3>1. first'[table_index(w)] = first[table_index(w)] /\ Pde(w)' = Pde(w)
        BY <1>6, <1>7, <2>3, <2>4, <2>6
      <3> QED
        BY <3>1 DEF TablesServe, RightsKept
    <2> QED
      BY <2>5, <2>6
  <1> QED
    BY <1>2, <1>5, <1>7, <1>9, <1>10, <1>11 DEF TablesServe, RightsKept

\* ... and so does unmap_page.
LEMMA UnmapServes ==
    ASSUME Types, Separated, FreeOnce, Accounted, TablesServe, NEW v \in VPages,
           unmap_page(v), held' = held, UNCHANGED allocator
    PROVE  /\ TablesServe'
           /\ asked' \in [VPages -> Entries]
           /\ \A w \in VPages : asked'[w] = IF w = v THEN Nothing ELSE asked[w]
           /\ first' = first
           /\ tlb' \subseteq tlb
  <1>1. FramesWell
    BY DEF FramesWell
  <1>2. /\ asked' = [asked EXCEPT ![v] = Nothing]
        /\ tlb' = {t \in tlb : t.page # v}
        /\ first' = first
    BY DEF unmap_page, Invalidated
  <1>3. asked \in [VPages -> Entries] /\ tlb \subseteq [page : VPages, entry : Entries]
    BY DEF Types
  <1>4. Nothing \in Entries /\ ~Present(Entry(Nothing.frame, Flags32(Nothing.flags)))
    BY DEF Nothing, Entry, Entries, Present, Flags32
  <1>5. /\ asked' \in [VPages -> Entries]
        /\ \A w \in VPages : asked'[w] = IF w = v THEN Nothing ELSE asked[w]
    BY <1>2, <1>3, <1>4
  <1>6. \A w \in VPages : Pde(w)' = Pde(w) /\ Walk(w)' = IF w = v THEN Nothing ELSE Walk(w)
    BY <1>1, UnmapWalks
  <1>7. Translated'
    BY <1>4, <1>5, <1>6 DEF TablesServe, Translated, Want
  <1>8. TlbCoherent'
    BY <1>2, <1>3, <1>6 DEF TablesServe, TlbCoherent
  <1> QED
    BY <1>2, <1>5, <1>6, <1>7, <1>8 DEF TablesServe, RightsKept

-----------------------------------------------------------------------------
(***************************************************************************)
(* The boot sequence.                                                      *)
(***************************************************************************)
\* The initial pool holds the tables of boot and lies in the identity map.
LEMMA Sizes ==
    /\ PdptSize \in Nat \ {0} /\ PdSize \in Nat \ {0} /\ PtSize \in Nat \ {0}
    /\ IdentityPages \in Nat \ {0} /\ PoolStart \in Nat /\ PoolLimit \in Nat
    /\ InitialPool \in Nat /\ PdptSize + 2 <= InitialPool
    /\ PoolStart + InitialPool <= IdentityPages /\ PoolStart + InitialPool <= PoolLimit + 1
    /\ Frames4G \in Nat \ {0} /\ VPages = 0 .. Frames4G - 1
    /\ 0 .. IdentityPages - 1 \subseteq VPages
    /\ Pdpt \in PoolFrames /\ Pdpt < IdentityPages
    /\ MapPages \subseteq VPages \ (0 .. IdentityPages - 1)
  <1>1. /\ PdptSize \in Nat \ {0} /\ PdSize \in Nat \ {0} /\ PtSize \in Nat \ {0}
        /\ PoolStart \in Nat /\ PoolLimit \in Nat /\ InitialPool \in Nat
        /\ IdentityPages \in 0 .. Frames4G
        /\ PdptSize + 2 + ((IdentityPages - 1) \div PtSize) <= InitialPool
        /\ PoolStart + InitialPool <= IdentityPages /\ PoolStart + InitialPool <= PoolLimit + 1
        /\ MapPages \subseteq VPages \ (0 .. IdentityPages - 1)
    BY PagingAssumption
  <1> DEFINE n == PdptSize * PdSize * PtSize
  <1>2. n \in Nat \ {0}
    <2>1. PdptSize * PdSize \in Nat \ {0}
      BY <1>1
    <2> QED
      BY <1>1, <2>1
  <1> HIDE DEF n
  <1>3. VPages = 0 .. n - 1
    BY DEF VPages, n
  <1>4. Frames4G = n
    <2>1. Cardinality(0 .. n - 1) = n
      BY <1>2, FS_Interval
    <2> QED
      BY <1>3, <2>1 DEF Frames4G
  <1>5. IdentityPages \in Nat
    BY <1>1, <1>2, <1>4
  <1>6. IdentityPages # 0
    <2>1. IdentityPages = 0 => InitialPool = 0 /\ PoolStart = 0
      BY <1>1
    <2>2. InitialPool = 0 => (IdentityPages - 1) \div PtSize <= -2
      BY <1>1, <1>5
    <2>3. IdentityPages = 0 => (IdentityPages - 1) \div PtSize >= -1
      BY <1>1
    <2> QED
      BY <1>1, <2>1, <2>2, <2>3
  <1>7. (IdentityPages - 1) \div PtSize \in Nat
    <2>1. IdentityPages - 1 \in Nat
      BY <1>5, <1>6
    <2> QED
      BY <1>1, <2>1, DivMod
  <1>8. PdptSize + 2 <= InitialPool
    BY <1>1, <1>7
  <1>9. Pdpt \in PoolFrames /\ Pdpt < IdentityPages
    BY <1>1, <1>5, <1>8 DEF Pdpt, PoolFrames
  <1>10. 0 .. IdentityPages - 1 \subseteq VPages
    BY <1>1, <1>2, <1>3, <1>4, <1>5
  <1> QED
    BY <1>1, <1>2, <1>3, <1>4, <1>5, <1>6, <1>8, <1>9, <1>10

\* Contents of pages are entries, whatever they are.
LEMMA PageTypes ==
    /\ Nothing \in Entries /\ ~Present(Nothing) /\ Zeroed \in [0 .. PdSize + PtSize -> Entries]
    /\ \A f \in PoolFrames : Garbage(f) \in [0 .. PdSize + PtSize -> Entries]
  <1>1. Nothing \in Entries /\ ~Present(Nothing)
    BY DEF Nothing, Entry, Entries, Present
  <1>2. \A f \in PoolFrames : Entry(f, {"PRESENT"}) \in Entries
    BY Sizes DEF Entry, Entries, Flags, PoolFrames
  <1>3. DOMAIN Zeroed = 0 .. PdSize + PtSize
    BY DEF Zeroed
  <1> QED
    BY <1>1, <1>2, <1>3 DEF Zeroed, Garbage

\* The invariant holds before paging_init ...
LEMMA InitInv == Init => IInv
  <1> SUFFICES ASSUME Init PROVE IInv
    OBVIOUS
  <1>1. /\ boot = "paging_init" /\ mapped = 0
        /\ page_directories = [i \in Pdpts |-> NoFrame]
        /\ mem = [f \in PoolFrames |-> Garbage(f)]
        /\ free_list = << >> /\ next_free_page = PoolStart /\ held = {} /\ tlb = {}
        /\ panicked = FALSE
        /\ asked = [v \in VPages |-> Nothing]
        /\ first = [t \in TableIndexes |-> "nobody"]
    BY DEF Init, Pdpts
  <1>2. Types
    <2>1. mapped \in 0 .. IdentityPages /\ next_free_page \in PoolStart .. PoolLimit + 1
      BY <1>1, Sizes
    <2>2. mem \in [PoolFrames -> [0 .. PdSize + PtSize -> Entries]]
      BY <1>1, PageTypes
    <2>3. /\ page_directories \in [Pdpts -> PoolFrames \cup {NoFrame}]
          /\ asked \in [VPages -> Entries]
          /\ first \in [TableIndexes -> {"nobody", "user", "kernel"}]
      BY <1>1, PageTypes
    <2>4. free_list \in Seq(PoolFrames)
      BY <1>1
    <2>5. held \subseteq PoolFrames /\ panicked \in BOOLEAN
          /\ tlb \subseteq [page : VPages, entry : Entries]
      BY <1>1, Zenon
    <2> QED
      BY <1>1, <2>1, <2>2, <2>3, <2>4, <2>5, Zenon DEF Types
  <1>3. \A v \in VPages : Walk(v) = Nothing
    BY <1>1, IndexFacts DEF Walk
  <1>4. Translated
    BY <1>1, <1>3 DEF Translated, Want, Nothing, Entry, Present, Flags32
  <1>5. BeforeInit /\ AfterInit /\ TlbCoherent /\ FaultOnlyBeyondIdentity
    BY <1>1 DEF BeforeInit, AfterInit, TlbCoherent, FaultOnlyBeyondIdentity
  <1>6. IdentityKept
    BY <1>1, PageTypes DEF IdentityKept
  <1>7. BootTables
    BY <1>1, Sizes DEF BootTables
  <1> QED
    BY <1>2, <1>4, <1>5, <1>6, <1>7 DEF IInv

\* ... and after it.
LEMMA PagingInitInv ==
    ASSUME IInv, paging_init
    PROVE  IInv'
  <1> DEFINE top == PoolStart + InitialPool
  <1>1. /\ Types /\ BeforeInit /\ boot = "paging_init" /\ Translated /\ TlbCoherent
        /\ IdentityKept
    BY DEF IInv, paging_init
  <1>2. /\ page_directories' = [i \in Pdpts |-> InitialList[i + 2]]
        /\ mem' = [f \in PoolFrames |-> IF f < top THEN Zeroed ELSE mem[f]]
        /\ free_list' = SubSeq(InitialList, PdptSize + 2, InitialPool)
        /\ next_free_page' = top /\ boot' = "identity"
        /\ UNCHANGED <<mapped, held, tlb, panicked, asked, first>>
    BY DEF paging_init, ListAfterInit, history, Pdpts
  <1>3. /\ page_directories = [i \in Pdpts |-> NoFrame]
        /\ asked = [v \in VPages |-> Nothing]
        /\ first = [t \in TableIndexes |-> "nobody"]
        /\ tlb = {} /\ held = {} /\ mapped = 0 /\ ~panicked
    BY <1>1 DEF BeforeInit
  <1>4. \A i \in 1 .. InitialPool : InitialList[i] = top - i
    BY Sizes DEF InitialList
  <1>5. \A i \in 1 .. InitialPool : top - i \in PoolFrames
    BY Sizes DEF PoolFrames
  <1>6. \A i \in Pdpts : i + 2 \in 1 .. InitialPool /\ page_directories'[i] = top - (i + 2)
    BY <1>2, <1>4, Sizes DEF Pdpts
  <1>7. /\ free_list' \in Seq(PoolFrames)
        /\ Len(free_list') = InitialPool - PdptSize - 1
        /\ \A i \in 1 .. Len(free_list') : free_list'[i] = top - (i + PdptSize + 1)
    <2>1. InitialList \in Seq(PoolFrames) /\ Len(InitialList) = InitialPool
      BY <1>5, Sizes DEF InitialList
    <2>2. /\ SubSeq(InitialList, PdptSize + 2, InitialPool) \in Seq(PoolFrames)
          /\ Len(SubSeq(InitialList, PdptSize + 2, InitialPool))
                 = InitialPool - (PdptSize + 2) + 1
          /\ \A i \in 1 .. InitialPool - (PdptSize + 2) + 1 :
                SubSeq(InitialList, PdptSize + 2, InitialPool)[i]
                    = InitialList[(PdptSize + 2) + i - 1]
      <3>1. PdptSize + 2 \in 1 .. Len(InitialList) + 1
            /\ InitialPool \in PdptSize + 2 - 1 .. Len(InitialList)
        BY <2>1, Sizes
      <3>2. PdptSize + 2 <= InitialPool + 1
        BY Sizes
      <3> QED
        BY ONLY <2>1, <3>1, <3>2, Sizes, SubSeqProperties
    <2>3. \A i \in 1 .. InitialPool - PdptSize - 1 : i + PdptSize + 1 \in 1 .. InitialPool
      BY Sizes
    <2> QED
      BY <1>2, <1>4, <2>2, <2>3, Sizes
  <1>8. Zeroed \in [0 .. PdSize + PtSize -> Entries]
        /\ \A i \in 0 .. PdSize + PtSize : ~Present(Zeroed[i])
    BY PageTypes DEF Zeroed
  <1>9. mem' \in [PoolFrames -> [0 .. PdSize + PtSize -> Entries]]
    BY <1>1, <1>2, <1>8 DEF Types
  <1>10. /\ \A i \in Pdpts : page_directories'[i] \in PoolFrames
         /\ \A i \in Pdpts : mem'[page_directories'[i]] = Zeroed
    <2>1. ASSUME NEW i \in Pdpts
          PROVE  page_directories'[i] \in PoolFrames /\ page_directories'[i] < top
      BY <1>5, <1>6, Sizes
    <2> QED
      BY <1>2, <2>1
  <1>11. \A i \in Pdpts, j \in Dirs : ~Present(SlotEntry(i, j)')
    BY <1>8, <1>10, Sizes DEF SlotEntry, Dirs
  <1>12. FreeFrames' = PoolStart .. top - PdptSize - 2
    <2>1. ASSUME NEW g PROVE g \in FreeFrames' <=> g \in PoolStart .. top - PdptSize - 2
      <3>1. ASSUME NEW i \in 1 .. Len(free_list'), g = free_list'[i]
            PROVE  g \in PoolStart .. top - PdptSize - 2
        BY ONLY <1>7, <3>1, Sizes
      <3>2. ASSUME g \in PoolStart .. top - PdptSize - 2
            PROVE  g \in FreeFrames'
        <4>1. top - g - PdptSize - 1 \in 1 .. Len(free_list')
          BY <1>7, <3>2, Sizes
        <4>2. free_list'[top - g - PdptSize - 1] = g
          BY <1>7, <3>2, <4>1, Sizes
        <4> QED
          BY <4>1, <4>2 DEF FreeFrames
      <3> QED
        BY <3>1, <3>2 DEF FreeFrames
    <2> QED
      BY <2>1
  <1>13. Separated'
    <2>1. \A i \in Pdpts : page_directories'[i] \notin FreeFrames' \cup {Pdpt'}
      BY <1>6, <1>12, Sizes DEF Pdpt, Pdpts
    <2>2. \A i, k \in Pdpts : page_directories'[i] = page_directories'[k] => i = k
      BY <1>6, Sizes DEF Pdpts
    <2> QED
      BY <1>2, <1>3, <1>10, <1>11, <2>1, <2>2 DEF Separated
  <1>14. FreeOnce'
    <2>1. \A a, b \in 1 .. Len(free_list') : free_list'[a] = free_list'[b] => a = b
      BY <1>7, Sizes
    <2>2. Pdpt' \notin FreeFrames'
      BY <1>12, Sizes DEF Pdpt
    <2> QED
      BY <1>2, <1>3, <2>1, <2>2 DEF FreeOnce
  <1>15. Accounted'
    <2>1. \A g : g \in TableFrames' <=> \E i \in Pdpts : g = page_directories'[i]
      BY <1>11, <1>13, TableFramesAreNext DEF TablesAreSlots, IsTableFrame
    <2>2. ASSUME NEW g
          PROVE  (\E i \in Pdpts : g = page_directories'[i])
                     <=> g \in top - PdptSize - 1 .. top - 2
      <3>1. ASSUME g \in top - PdptSize - 1 .. top - 2
            PROVE  \E i \in Pdpts : g = page_directories'[i]
        <4>1. top - g - 2 \in Pdpts
          BY <3>1, Sizes DEF Pdpts
        <4>2. page_directories'[top - g - 2] = g
          BY <1>6, <3>1, <4>1, Sizes
        <4> QED
          BY <4>1, <4>2
      <3>2. ASSUME NEW i \in Pdpts, g = page_directories'[i]
            PROVE  g \in top - PdptSize - 1 .. top - 2
        BY <1>6, <3>2, Sizes DEF Pdpts
      <3> QED
        BY <3>1, <3>2
    <2>3. Pdpt' = top - 1
      BY Sizes DEF Pdpt
    <2>4. {top - 1} \cup (top - PdptSize - 1 .. top - 2) \cup (PoolStart .. top - PdptSize - 2)
              = PoolStart .. top - 1
      BY Sizes
    <2>5. TableFrames' = top - PdptSize - 1 .. top - 2
      BY <2>1, <2>2
    <2> QED
      BY <1>2, <1>3, <1>12, <2>3, <2>4, <2>5 DEF Accounted
  <1>16. /\ \A v \in VPages : ~Present(Pde(v)') /\ Walk(v)' = Nothing
    BY <1>11, <1>13, WalkFactsNext, IndexFacts DEF WalksAre
  <1>17. Translated' /\ TlbCoherent' /\ RightsKept'
    <2>1. Translated'
      BY <1>2, <1>3, <1>16 DEF Translated, Want, Nothing, Entry, Present, Flags32
    <2>2. TlbCoherent'
      BY <1>2, <1>3 DEF TlbCoherent
    <2>3. RightsKept'
      BY <1>2, <1>3, <1>16, IndexFacts DEF RightsKept
    <2> QED
      BY <2>1, <2>2, <2>3
  <1>18. IdentityKept'
    BY <1>2, <1>3, PageTypes DEF IdentityKept
  <1>19. BootTables'
    <2>1. Len(free_list') = InitialPool - PdptSize - 1 - TablesFor(mapped')
      BY <1>2, <1>3, <1>7, Sizes DEF TablesFor
    <2>2. \A v \in VPages : table_index(v) \in Nat
      BY IndexFacts
    <2>3. \A v \in VPages : Present(Pde(v)') <=> table_index(v) < TablesFor(mapped')
      BY <1>2, <1>3, <1>16, <2>2 DEF TablesFor
    <2> QED
      BY <1>2, <1>3, <2>1, <2>3, Sizes DEF BootTables
  <1>20. Types'
    <2>1. page_directories' \in [Pdpts -> PoolFrames \cup {NoFrame}]
      BY <1>2, <1>10
    <2>2. next_free_page' \in PoolStart .. PoolLimit + 1
      BY <1>2, Sizes
    <2> QED
      BY <1>1, <1>2, <1>7, <1>9, <2>1, <2>2 DEF Types
  <1> QED
    BY <1>2, <1>3, <1>13, <1>14, <1>15, <1>17, <1>18, <1>19, <1>20
       DEF IInv, AfterInit, BeforeInit, FaultOnlyBeyondIdentity

\* A quotient grows with the dividend, by one at most.
LEMMA DivStep ==
    ASSUME NEW x \in Nat, NEW y \in Nat, x <= y, NEW d \in Nat \ {0}
    PROVE  /\ x \div d <= y \div d
           /\ y = x + 1 => y \div d \in {x \div d, x \div d + 1}
  <1> DEFINE p == x \div d
             q == y \div d
  <1>1. /\ p \in Nat /\ x % d \in 0 .. d - 1 /\ x = d * p + (x % d)
        /\ q \in Nat /\ y % d \in 0 .. d - 1 /\ y = d * q + (y % d)
    BY DivMod
  <1> HIDE DEF p, q
  <1>2. d * p \in Nat /\ d * q \in Nat
    BY <1>1
  <1>3. q <= p - 1 => d * q <= d * p - d
    <2>1. q <= p - 1 => d * q <= d * (p - 1)
      BY <1>1
    <2>2. d * (p - 1) = d * p - d
      BY <1>1
    <2> QED
      BY <1>2, <2>1, <2>2
  <1>4. q >= p + 2 => d * q >= d * p + d + d
    <2>1. q >= p + 2 => d * q >= d * (p + 2)
      BY <1>1
    <2>2. d * (p + 2) = d * p + d + d
      BY <1>1
    <2> QED
      BY <1>2, <2>1, <2>2
  <1>5. d * q <= d * p - d => y < x
    BY <1>1, <1>2
  <1>6. d * q >= d * p + d + d => y > x + 1
    BY <1>1, <1>2
  <1>7. p <= q /\ (y = x + 1 => q < p + 2)
    BY <1>1, <1>3, <1>4, <1>5, <1>6
  <1>8. y = x + 1 => q \in {p, p + 1}
    BY <1>1, <1>7
  <1> QED
    BY <1>7, <1>8 DEF p, q

\* The least of the pages a mapping loop has not done.
LEMMA NextToMap ==
    ASSUME NEW pages \in SUBSET Nat, NEW m \in Nat, ~(pages \subseteq 0 .. m - 1)
    PROVE  LET v == CHOOSE p \in pages \ (0 .. m - 1) :
                        \A q \in pages \ (0 .. m - 1) : p <= q
           IN  v \in pages /\ v >= m /\ \A q \in pages : q >= m => v <= q
  <1> DEFINE rest == pages \ (0 .. m - 1)
  <1>1. rest \in SUBSET Nat /\ rest # {}
    OBVIOUS
  <1> HIDE DEF rest
  <1>2. Min(rest) \in rest /\ \A y \in rest : Min(rest) <= y
    BY <1>1, MinExists
  <1>3. Min(rest) = CHOOSE p \in rest : \A q \in rest : p <= q
    BY DEF Min
  <1>4. \A q \in pages : q >= m => q \in rest
    BY DEF rest
  <1>5. Min(rest) \in pages /\ Min(rest) >= m
    <2>1. ASSUME NEW p \in Nat, p \in rest PROVE p \in pages /\ p >= m
      BY <2>1 DEF rest
    <2>2. Min(rest) \in Nat
      BY <1>1, <1>2
    <2> QED
      BY <1>2, <2>1, <2>2
  <1>6. \A q \in pages : q >= m => Min(rest) <= q
    BY <1>2, <1>4
  <1> QED
    BY <1>3, <1>5, <1>6 DEF rest

\* What a mapping loop's call of map_page has in common for both stages.
LEMMA OwnMap ==
    ASSUME IInv, boot \in {"identity", "heap"}, boot' = boot,
           NEW v \in 0 .. IdentityPages - 1,
           map_page(v, v, {"PRESENT", "WRITABLE"}), mapped' \in 0 .. IdentityPages,
           UNCHANGED <<held, panicked>>,
           next_free_page' = next_free_page
    PROVE  /\ Types' /\ BeforeInit' /\ AfterInit' /\ Translated' /\ TlbCoherent'
           /\ FaultOnlyBeyondIdentity'
           /\ \A w \in VPages : asked'[w] = IF w = v THEN Own(v) ELSE asked[w]
           /\ \A w \in VPages :
                 Present(Pde(w)') <=> Present(Pde(w)) \/ table_index(w) = table_index(v)
  <1>1. /\ Types /\ Separated /\ FreeOnce /\ Accounted /\ TablesServe
    BY DEF IInv, AfterInit, TablesServe
  <1>2. FramesWell
    BY <1>1 DEF FramesWell
  <1>3. v \in VPages /\ v \in Nat /\ {"PRESENT", "WRITABLE"} \in SUBSET Flags
    BY Sizes DEF Flags
  <1>4. /\ TablesServe'
        /\ asked' \in [VPages -> Entries]
        /\ \A w \in VPages : asked'[w] = IF w = v THEN Entry(v, {"PRESENT", "WRITABLE"})
                                         ELSE asked[w]
        /\ first' \in [TableIndexes -> {"nobody", "user", "kernel"}]
        /\ tlb' \subseteq tlb
    BY <1>1, <1>3, MapServes
  <1>5. Separated' /\ FreeOnce' /\ Accounted'
    BY <1>2, <1>3, MapKeepsFrames
  <1>6. /\ page_directories' = page_directories
        /\ mem' \in [PoolFrames -> [0 .. PdSize + PtSize -> Entries]]
    BY <1>2, <1>3, MapStores
  <1>7. free_list' \in Seq(PoolFrames)
    <2>1. CASE TableNeeded(v)
      BY <1>1, <2>1, TakeFrameFacts DEF map_page
    <2>2. CASE ~TableNeeded(v)
      BY <1>1, <2>2 DEF map_page, allocator, Types
    <2> QED
      BY <2>1, <2>2
  <1>8. Types'
    BY <1>1, <1>4, <1>6, <1>7 DEF Types
  <1>9. \A w \in VPages :
            Present(Pde(w)') <=> Present(Pde(w)) \/ table_index(w) = table_index(v)
    <2>1. ASSUME NEW w \in VPages
          PROVE  Present(Pde(w)') <=> Present(Pde(w)) \/ table_index(w) = table_index(v)
      <3>1. Pde(w)' = IF TableNeeded(v) /\ table_index(w) = table_index(v)
                      THEN Entry(NextFrame, TableFlags(Flags32({"PRESENT", "WRITABLE"})))
                      ELSE Pde(w)
        BY <1>2, <1>3, MapWalks
      <3>2. Present(Entry(NextFrame, TableFlags(Flags32({"PRESENT", "WRITABLE"}))))
        BY DEF Present, Entry, TableFlags
      <3>3. table_index(w) = table_index(v) => Pde(w) = Pde(v)
        BY <1>1, <1>3, SamePlace, WalkFacts DEF WalksAre
      <3> QED
        BY <3>1, <3>2, <3>3 DEF TableNeeded
    <2> QED
      BY <2>1
  <1>10. ~panicked'
    BY DEF IInv, BootTables
  <1> QED
    BY <1>4, <1>5, <1>8, <1>9, <1>10
       DEF TablesServe, BeforeInit, AfterInit, FaultOnlyBeyondIdentity, Own

\* A step that touches no table and no list leaves them well.
LEMMA SameTables ==
    ASSUME UNCHANGED <<page_directories, mem, free_list, next_free_page, held>>
    PROVE  /\ Separated /\ FreeOnce /\ Accounted => Separated' /\ FreeOnce' /\ Accounted'
           /\ \A v : Pde(v)' = Pde(v) /\ Walk(v)' = Walk(v)
  <1>1. FreeFrames' = FreeFrames /\ Pdpt' = Pdpt
    BY DEF FreeFrames, Pdpt
  <1>2. \A i, j : SlotEntry(i, j)' = SlotEntry(i, j)
    BY DEF SlotEntry
  <1>3. \A v : Pde(v)' = Pde(v)
    BY DEF Pde
  <1>4. \A v : Walk(v)' = Walk(v)
    BY <1>3 DEF Walk
  <1>5. ASSUME Separated, FreeOnce, Accounted
        PROVE  Separated' /\ FreeOnce' /\ Accounted'
    <2>1. Separated' /\ FreeOnce'
      BY <1>1, <1>2, <1>5 DEF Separated, FreeOnce
    <2>2. \A g : g \in TableFrames' <=> g \in TableFrames
      BY <1>2, <1>5, <2>1, TableFramesAre, TableFramesAreNext DEF TablesAreSlots, IsTableFrame
    <2>3. Accounted'
      BY <1>1, <1>5, <2>2 DEF Accounted
    <2> QED
      BY <2>1, <2>3
  <1> QED
    BY <1>3, <1>4, <1>5

\* Each step of boot keeps the invariant: the identity map, ...
LEMMA IdentityInv ==
    ASSUME IInv, setup_identity_mapping
    PROVE  IInv'
  <1> DEFINE pages == 0 .. IdentityPages - 1
             v == CHOOSE p \in pages \ (0 .. mapped - 1) :
                      \A q \in pages \ (0 .. mapped - 1) : p <= q
  <1>1. /\ Types /\ BeforeInit /\ AfterInit /\ Translated /\ TlbCoherent /\ IdentityKept
        /\ BootTables /\ FaultOnlyBeyondIdentity /\ boot = "identity"
    BY DEF IInv, setup_identity_mapping, MapOwn
  <1>2. mapped \in 0 .. IdentityPages
    BY <1>1 DEF Types
  <1>3. CASE pages \subseteq 0 .. mapped - 1
    <2>1. mapped = IdentityPages
      <3>1. IdentityPages - 1 \in pages
        BY Sizes
      <3> QED
        BY <1>2, <1>3, <3>1, Sizes
    <2>2. boot' = "heap" /\ mapped' = 0
          /\ UNCHANGED <<page_directories, mem, free_list, next_free_page, held, tlb,
                         panicked, asked, first>>
      BY <1>3 DEF setup_identity_mapping, MapOwn, tables, allocator, history
    <2>3. Types'
      BY <1>1, <2>2, Sizes DEF Types
    <2>4. Translated' /\ TlbCoherent' /\ FaultOnlyBeyondIdentity'
      BY <1>1, <2>2, Zenon DEF Translated, TlbCoherent, Want, Walk, Pde, FaultOnlyBeyondIdentity
    <2>5. Separated' /\ FreeOnce' /\ Accounted' /\ RightsKept'
      <3>1. Separated /\ FreeOnce /\ Accounted /\ RightsKept
        BY <1>1 DEF AfterInit
      <3> QED
        BY <2>2, <3>1, SameTables DEF RightsKept
    <2>6. IdentityKept'
      BY <1>1, <2>1, <2>2 DEF IdentityKept
    <2>7. BootTables'
      BY <1>1, <2>2 DEF BootTables
    <2> QED
      BY <2>2, <2>3, <2>4, <2>5, <2>6, <2>7 DEF IInv, AfterInit, BeforeInit
  <1>4. CASE ~(pages \subseteq 0 .. mapped - 1)
    <2>1. /\ v \in pages /\ v >= mapped /\ \A q \in pages : q >= mapped => v <= q
      <3>1. pages \in SUBSET Nat /\ mapped \in Nat
        BY <1>2, Sizes
      <3> HIDE DEF pages
      <3> QED
        BY <1>4, <3>1, NextToMap
    <2>2. v = mapped /\ v \in 0 .. IdentityPages - 1 /\ v \in VPages /\ v \in Nat
      <3>1. mapped <= IdentityPages - 1
        BY <1>2, <2>1, Sizes
      <3>2. mapped \in pages
        BY <1>2, <3>1, Sizes
      <3> QED
        BY <1>2, <2>1, <3>2, Sizes
    <2>3. /\ map_page(v, v, {"PRESENT", "WRITABLE"})
          /\ mapped' = v + 1
          /\ UNCHANGED <<boot, held, panicked>>
      BY <1>4 DEF setup_identity_mapping, MapOwn
    <2> HIDE DEF v
    <2>4. table_index(v) \in Nat /\ table_index(v) <= (IdentityPages - 1) \div PtSize
          /\ TablesFor(v + 1) = table_index(v) + 1
          /\ table_index(v) \in {TablesFor(v), TablesFor(v) - 1}
          /\ TablesFor(v) \in Int
      <3>1. table_index(v) <= (IdentityPages - 1) \div PtSize
        BY <2>2, DivStep, Sizes DEF table_index
      <3>2. table_index(v) \in Nat
        BY <2>2, IndexFacts
      <3>3. TablesFor(v + 1) = table_index(v) + 1
        BY <2>2 DEF TablesFor
      <3>4. CASE v = 0
        <4>1. 0 \div PtSize = 0
          BY Sizes
        <4> QED
          BY <3>1, <3>2, <3>3, <3>4, <4>1 DEF TablesFor, table_index
      <3>5. CASE v # 0
        <4>1. v - 1 \in Nat /\ v = (v - 1) + 1 /\ v - 1 <= v
          BY <2>2, <3>5
        <4>2. v \div PtSize \in {(v - 1) \div PtSize, (v - 1) \div PtSize + 1}
          BY <2>2, <4>1, DivStep, Sizes
        <4>3. (v - 1) \div PtSize \in Nat
          BY <4>1, DivMod, Sizes
        <4>4. TablesFor(v) = (v - 1) \div PtSize + 1
          BY <3>5 DEF TablesFor, table_index
        <4> QED
          BY <3>1, <3>2, <3>3, <4>2, <4>3, <4>4 DEF table_index
      <3> QED
        BY <3>4, <3>5
    <2>5. /\ Len(free_list) = InitialPool - PdptSize - 1 - TablesFor(mapped)
          /\ \A w \in VPages : Present(Pde(w)) <=> table_index(w) < TablesFor(mapped)
          /\ next_free_page = PoolStart + InitialPool
      BY <1>1 DEF BootTables
    <2>6. TableNeeded(v) <=> table_index(v) = TablesFor(v)
      BY <2>2, <2>4, <2>5 DEF TableNeeded
    <2>7. next_free_page' = next_free_page /\ Len(free_list') =
              IF TableNeeded(v) THEN Len(free_list) - 1 ELSE Len(free_list)
      <3>1. CASE TableNeeded(v)
        <4>1. PdptSize + 2 + ((IdentityPages - 1) \div PtSize) <= InitialPool
          BY PagingAssumption
        <4>2. (IdentityPages - 1) \div PtSize \in Int
          BY Sizes
        <4>3. Len(free_list) > 0
          BY <2>2, <2>4, <2>5, <2>6, <3>1, <4>1, <4>2, Sizes
        <4>4. free_list # << >> /\ free_list \in Seq(PoolFrames)
          BY <1>1, <4>3 DEF Types
        <4>5. free_list' = Tail(free_list) /\ next_free_page' = next_free_page
          BY <2>3, <3>1, <4>4 DEF map_page, TakeFrame
        <4> QED
          BY <3>1, <4>4, <4>5
      <3>2. CASE ~TableNeeded(v)
        BY <2>3, <3>2 DEF map_page, allocator
      <3> QED
        BY <3>1, <3>2
    <2>8. mapped' \in 0 .. IdentityPages
      BY <2>2, <2>3, Sizes
    <2>9. /\ Types' /\ BeforeInit' /\ AfterInit' /\ Translated' /\ TlbCoherent'
          /\ FaultOnlyBeyondIdentity'
          /\ \A w \in VPages : asked'[w] = IF w = v THEN Own(v) ELSE asked[w]
          /\ \A w \in VPages :
                Present(Pde(w)') <=> Present(Pde(w)) \/ table_index(w) = table_index(v)
      BY <1>1, <2>2, <2>3, <2>7, <2>8, OwnMap
    <2>10. IdentityKept'
      <3>1. \A w \in 0 .. mapped' - 1 : w \in VPages /\ (w = v \/ w \in 0 .. mapped - 1)
        BY <2>2, <2>3, Sizes
      <3>2. \A w \in 0 .. mapped' - 1 : asked'[w] = Own(w)
        BY <1>1, <2>9, <3>1 DEF IdentityKept
      <3>3. v < IdentityPages
        BY <2>2, Sizes
      <3> QED
        BY <1>1, <2>3, <2>9, <3>2, <3>3, Sizes DEF IdentityKept
    <2>11. BootTables'
      <3>1. Len(free_list') = InitialPool - PdptSize - 1 - TablesFor(mapped')
        BY <2>2, <2>3, <2>4, <2>5, <2>6, <2>7, Sizes, SMTT(30)
      <3>2. ASSUME NEW w \in VPages
            PROVE  Present(Pde(w)') <=> table_index(w) < TablesFor(mapped')
        <4>1. table_index(w) \in Nat
          BY IndexFacts
        <4> QED
          BY <2>2, <2>3, <2>4, <2>5, <2>9, <4>1, SMTT(30)
      <3> QED
        BY <1>1, <2>3, <2>7, <3>1, <3>2 DEF BootTables
    <2> QED
      BY <1>1, <2>9, <2>10, <2>11 DEF IInv
  <1> QED
    BY <1>3, <1>4

\* ... the heap, which the identity map has mapped already, ...
LEMMA HeapInv ==
    ASSUME IInv, setup_kernel_heap
    PROVE  IInv'
  <1> DEFINE v == CHOOSE p \in HeapPages \ (0 .. mapped - 1) :
                      \A q \in HeapPages \ (0 .. mapped - 1) : p <= q
  <1>1. /\ Types /\ BeforeInit /\ AfterInit /\ Translated /\ TlbCoherent /\ IdentityKept
        /\ BootTables /\ FaultOnlyBeyondIdentity /\ boot = "heap"
    BY DEF IInv, setup_kernel_heap, MapOwn
  <1>2. mapped \in 0 .. IdentityPages /\ HeapPages \subseteq 0 .. IdentityPages - 1
    BY <1>1, PagingAssumption DEF Types
  <1>3. CASE HeapPages \subseteq 0 .. mapped - 1
    <2>1. boot' = "enable" /\ mapped' = 0
          /\ UNCHANGED <<page_directories, mem, free_list, next_free_page, held, tlb,
                         panicked, asked, first>>
      BY <1>3 DEF setup_kernel_heap, MapOwn, tables, allocator, history
    <2>2. Types'
      BY <1>1, <2>1, Sizes DEF Types
    <2>3. Translated' /\ TlbCoherent' /\ FaultOnlyBeyondIdentity'
      BY <1>1, <2>1, Zenon DEF Translated, TlbCoherent, Want, Walk, Pde, FaultOnlyBeyondIdentity
    <2>4. Separated' /\ FreeOnce' /\ Accounted' /\ RightsKept'
      <3>1. Separated /\ FreeOnce /\ Accounted /\ RightsKept
        BY <1>1 DEF AfterInit
      <3> QED
        BY <2>1, <3>1, SameTables DEF RightsKept
    <2>5. IdentityKept' /\ BootTables'
      BY <1>1, <2>1 DEF IdentityKept, BootTables
    <2> QED
      BY <2>1, <2>2, <2>3, <2>4, <2>5 DEF IInv, AfterInit, BeforeInit
  <1>4. CASE ~(HeapPages \subseteq 0 .. mapped - 1)
    <2>1. v \in HeapPages
      <3>1. HeapPages \in SUBSET Nat /\ mapped \in Nat
        BY <1>2, Sizes
      <3> QED
        BY <1>4, <3>1, NextToMap
    <2>2. /\ map_page(v, v, {"PRESENT", "WRITABLE"})
          /\ mapped' = v + 1
          /\ UNCHANGED <<boot, held, panicked>>
      BY <1>4 DEF setup_kernel_heap, MapOwn
    <2> HIDE DEF v
    <2>3. v \in 0 .. IdentityPages - 1 /\ v \in VPages
      BY <1>2, <2>1, Sizes
    <2>4. Present(Pde(v)) /\ Walk(v) = Own(v)
      <3>1. asked[v] = Own(v)
        BY <1>1, <2>3 DEF IdentityKept
      <3>2. Want(v) = Own(v) /\ Present(Own(v))
        BY <3>1 DEF Want, Own, Entry, Flags32, Present
      <3>3. Walk(v) = Own(v)
        BY <1>1, <2>3, <3>2 DEF Translated
      <3>4. Separated
        BY <1>1 DEF AfterInit
      <3> QED
        BY <2>3, <3>2, <3>3, <3>4, WalkFacts, PageTypes DEF WalksAre
    <2>5. UNCHANGED <<free_list, next_free_page>>
      BY <2>2, <2>4 DEF map_page, TableNeeded, allocator
    <2>6. mapped' \in 0 .. IdentityPages
      BY <2>2, <2>3, Sizes
    <2>7. /\ Types' /\ BeforeInit' /\ AfterInit' /\ Translated' /\ TlbCoherent'
          /\ FaultOnlyBeyondIdentity'
          /\ \A w \in VPages : asked'[w] = IF w = v THEN Own(v) ELSE asked[w]
      BY <1>1, <2>2, <2>3, <2>5, <2>6, OwnMap
    <2>8. IdentityKept'
      <3>1. \A w \in 0 .. IdentityPages - 1 : w \in VPages
        BY Sizes
      <3>2. v < IdentityPages /\ IdentityPages \in Nat /\ v \in Nat
        BY <2>3, Sizes
      <3>3. \A w \in VPages : w \in Nat
        BY IndexFacts
      <3> QED
        BY <1>1, <2>2, <2>7, <3>1, <3>2, <3>3 DEF IdentityKept
    <2>9. BootTables'
      BY <1>1, <2>2, <2>5 DEF BootTables
    <2> QED
      BY <2>7, <2>8, <2>9 DEF IInv
  <1> QED
    BY <1>3, <1>4

\* ... the processor's switch to paging, which empties the TLB.
LEMMA EnableInv ==
    ASSUME IInv, enable_pae_paging
    PROVE  IInv'
  <1>1. /\ Types /\ BeforeInit /\ AfterInit /\ Translated /\ TlbCoherent /\ IdentityKept
        /\ BootTables /\ FaultOnlyBeyondIdentity /\ boot = "enable"
    BY DEF IInv, enable_pae_paging
  <1>2. boot' = "run" /\ tlb' = {}
        /\ UNCHANGED <<mapped, page_directories, mem, free_list, next_free_page, held,
                       panicked, asked, first>>
    BY DEF enable_pae_paging, tables, allocator, history
  <1>3. Types'
    BY ONLY <1>1, <1>2, SMTT(30) DEF Types
  <1>4. Translated' /\ TlbCoherent' /\ FaultOnlyBeyondIdentity'
    BY <1>1, <1>2 DEF Translated, TlbCoherent, Want, Walk, Pde, FaultOnlyBeyondIdentity
  <1>5. Separated' /\ FreeOnce' /\ Accounted' /\ RightsKept'
    <2>1. Separated /\ FreeOnce /\ Accounted /\ RightsKept
      BY <1>1 DEF AfterInit
    <2> QED
      BY <1>2, <2>1, SameTables DEF RightsKept
  <1>6. IdentityKept' /\ BootTables'
    BY <1>1, <1>2 DEF IdentityKept, BootTables
  <1> QED
    BY <1>2, <1>3, <1>4, <1>5, <1>6 DEF IInv, AfterInit, BeforeInit

-----------------------------------------------------------------------------
(***************************************************************************)
(* The running kernel.                                                     *)
(***************************************************************************)
\* What holds while the kernel runs.
Up ==
    /\ Types /\ Separated /\ FreeOnce /\ Accounted /\ RightsKept
    /\ Translated /\ TlbCoherent /\ IdentityKept /\ FaultOnlyBeyondIdentity
    /\ next_free_page <= IdentityPages
    /\ boot = "run"

\* Before the running kernel's steps the invariant is this, and so after them.
LEMMA UpFacts ==
    /\ IInv /\ Running => Up /\ ~panicked
    /\ Up => IInv
  BY DEF IInv, Up, Running, AfterInit, BeforeInit, BootTables

\* The same of the states a step leads to.
LEMMA UpFactsNext == Up' => IInv'
  <1>1. Up => IInv
    BY UpFacts
  <1> QED
    BY <1>1, PTL

\* The kernel reaches exactly the identity map's part of the pool.
LEMMA Reached ==
    ASSUME Up, NEW g \in PoolFrames
    PROVE  Accessible(g) <=> g < IdentityPages
  <1>1. g \in Nat /\ IdentityPages \in Nat /\ PhysFrames \subseteq Nat \ PoolFrames
    BY Sizes, PagingAssumption DEF PoolFrames
  <1>2. /\ Translated /\ boot = "run"
        /\ \A v \in 0 .. IdentityPages - 1 : asked[v] = Own(v)
        /\ \A v \in VPages : Present(asked[v]) /\ v >= IdentityPages => asked[v].frame \in PhysFrames
    BY DEF Up, IdentityKept
  <1>3. ASSUME g < IdentityPages PROVE Accessible(g)
    <2>1. g \in VPages /\ asked[g] = Own(g)
      BY <1>1, <1>2, <1>3, Sizes
    <2>2. Want(g) = Own(g)
      BY <2>1 DEF Want, Own, Entry, Flags32, Present
    <2> QED
      BY <1>2, <2>1, <2>2 DEF Translated, Accessible, Own
  <1>4. ASSUME Accessible(g), g >= IdentityPages PROVE FALSE
    <2>1. g \in VPages /\ Walk(g) = Own(g)
      BY <1>2, <1>4 DEF Accessible, Own
    <2>2. Want(g) = Own(g)
      BY <1>2, <2>1 DEF Translated
    <2>3. Present(asked[g]) /\ asked[g].frame = g
      BY <2>2 DEF Want, Own, Nothing, Entry, Flags32, Present
    <2> QED
      BY <1>1, <1>2, <1>4, <2>1, <2>3
  <1> QED
    BY <1>1, <1>3, <1>4

\* The frames in use or free have come out of the reachable part.
LEMMA UsedReached ==
    ASSUME Up, NEW g \in TableFrames \cup FreeFrames \cup held
    PROVE  g \in PoolFrames /\ g < IdentityPages
  <1>1. g \in PoolStart .. next_free_page - 1
    BY DEF Up, Accounted
  <1>2. next_free_page \in PoolStart .. PoolLimit + 1 /\ next_free_page <= IdentityPages
    BY DEF Up, Types
  <1> QED
    BY <1>1, <1>2, Sizes DEF PoolFrames

\* The processor's caching of a translation keeps the invariant, ...
LEMMA TlbFillInv ==
    ASSUME Up, TlbFill
    PROVE  Up'
  <1>1. /\ Types /\ Separated /\ FreeOnce /\ Accounted /\ RightsKept
        /\ Translated /\ TlbCoherent /\ IdentityKept /\ FaultOnlyBeyondIdentity
    BY DEF Up
  <1>2. UNCHANGED <<boot, mapped, page_directories, mem, free_list, next_free_page, held,
                    panicked, asked, first>>
    BY DEF TlbFill, tables, allocator, history
  <1>3. PICK v \in MapPages :
            tlb' = {t \in tlb : t.page # v} \cup {[page |-> v, entry |-> Walk(v)]}
    BY DEF TlbFill
  <1>4. v \in VPages /\ Walk(v) \in Entries
    <2>1. v \in VPages
      BY Sizes
    <2> QED
      BY <1>1, <2>1, WalkTypes
  <1>5. tlb' \subseteq [page : VPages, entry : Entries]
    BY <1>1, <1>3, <1>4 DEF Types
  <1>6. Types'
    BY <1>1, <1>2, <1>5 DEF Types
  <1>7. \A w : Pde(w)' = Pde(w) /\ Walk(w)' = Walk(w)
    BY <1>2, SameTables
  <1>8. TlbCoherent'
    BY <1>1, <1>3, <1>7 DEF TlbCoherent
  <1>9. Translated'
    BY <1>1, <1>2, <1>7 DEF Translated, Want
  <1>10. Separated' /\ FreeOnce' /\ Accounted' /\ RightsKept'
    BY <1>1, <1>2, <1>7, SameTables DEF RightsKept
  <1> QED
    BY <1>1, <1>2, <1>6, <1>8, <1>9, <1>10
       DEF Up, IdentityKept, FaultOnlyBeyondIdentity

\* ... a client's map_page, ...
LEMMA ClientMapInv ==
    ASSUME Up, ~panicked, ClientMap
    PROVE  Up'
  <1>1. /\ Types /\ Separated /\ FreeOnce /\ Accounted /\ RightsKept
        /\ Translated /\ TlbCoherent /\ IdentityKept
    BY DEF Up
  <1>2. PICK v \in MapPages, f \in PhysFrames, flags \in FlagSets :
            (\A t \in TouchedBy(v) : Accessible(t)) /\ map_page(v, f, flags)
    BY DEF ClientMap
  <1>3. UNCHANGED <<boot, mapped, held, panicked>>
    BY DEF ClientMap
  <1>4. /\ v \in VPages /\ v \notin 0 .. IdentityPages - 1
        /\ f \in Nat /\ flags \in SUBSET Flags
    BY Sizes, PagingAssumption
  <1>5. FramesWell /\ TablesServe
    BY <1>1 DEF FramesWell, TablesServe
  <1>6. /\ TablesServe'
        /\ asked' \in [VPages -> Entries]
        /\ \A w \in VPages : asked'[w] = IF w = v THEN Entry(f, flags) ELSE asked[w]
        /\ first' \in [TableIndexes -> {"nobody", "user", "kernel"}]
        /\ tlb' \subseteq tlb
    BY <1>1, <1>2, <1>3, <1>4, <1>5, MapServes
  <1>7. Separated' /\ FreeOnce' /\ Accounted'
    BY <1>2, <1>3, <1>4, <1>5, MapKeepsFrames
  <1>8. /\ page_directories' = page_directories
        /\ mem' \in [PoolFrames -> [0 .. PdSize + PtSize -> Entries]]
    BY <1>2, <1>4, <1>5, MapStores
  <1>9. /\ free_list' \in Seq(PoolFrames)
        /\ next_free_page' \in PoolStart .. PoolLimit + 1
        /\ next_free_page' <= IdentityPages
    <2>1. CASE TableNeeded(v)
      <3>1. TakeFrame
        BY <1>2, <2>1 DEF map_page
      <3>2. /\ NextFrame \in PoolFrames
            /\ free_list' \in Seq(PoolFrames)
            /\ next_free_page' \in PoolStart .. PoolLimit + 1
            /\ next_free_page' = next_free_page \/ next_free_page' = NextFrame + 1
        BY <1>1, <3>1, TakeFrameFacts
      <3>3. NextFrame < IdentityPages
        BY <1>2, <2>1, <3>2, Reached DEF TouchedBy
      <3> QED
        BY <3>2, <3>3, Sizes DEF Up, PoolFrames
    <2>2. CASE ~TableNeeded(v)
      BY <1>2, <2>2 DEF map_page, allocator, Up, Types
    <2> QED
      BY <2>1, <2>2
  <1>10. Types'
    BY <1>1, <1>3, <1>6, <1>8, <1>9 DEF Types
  <1>11. IdentityKept'
    <2>1. \A w \in 0 .. IdentityPages - 1 : w \in VPages /\ w # v
      BY <1>4, Sizes
    <2>2. Entry(f, flags).frame \in PhysFrames
      BY DEF Entry
    <2> QED
      BY <1>1, <1>3, <1>6, <2>1, <2>2 DEF IdentityKept, Up
  <1>12. FaultOnlyBeyondIdentity'
    BY <1>3 DEF FaultOnlyBeyondIdentity
  <1> QED
    BY <1>3, <1>6, <1>7, <1>9, <1>10, <1>11, <1>12 DEF Up, TablesServe

\* ... its unmap_page, ...
LEMMA ClientUnmapInv ==
    ASSUME Up, ~panicked, ClientUnmap
    PROVE  Up'
  <1>1. /\ Types /\ Separated /\ FreeOnce /\ Accounted /\ RightsKept
        /\ Translated /\ TlbCoherent /\ IdentityKept
    BY DEF Up
  <1>2. PICK v \in MapPages : unmap_page(v)
    BY DEF ClientUnmap
  <1>3. UNCHANGED <<boot, mapped, free_list, next_free_page, held, panicked>>
        /\ UNCHANGED allocator
    BY DEF ClientUnmap, allocator
  <1>4. v \in VPages /\ v \notin 0 .. IdentityPages - 1
    BY Sizes
  <1>5. FramesWell /\ TablesServe
    BY <1>1 DEF FramesWell, TablesServe
  <1>6. /\ TablesServe'
        /\ asked' \in [VPages -> Entries]
        /\ \A w \in VPages : asked'[w] = IF w = v THEN Nothing ELSE asked[w]
        /\ first' = first
        /\ tlb' \subseteq tlb
    BY <1>1, <1>2, <1>3, <1>4, <1>5, UnmapServes
  <1>7. /\ mem' \in [PoolFrames -> [0 .. PdSize + PtSize -> Entries]]
        /\ Separated' /\ FreeOnce' /\ Accounted'
    BY <1>2, <1>3, <1>4, <1>5, UnmapWalks
  <1>8. page_directories' = page_directories
    BY <1>2 DEF unmap_page
  <1>9. Types'
    BY <1>1, <1>3, <1>6, <1>7, <1>8 DEF Types
  <1>10. IdentityKept'
    <2>1. \A w \in 0 .. IdentityPages - 1 : w \in VPages /\ w # v
      BY <1>4, Sizes
    <2> QED
      BY <1>1, <1>3, <1>6, <2>1, PageTypes DEF IdentityKept, Up
  <1>11. FaultOnlyBeyondIdentity'
    BY <1>3 DEF FaultOnlyBeyondIdentity
  <1> QED
    BY <1>3, <1>6, <1>7, <1>9, <1>10, <1>11 DEF Up, TablesServe

\* ... an allocation, ...
LEMMA AllocateInv ==
    ASSUME Up, ~panicked, allocate_physical_page
    PROVE  Up'
  <1>1. /\ Types /\ Separated /\ FreeOnce /\ Accounted /\ RightsKept
        /\ Translated /\ TlbCoherent /\ IdentityKept
    BY DEF Up
  <1>2. /\ Accessible(NextFrame) /\ TakeFrame
        /\ held' = held \cup {NextFrame}
        /\ mem' = [mem EXCEPT ![NextFrame] = Zeroed]
        /\ UNCHANGED <<boot, mapped, page_directories, tlb, panicked, asked, first>>
    BY DEF allocate_physical_page, history
  <1>3. /\ NextFrame \in PoolFrames
        /\ NextFrame \notin TableFrames \cup held \cup {Pdpt}
        /\ free_list' \in Seq(PoolFrames)
        /\ next_free_page' \in PoolStart .. PoolLimit + 1
        /\ next_free_page' = next_free_page \/ next_free_page' = NextFrame + 1
        /\ FreeFrames' = FreeFrames \ {NextFrame}
        /\ \A a, b \in 1 .. Len(free_list') : free_list'[a] = free_list'[b] => a = b
        /\ PoolStart .. next_free_page' - 1 = (PoolStart .. next_free_page - 1) \cup {NextFrame}
    BY <1>1, <1>2, TakeFrameFacts
  <1>4. mem' \in [PoolFrames -> [0 .. PdSize + PtSize -> Entries]]
        /\ \A g \in TableFrames : mem'[g] = mem[g]
    <2>1. TableFrames \subseteq PoolFrames
      BY UsedReached
    <2> QED
      BY <1>1, <1>2, <1>3, <2>1, PageTypes DEF Types
  <1>5. \A i \in Pdpts, j \in Dirs : SlotEntry(i, j)' = SlotEntry(i, j)
    BY <1>1, <1>2, <1>4, TableFramesAre DEF SlotEntry, TablesAreSlots, IsTableFrame
  <1>6. /\ \A k \in Pdpts : page_directories[k] # NextFrame
        /\ \A k \in Pdpts, l \in Dirs : Present(SlotEntry(k, l)) => SlotEntry(k, l).frame # NextFrame
    BY <1>1, <1>3, TableFramesAre DEF TablesAreSlots, IsTableFrame
  <1>7. Separated'
    BY <1>1, <1>2, <1>3, <1>5, <1>6 DEF Separated, Pdpt
  <1>8. FreeOnce'
    BY <1>1, <1>2, <1>3 DEF FreeOnce, Pdpt
  <1>9. /\ \A g : g \in TableFrames' <=> g \in TableFrames
        /\ \A w \in VPages : Pde(w)' = Pde(w) /\ Walk(w)' = Walk(w)
    BY <1>1, <1>2, <1>4, <1>7, TablesAlone
  <1>10. Accounted'
    BY <1>1, <1>2, <1>3, <1>9 DEF Accounted, Pdpt
  <1>11. Types' /\ next_free_page' <= IdentityPages
    <2>1. NextFrame < IdentityPages
      BY <1>2, <1>3, Reached
    <2> QED
      BY <1>1, <1>2, <1>3, <1>4, <2>1, Sizes DEF Types, Up, PoolFrames
  <1>12. Translated' /\ RightsKept'
    BY <1>1, <1>2, <1>9 DEF Translated, Want, RightsKept
  <1>13. TlbCoherent'
    <2>1. \A t \in tlb : t.page \in VPages
      BY <1>1 DEF Types
    <2> QED
      BY <1>1, <1>2, <1>9, <2>1 DEF TlbCoherent
  <1> QED
    BY <1>1, <1>2, <1>7, <1>8, <1>10, <1>11, <1>12, <1>13
       DEF Up, IdentityKept, FaultOnlyBeyondIdentity

\* ... a page given back, whatever the client has written to it, ...
LEMMA FreeInv ==
    ASSUME Up, ~panicked, free_physical_page
    PROVE  Up'
  <1>1. /\ Types /\ Separated /\ FreeOnce /\ Accounted /\ RightsKept
        /\ Translated /\ TlbCoherent /\ IdentityKept
    BY DEF Up
  <1>2. PICK f \in held :
            /\ free_list' = <<f>> \o free_list
            /\ held' = held \ {f}
            /\ mem' = [mem EXCEPT ![f] = Garbage(f)]
    BY DEF free_physical_page
  <1>3. UNCHANGED <<boot, mapped, page_directories, next_free_page, tlb, panicked, asked, first>>
    BY DEF free_physical_page, history
  <1>4. f \in PoolFrames /\ f \notin FreeFrames \cup TableFrames \cup {Pdpt}
    <2>1. \A g \in TableFrames : g \notin held
      BY <1>1, TableFramesAre DEF TablesAreSlots, IsTableFrame, Separated
    <2> QED
      BY <1>1, <2>1 DEF Types, FreeOnce
  <1>5. /\ free_list' \in Seq(PoolFrames) /\ Len(free_list') = Len(free_list) + 1
        /\ free_list'[1] = f
        /\ \A i \in 1 .. Len(free_list) : free_list'[i + 1] = free_list[i]
        /\ \A i \in 2 .. Len(free_list') : i - 1 \in 1 .. Len(free_list)
                                           /\ free_list'[i] = free_list[i - 1]
        /\ Len(free_list) \in Nat
    BY <1>1, <1>2, <1>4 DEF Types
  <1>6. ASSUME NEW g PROVE g \in FreeFrames' <=> g \in FreeFrames \cup {f}
    <2>1. ASSUME NEW i \in 1 .. Len(free_list'), g = free_list'[i]
          PROVE  g \in FreeFrames \cup {f}
      <3>1. i = 1 \/ i \in 2 .. Len(free_list')
        BY <1>5
      <3> QED
        BY <1>5, <2>1, <3>1 DEF FreeFrames
    <2>2. ASSUME NEW i \in 1 .. Len(free_list), g = free_list[i]
          PROVE  g \in FreeFrames'
      <3>1. i + 1 \in 1 .. Len(free_list')
        BY <1>5
      <3> QED
        BY <1>5, <2>2, <3>1 DEF FreeFrames
    <2>3. f \in FreeFrames'
      <3>1. 1 \in 1 .. Len(free_list')
        BY <1>5
      <3> QED
        BY <1>5, <3>1 DEF FreeFrames
    <2> QED
      BY <2>1, <2>2, <2>3 DEF FreeFrames
  <1>7. \A a, b \in 1 .. Len(free_list') : free_list'[a] = free_list'[b] => a = b
    <2>1. \A a \in 1 .. Len(free_list') : a = 1 \/ a \in 2 .. Len(free_list')
      BY <1>5
    <2>2. \A a \in 2 .. Len(free_list') : free_list'[a] # f
      BY <1>4, <1>5 DEF FreeFrames
    <2>3. \A a, b \in 2 .. Len(free_list') : free_list'[a] = free_list'[b] => a = b
      <3>1. \A a, b \in 1 .. Len(free_list) : free_list[a] = free_list[b] => a = b
        BY <1>1 DEF FreeOnce
      <3> QED
        BY ONLY <1>5, <3>1
    <2> QED
      BY <1>5, <2>1, <2>2, <2>3
  <1>8. mem' \in [PoolFrames -> [0 .. PdSize + PtSize -> Entries]]
        /\ \A g \in TableFrames : mem'[g] = mem[g]
    <2>1. TableFrames \subseteq PoolFrames
      BY UsedReached
    <2> QED
      BY <1>1, <1>2, <1>4, <2>1, PageTypes DEF Types
  <1>9. \A i \in Pdpts, j \in Dirs : SlotEntry(i, j)' = SlotEntry(i, j)
    BY <1>1, <1>3, <1>8, TableFramesAre DEF SlotEntry, TablesAreSlots, IsTableFrame
  <1>10. Separated'
    <2>1. \A g : g \in FreeFrames' \cup held' \cup {Pdpt'} => g \in FreeFrames \cup held \cup {Pdpt}
      BY <1>2, <1>6 DEF Pdpt
    <2> QED
      BY <1>1, <1>3, <1>9, <2>1 DEF Separated
  <1>11. FreeOnce'
    BY <1>1, <1>2, <1>4, <1>6, <1>7 DEF FreeOnce, Pdpt
  <1>12. /\ \A g : g \in TableFrames' <=> g \in TableFrames
         /\ \A w \in VPages : Pde(w)' = Pde(w) /\ Walk(w)' = Walk(w)
    BY <1>1, <1>3, <1>8, <1>10, TablesAlone
  <1>13. Accounted'
    BY <1>1, <1>2, <1>3, <1>6, <1>12 DEF Accounted, Pdpt
  <1>14. Types'
    BY <1>1, <1>2, <1>3, <1>5, <1>8 DEF Types
  <1>15. Translated' /\ RightsKept'
    BY <1>1, <1>3, <1>12 DEF Translated, Want, RightsKept
  <1>16. TlbCoherent'
    <2>1. \A t \in tlb : t.page \in VPages
      BY <1>1 DEF Types
    <2> QED
      BY <1>1, <1>3, <1>12, <2>1 DEF TlbCoherent
  <1> QED
    BY <1>1, <1>3, <1>10, <1>11, <1>13, <1>14, <1>15, <1>16
       DEF Up, IdentityKept, FaultOnlyBeyondIdentity

\* ... and a page fault, which no table and no free frame can be the reason of.
LEMMA FaultInv ==
    ASSUME Up, PageFault
    PROVE  Up'
  <1>1. /\ Types /\ Separated /\ FreeOnce /\ Accounted /\ RightsKept
        /\ Translated /\ TlbCoherent /\ IdentityKept
    BY DEF Up
  <1>2. panicked' = TRUE
        /\ UNCHANGED <<boot, mapped, page_directories, mem, free_list, next_free_page, held,
                       tlb, asked, first>>
    BY DEF PageFault, tables, allocator, history
  <1>3. ASSUME NEW v \in MapPages, NEW t \in TouchedBy(v), t \in PoolFrames, ~Accessible(t)
        PROVE  t = NextFrame
    <2>1. v \in VPages
      BY Sizes
    <2>2. t >= IdentityPages /\ t \notin TableFrames
      <3>1. ~(t < IdentityPages)
        BY <1>3, Reached
      <3> QED
        BY <1>3, <3>1, UsedReached, Sizes DEF PoolFrames
    <2>3. page_directories[pdpt_index(v)] \in TableFrames
      BY <1>1, <2>1, IndexFacts, TableFramesAre DEF TablesAreSlots, IsTableFrame
    <2>4. ~TableNeeded(v) => Pde(v).frame \in TableFrames
      BY <1>1, <2>1, IndexFacts, TableFramesAre, WalkFacts
         DEF TablesAreSlots, IsTableFrame, TableNeeded, WalksAre
    <2> QED
      BY <2>2, <2>3, <2>4 DEF TouchedBy
  <1>4. NextFrame \in PoolFrames /\ ~Accessible(NextFrame)
    BY <1>3 DEF PageFault
  <1>5. NextFrame >= IdentityPages /\ NextFrame \notin FreeFrames
    <2>1. ~(NextFrame < IdentityPages)
      BY <1>4, Reached
    <2> QED
      BY <1>4, <2>1, UsedReached, Sizes DEF PoolFrames
  <1>6. free_list = << >>
    <2>1. free_list # << >> => Head(free_list) = free_list[1] /\ 1 \in 1 .. Len(free_list)
      BY <1>1 DEF Types
    <2> QED
      BY <1>5, <2>1 DEF NextFrame, FreeFrames
  <1>7. FaultOnlyBeyondIdentity'
    BY <1>2, <1>5, <1>6 DEF FaultOnlyBeyondIdentity, NextFrame
  <1>8. Types'
    BY <1>1, <1>2 DEF Types
  <1>9. \A w : Pde(w)' = Pde(w) /\ Walk(w)' = Walk(w)
    BY <1>2, SameTables
  <1>10. Separated' /\ FreeOnce' /\ Accounted'
    BY <1>1, <1>2, SameTables
  <1>11. Translated' /\ RightsKept' /\ TlbCoherent' /\ IdentityKept'
    BY <1>1, <1>2, <1>9 DEF Translated, Want, RightsKept, TlbCoherent, IdentityKept
  <1> QED
    BY <1>2, <1>7, <1>8, <1>10, <1>11 DEF Up

-----------------------------------------------------------------------------
(***************************************************************************)
(* The invariant, and what follows from it.                                *)
(***************************************************************************)
\* A stutter keeps the invariant.
LEMMA StutterInv ==
    ASSUME IInv, UNCHANGED vars
    PROVE  IInv'
  <1>1. /\ Types /\ BeforeInit /\ AfterInit /\ Translated /\ TlbCoherent /\ IdentityKept
        /\ BootTables /\ FaultOnlyBeyondIdentity
    BY DEF IInv
  <1>2. UNCHANGED <<boot, mapped, page_directories, mem, free_list, next_free_page, held,
                    tlb, panicked, asked, first>>
    BY DEF vars
  <1>3. \A w : Pde(w)' = Pde(w) /\ Walk(w)' = Walk(w)
    BY <1>2, SameTables
  <1>4. AfterInit'
    BY <1>1, <1>2, <1>3, SameTables DEF AfterInit, RightsKept
  <1>5. Types' /\ BeforeInit'
    BY <1>1, <1>2 DEF Types, BeforeInit
  <1>6. Translated' /\ TlbCoherent' /\ IdentityKept'
    BY <1>1, <1>2, <1>3 DEF Translated, Want, TlbCoherent, IdentityKept
  <1>7. BootTables' /\ FaultOnlyBeyondIdentity'
    BY <1>1, <1>2, <1>3 DEF BootTables, FaultOnlyBeyondIdentity
  <1> QED
    BY <1>4, <1>5, <1>6, <1>7 DEF IInv

\* The invariant holds in every state.
THEOREM InvHolds == Spec => []IInv
  <1>1. IInv /\ [Next]_vars => IInv'
    <2> SUFFICES ASSUME IInv, [Next]_vars PROVE IInv'
      OBVIOUS
    <2>1. CASE paging_init
      BY <2>1, PagingInitInv
    <2>2. CASE setup_identity_mapping
      BY <2>2, IdentityInv
    <2>3. CASE setup_kernel_heap
      BY <2>3, HeapInv
    <2>4. CASE enable_pae_paging
      BY <2>4, EnableInv
    <2>5. CASE TlbFill
      BY <2>5, UpFacts, UpFactsNext, TlbFillInv DEF TlbFill, Running
    <2>6. CASE ClientMap
      BY <2>6, UpFacts, UpFactsNext, ClientMapInv DEF ClientMap
    <2>7. CASE ClientUnmap
      BY <2>7, UpFacts, UpFactsNext, ClientUnmapInv DEF ClientUnmap
    <2>8. CASE UnmapRefused
      BY <2>8, StutterInv DEF UnmapRefused
    <2>9. CASE allocate_physical_page
      BY <2>9, UpFacts, UpFactsNext, AllocateInv DEF allocate_physical_page
    <2>10. CASE free_physical_page
      BY <2>10, UpFacts, UpFactsNext, FreeInv DEF free_physical_page
    <2>11. CASE PageFault
      BY <2>11, UpFacts, UpFactsNext, FaultInv DEF PageFault
    <2>12. CASE UNCHANGED vars
      BY <2>12, StutterInv
    <2> QED
      BY <2>1, <2>2, <2>3, <2>4, <2>5, <2>6, <2>7, <2>8, <2>9, <2>10, <2>11, <2>12 DEF Next
  <1> QED
    BY InitInv, <1>1, PTL DEF Spec

\* The registers, the tables and the lists of frames keep their types.
THEOREM TypeCorrect == Spec => []TypeOK
  <1>1. ASSUME IInv PROVE TypeOK
    <2>1. Types
      BY <1>1 DEF IInv
    <2>2. boot \in {"paging_init", "identity", "heap", "enable", "run"}
          /\ mapped \in 0 .. IdentityPages /\ panicked \in BOOLEAN
      BY <2>1 DEF Types
    <2>3. page_directories \in [0 .. PdptSize - 1 -> PoolFrames \cup {NoFrame}]
      BY <2>1 DEF Types, Pdpts
    <2>4. \A f \in PoolFrames : \A i \in DOMAIN mem[f] : mem[f][i].flags \subseteq Flags
      <3>1. \A f \in PoolFrames : /\ DOMAIN mem[f] = 0 .. PdSize + PtSize
                                /\ \A i \in 0 .. PdSize + PtSize : mem[f][i] \in Entries
        BY <2>1 DEF Types
      <3>2. \A e \in Entries : e.flags \subseteq Flags
        BY DEF Entries
      <3> QED
        BY <3>1, <3>2
    <2>5. FreeFrames \subseteq PoolFrames
      BY <2>1 DEF Types, FreeFrames
    <2>6. next_free_page \in PoolStart .. PoolLimit + 1 /\ held \subseteq PoolFrames
      BY <2>1 DEF Types
    <2> QED
      BY <2>2, <2>3, <2>4, <2>5, <2>6, Zenon DEF TypeOK
  <1> QED
    BY <1>1, InvHolds, PTL

\* A list without repetitions has as many members as places.
LEMMA FreeCount ==
    ASSUME Types, FreeOnce
    PROVE  Cardinality(FreeFrames) = Len(free_list)
  <1> DEFINE S == 1 .. Len(free_list)
  <1>1. free_list \in Seq(PoolFrames) /\ Len(free_list) \in Nat
    BY DEF Types
  <1>2. IsFiniteSet(S) /\ Cardinality(S) = Len(free_list)
    <2> DEFINE n == Len(free_list)
    <2>1. n \in Nat
      BY <1>1
    <2> HIDE DEF n
    <2>2. IsFiniteSet(1 .. n) /\ Cardinality(1 .. n) = n
      BY ONLY <2>1, FS_Interval
    <2> QED
      BY ONLY <2>2 DEF n
  <1>3. free_list \in [S -> FreeFrames]
    BY <1>1 DEF FreeFrames
  <1>4. /\ \A a, b \in S : free_list[a] = free_list[b] => a = b
        /\ \A g \in FreeFrames : \E a \in S : free_list[a] = g
    BY DEF FreeOnce, FreeFrames
  <1> HIDE DEF S
  <1>5. free_list \in Bijection(S, FreeFrames)
    BY <1>3, <1>4, Fun_IsBij
  <1>6. ExistsBijection(S, FreeFrames)
    BY <1>5 DEF ExistsBijection
  <1> QED
    BY <1>2, <1>6, FS_Bijection

\* Every frame drawn from the pool has exactly one use: no call that makes a
\* page table hands out, overwrites or leaks a frame, whatever clients do.
THEOREM FramesOwned == Spec => []TablesOwnTheirFrames
  <1>1. ASSUME IInv PROVE TablesOwnTheirFrames
    <2> SUFFICES ASSUME boot # "paging_init"
                 PROVE  LET owners == <<{InitialList[1]}, TableFrames, FreeFrames, held>>
                        IN  /\ \A i, j \in 1 .. 4 : i # j => owners[i] \cap owners[j] = {}
                            /\ Cardinality(FreeFrames) = Len(free_list)
                            /\ UNION {owners[i] : i \in 1 .. 4} = PoolStart .. next_free_page - 1
      BY DEF TablesOwnTheirFrames
    <2> DEFINE owners == <<{InitialList[1]}, TableFrames, FreeFrames, held>>
    <2>1. Types /\ Separated /\ FreeOnce /\ Accounted
      BY <1>1 DEF IInv, AfterInit
    <2>2. Cardinality(FreeFrames) = Len(free_list)
      BY <2>1, FreeCount
    <2>3. InitialList[1] = Pdpt
      BY Sizes DEF InitialList, Pdpt
    <2>4. \A f \in TableFrames : f \notin FreeFrames \cup held \cup {Pdpt}
      BY <2>1, TableFramesAre DEF TablesAreSlots, IsTableFrame, Separated
    <2>5. /\ owners[1] = {Pdpt} /\ owners[2] = TableFrames
          /\ owners[3] = FreeFrames /\ owners[4] = held
      BY <2>3
    <2> HIDE DEF owners
    <2>6. \A i \in 1 .. 4 : i = 1 \/ i = 2 \/ i = 3 \/ i = 4
      OBVIOUS
    <2>7. \A i, j \in 1 .. 4 : i # j => owners[i] \cap owners[j] = {}
      BY <2>1, <2>4, <2>5, <2>6 DEF FreeOnce
    <2>8. UNION {owners[i] : i \in 1 .. 4} = {Pdpt} \cup TableFrames \cup FreeFrames \cup held
      <3>1. UNION {owners[i] : i \in 1 .. 4} = owners[1] \cup owners[2] \cup owners[3] \cup owners[4]
        BY <2>6
      <3> QED
        BY <2>5, <3>1
    <2> QED
      BY <2>1, <2>2, <2>7, <2>8 DEF Accounted, owners
  <1> QED
    BY <1>1, InvHolds, PTL

\* The tables translate every page to the frame and the bits of the low word
\* that the last call for it asked for, and get_physical_addr answers with the
\* frame, below 4 GB.  (What becomes of PAGE_NX is NxKept's question.)
THEOREM Translates == Spec => []TranslationExact
  <1>1. ASSUME IInv PROVE TranslationExact
    <2>1. Types /\ Translated
      BY <1>1 DEF IInv
    <2>2. ASSUME NEW v \in VPages, Present(asked[v]), asked[v].frame < Frames4G
          PROVE  get_physical_addr(v) = asked[v].frame
      <3>1. asked[v] \in Entries
        BY <2>1 DEF Types
      <3>2. asked[v].frame \in Nat
        BY <3>1 DEF Entries
      <3>3. Want(v).frame = asked[v].frame
        BY <2>2 DEF Want, Entry, Flags32, Present
      <3>4. Walk(v).frame = asked[v].frame
        BY <2>1, <3>3 DEF Translated
      <3>5. asked[v].frame % Frames4G = asked[v].frame
        <4>1. asked[v].frame \in 0 .. Frames4G - 1 /\ Frames4G \in Nat \ {0}
          BY <2>2, <3>2, Sizes
        <4> QED
          BY ONLY <4>1, ModSmall
      <3> QED
        BY <3>4, <3>5 DEF get_physical_addr
    <2>3. ASSUME NEW v \in VPages
          PROVE  Walk(v) = IF Present(asked[v])
                           THEN Entry(asked[v].frame, asked[v].flags \ {"NX"})
                           ELSE Nothing
      <3>1. Present(Want(v)) = Present(asked[v]) /\ Walk(v) = Want(v)
        BY <2>1 DEF Translated, Want, Entry, Nothing, Flags32, Present
      <3> QED
        BY <3>1 DEF Want, Entry, Flags32, Present
    <2> QED
      BY <2>2, <2>3 DEF TranslationExact
  <1> QED
    BY <1>1, InvHolds, PTL

\* The processor never uses a translation that the tables no longer hold: every
\* change of an entry drops the page from the TLB.
THEOREM TlbNeverStale == Spec => []TlbCoherent
  <1>1. IInv => TlbCoherent
    BY DEF IInv
  <1> QED
    BY <1>1, InvHolds, PTL

\* User mode reaches exactly the pages mapped for it through tables whose first
\* page was mapped for it.
THEOREM UserReaches == Spec => []UserReachExact
  <1>1. ASSUME IInv PROVE UserReachExact
    <2> SUFFICES ASSUME NEW v \in VPages
                 PROVE  UserRights(v) =
                            IF {"PRESENT", "USER"} \subseteq asked[v].flags
                               /\ first[table_index(v)] = "user"
                            THEN Flags32(asked[v].flags) ELSE {}
      BY DEF UserReachExact
    <2>1. Walk(v) = Want(v)
      BY <1>1 DEF IInv, Translated
    <2>2. /\ Present(Want(v)) <=> "PRESENT" \in asked[v].flags
          /\ Present(Want(v)) => Want(v).flags = Flags32(asked[v].flags)
          /\ Present(Want(v)) => ("USER" \in Want(v).flags <=> "USER" \in asked[v].flags)
      BY DEF Want, Entry, Nothing, Flags32, Present
    <2>3. CASE boot = "paging_init"
      <3>1. first[table_index(v)] = "nobody" /\ asked[v] = Nothing
        BY <1>1, <2>3, IndexFacts DEF IInv, BeforeInit
      <3> QED
        BY <2>1, <2>2, <3>1 DEF UserRights, Nothing, Entry
    <2>4. CASE boot # "paging_init"
      <3>1. Separated /\ RightsKept
        BY <1>1, <2>4 DEF IInv, AfterInit
      <3>2. Present(Walk(v)) => Present(Pde(v))
        BY <3>1, WalkFacts, PageTypes DEF WalksAre
      <3>3. Present(Pde(v)) => ("USER" \in Pde(v).flags <=> first[table_index(v)] = "user")
        BY <3>1 DEF RightsKept
      <3> QED
        BY <2>1, <2>2, <3>2, <3>3 DEF UserRights
    <2> QED
      BY <2>3, <2>4
  <1> QED
    BY <1>1, InvHolds, PTL

\* The kernel faults on a table or a new frame only when the list is empty and
\* the pool has left the identity map.
THEOREM FaultsOnlyThere == Spec => []FaultOnlyBeyondIdentity
  <1>1. IInv => FaultOnlyBeyondIdentity
    BY DEF IInv
  <1> QED
    BY <1>1, InvHolds, PTL
=============================================================================
