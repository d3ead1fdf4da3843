--------------------------- MODULE FrameAllocator ---------------------------
(***************************************************************************)
(* What a physical page-frame allocator of the kernel promises, whatever   *)
(* its data structure: a frame is available, owned by a caller, or         *)
(* withheld (neither); an allocation moves a contiguous run of available   *)
(* frames to their new owner and nothing else; only an owner's frames come *)
(* back; and the number of free frames the allocator reports is the number *)
(* it could hand out.                                                      *)
(*                                                                         *)
(* Pmm (the bitmap allocator of pmm.c) and FreeList (the linked list of    *)
(* paging.c) are both shown to implement this specification.               *)
(***************************************************************************)
EXTENDS Integers, FiniteSets

CONSTANT Frames     \* the frames the allocator manages

VARIABLES
    avail,          \* frames the allocator may hand out
    owned,          \* frames handed out and not yet given back
    reported        \* the count of free frames it reports

frameVars == <<avail, owned, reported>>

Withheld == Frames \ (avail \cup owned)

IsRun(S) == \E lo, hi \in S : S = lo .. hi

Init ==
    /\ avail \in SUBSET Frames
    /\ owned = {}
    /\ reported = Cardinality(avail)

\* Hand the run S to a caller.
Alloc(S) ==
    /\ S \subseteq avail
    /\ IsRun(S)
    /\ avail' = avail \ S
    /\ owned' = owned \cup S
    /\ reported' = Cardinality(avail')

\* Take back frames S their owner no longer needs.
Free(S) ==
    /\ S \subseteq owned
    /\ avail' = avail \cup S
    /\ owned' = owned \ S
    /\ reported' = Cardinality(avail')

\* Withdraw available frames from circulation, or put withheld ones in it.
Withhold(S) ==
    /\ avail' = avail \ S
    /\ reported' = Cardinality(avail')
    /\ UNCHANGED owned

Release(S) ==
    /\ S \subseteq Withheld
    /\ avail' = avail \cup S
    /\ reported' = Cardinality(avail')
    /\ UNCHANGED owned

Next == \E S \in SUBSET Frames : Alloc(S) \/ Free(S) \/ Withhold(S) \/ Release(S)

Spec == Init /\ [][Next]_frameVars
=============================================================================
