--------------------------- MODULE FreeListProofs ---------------------------
(***************************************************************************)
(* Proofs about FreeList, for every number of frames, every initial pool   *)
(* and every width of the counters.                                        *)
(*                                                                         *)
(* The inductive invariant says of the list what the walk along it cannot  *)
(* say by itself: there is an order in which every free page drawn so far  *)
(* occurs once, each linked to the next one and the last to NULL.          *)
(***************************************************************************)
EXTENDS FreeList, ProofLemmas, FiniteSetTheorems, FunctionTheorems, TLAPS

\* The pages q[1], ..., q[n] are linked in this order.
IsList(q, n) ==
    /\ \A i, j \in 1 .. n : q[i] = q[j] => i = j
    /\ free_list_head = IF n = 0 THEN NULL ELSE q[1]
    /\ \A i \in 1 .. n : next[q[i]] = IF i = n THEN NULL ELSE q[i + 1]

\* The list holds the free pages, each once.
Listed ==
    ~misused =>
        /\ inuse \subseteq Drawn
        /\ \E n \in 0 .. MaxFrames : \E q \in [1 .. n -> Frames] :
              IsList(q, n) /\ Drawn \ inuse = {q[i] : i \in 1 .. n}

\* The difference of the counters is the number of pages in use.
Counting ==
    ~misused => (total_pages_allocated - total_pages_freed) % Word = Cardinality(inuse) % Word

\* No word that is no page has been followed.
OnPages == ~misused => ~astray

IInv == TypeOK /\ Listed /\ Counting /\ OnPages

-----------------------------------------------------------------------------
(***************************************************************************)
(* The walk along the list.                                                *)
(***************************************************************************)
\* The first i links of the walk, as Node defines them.
IsWalk(i, w) ==
    w = [k \in 0 .. i |->
            IF k = 0 THEN free_list_head ELSE After(w[k - 1])]

\* There is a walk of every length, ...
LEMMA WalkExists == \A i \in Nat : \E w : IsWalk(i, w)
  <1> DEFINE S == {i \in Nat : ~ \E w : IsWalk(i, w)}
  <1>1. SUFFICES ASSUME S # {} PROVE FALSE
    OBVIOUS
  <1>2. Min(S) \in S /\ \A i \in S : Min(S) <= i
    <2>1. S \in SUBSET Nat
      OBVIOUS
    <2> QED
      BY <1>1, <2>1, MinExists, Zenon
  <1>3. PICK m \in S : \A i \in S : m <= i
    BY <1>2
  <1>4. CASE m = 0
    <2> DEFINE w == [k \in 0 .. m |-> free_list_head]
    <2>1. IsWalk(m, w)
      BY <1>4 DEF IsWalk
    <2> QED
      BY <1>3, <2>1
  <1>5. CASE m # 0
    <2>1. m \in Nat /\ m - 1 \in Nat /\ m - 1 \notin S
      BY <1>3, <1>5
    <2>2. PICK v : IsWalk(m - 1, v)
      BY <2>1
    <2> DEFINE w == [k \in 0 .. m |->
                        IF k < m THEN v[k]
                        ELSE After(v[m - 1])]
    <2>3. \A k \in 0 .. m - 1 :
              v[k] = IF k = 0 THEN free_list_head ELSE After(v[k - 1])
      BY <2>2 DEF IsWalk
    <2>4. \A k \in 0 .. m :
              w[k] = IF k = 0 THEN free_list_head ELSE After(w[k - 1])
      <3> SUFFICES ASSUME NEW k \in 0 .. m
                   PROVE  w[k] = IF k = 0 THEN free_list_head ELSE After(w[k - 1])
        OBVIOUS
      <3>1. CASE k < m
        <4>1. k \in 0 .. m - 1 /\ w[k] = v[k]
          BY <2>1, <3>1
        <4>2. k # 0 => k - 1 \in 0 .. m - 1 /\ w[k - 1] = v[k - 1]
          BY <2>1, <3>1
        <4> HIDE DEF w
        <4> QED
          BY <2>3, <4>1, <4>2
      <3>2. CASE k = m
        <4>1. k # 0 /\ w[k - 1] = v[m - 1]
          BY <1>5, <2>1, <3>2
        <4>2. w[k] = After(v[m - 1])
          BY <2>1, <3>2
        <4> HIDE DEF w
        <4> QED
          BY <4>1, <4>2
      <3> QED
        BY <2>1, <3>1, <3>2
    <2>5. IsWalk(m, w)
      <3>1. w = [k \in 0 .. m |-> w[k]]
        OBVIOUS
      <3> HIDE DEF w
      <3> QED
        BY <2>4, <3>1 DEF IsWalk
    <2> QED
      BY <1>3, <2>5
  <1> QED
    BY <1>4, <1>5

\* ... the walks agree on what they share, ...
LEMMA WalksAgree ==
    ASSUME NEW i \in Nat, NEW j \in Nat, NEW v, NEW w, IsWalk(i, v), IsWalk(j, w)
    PROVE  \A k \in 0 .. i : k <= j => v[k] = w[k]
  <1> DEFINE S == {k \in 0 .. i : k <= j /\ v[k] # w[k]}
  <1>1. SUFFICES ASSUME S # {} PROVE FALSE
    OBVIOUS
  <1>2. Min(S) \in S /\ \A k \in S : Min(S) <= k
    <2>1. S \in SUBSET Nat
      OBVIOUS
    <2> QED
      BY <1>1, <2>1, MinExists, Zenon
  <1>3. PICK m \in S : \A k \in S : m <= k
    BY <1>2
  <1>4. m \in 0 .. i /\ m \in 0 .. j /\ v[m] # w[m]
    OBVIOUS
  <1>5. /\ v[m] = IF m = 0 THEN free_list_head ELSE After(v[m - 1])
        /\ w[m] = IF m = 0 THEN free_list_head ELSE After(w[m - 1])
    BY <1>4 DEF IsWalk
  <1>6. m # 0
    BY <1>4, <1>5
  <1>7. m - 1 \in 0 .. i /\ m - 1 <= j /\ m - 1 \notin S
    BY <1>3, <1>4, <1>6
  <1>8. v[m - 1] = w[m - 1]
    BY <1>7
  <1> QED
    BY <1>4, <1>5, <1>8

\* ... and Node follows the links.
LEMMA NodeFacts ==
    /\ Node(0) = free_list_head
    /\ \A i \in Nat : Node(i + 1) = After(Node(i))
  <1>1. \A i \in Nat : \E w : IsWalk(i, w) /\ Node(i) = w[i]
    <2> SUFFICES ASSUME NEW i \in Nat PROVE \E w : IsWalk(i, w) /\ Node(i) = w[i]
      OBVIOUS
    <2> DEFINE w == CHOOSE node : IsWalk(i, node)
    <2>1. IsWalk(i, w)
      BY WalkExists
    <2>2. Node(i) = w[i]
      BY DEF Node, IsWalk
    <2> QED
      BY <2>1, <2>2
  <1>2. Node(0) = free_list_head
    <2>1. PICK w : IsWalk(0, w) /\ Node(0) = w[0]
      BY <1>1
    <2>2. w[0] = free_list_head
      BY <2>1 DEF IsWalk
    <2> QED
      BY <2>1, <2>2
  <1>3. ASSUME NEW i \in Nat
        PROVE  Node(i + 1) = After(Node(i))
    <2>1. PICK v : IsWalk(i, v) /\ Node(i) = v[i]
      BY <1>1
    <2>2. PICK w : IsWalk(i + 1, w) /\ Node(i + 1) = w[i + 1]
      BY <1>1
    <2>3. v[i] = w[i]
      <3>1. i \in 0 .. i /\ i <= i + 1 /\ i + 1 \in Nat
        OBVIOUS
      <3> QED
        BY <2>1, <2>2, <3>1, WalksAgree
    <2>4. w[i + 1] = After(w[i])
      <3>1. i + 1 \in 0 .. i + 1 /\ i + 1 # 0 /\ (i + 1) - 1 = i
        OBVIOUS
      <3> QED
        BY <2>2, <3>1 DEF IsWalk
    <2> QED
      BY <2>1, <2>2, <2>3, <2>4
  <1> QED
    BY <1>2, <1>3

\* The walk meets words only, ...
LEMMA NodeType ==
    ASSUME TypeOK
    PROVE  \A i \in Nat : Node(i) \in Words
  <1> DEFINE S == {i \in Nat : Node(i) \notin Words}
  <1>1. SUFFICES ASSUME S # {} PROVE FALSE
    OBVIOUS
  <1>2. Min(S) \in S /\ \A i \in S : Min(S) <= i
    <2>1. S \in SUBSET Nat
      OBVIOUS
    <2> QED
      BY <1>1, <2>1, MinExists, Zenon
  <1>3. PICK m \in S : \A i \in S : m <= i
    BY <1>2
  <1>4. m # 0
    BY <1>3, NodeFacts DEF TypeOK
  <1>5. m - 1 \in Nat /\ m - 1 \notin S /\ (m - 1) + 1 = m
    BY <1>3, <1>4
  <1>6. Node(m) = After(Node(m - 1))
    BY <1>5, NodeFacts
  <1>7. Node(m - 1) \in Words
    BY <1>5
  <1>8. Node(m) \in Words
    BY <1>6, <1>7 DEF TypeOK, After
  <1> QED
    BY <1>8

\* ... goes the same way from the same page, ...
LEMMA NodeRepeats ==
    ASSUME NEW a \in Nat, NEW b \in Nat, Node(a) = Node(b)
    PROVE  \A k \in Nat : Node(a + k) = Node(b + k)
  <1> DEFINE S == {k \in Nat : Node(a + k) # Node(b + k)}
  <1>1. SUFFICES ASSUME S # {} PROVE FALSE
    OBVIOUS
  <1>2. Min(S) \in S /\ \A i \in S : Min(S) <= i
    <2>1. S \in SUBSET Nat
      OBVIOUS
    <2> QED
      BY <1>1, <2>1, MinExists, Zenon
  <1>3. PICK m \in S : \A i \in S : m <= i
    BY <1>2
  <1>4. m # 0
    <2>1. a + 0 = a /\ b + 0 = b
      OBVIOUS
    <2> QED
      BY <2>1
  <1>5. m - 1 \in Nat /\ m - 1 \notin S
    BY <1>3, <1>4
  <1>6. /\ a + (m - 1) \in Nat /\ (a + (m - 1)) + 1 = a + m
        /\ b + (m - 1) \in Nat /\ (b + (m - 1)) + 1 = b + m
    BY <1>5
  <1>7. Node(a + (m - 1)) = Node(b + (m - 1))
    BY <1>5
  <1>8. /\ Node(a + m) = After(Node(a + (m - 1)))
        /\ Node(b + m) = After(Node(b + (m - 1)))
    BY <1>6, NodeFacts
  <1> QED
    BY <1>7, <1>8

\* ... and stays where there is no page.
LEMMA NodeStays ==
    ASSUME NEW i \in Nat, Node(i) \notin Frames, NEW j \in Nat, i <= j
    PROVE  Node(j) = Node(i)
  <1> DEFINE S == {k \in Nat : Node(i + k) # Node(i)}
  <1>1. ASSUME S # {} PROVE FALSE
    <2>1. Min(S) \in S /\ \A k \in S : Min(S) <= k
      <3>1. S \in SUBSET Nat
        OBVIOUS
      <3> QED
        BY <1>1, <3>1, MinExists, Zenon
    <2>2. PICK m \in S : \A k \in S : m <= k
      BY <2>1
    <2>3. m # 0
      <3>1. i + 0 = i
        OBVIOUS
      <3> QED
        BY <3>1
    <2>4. m - 1 \in Nat /\ m - 1 \notin S
      BY <2>2, <2>3
    <2>5. Node(i + (m - 1)) = Node(i)
      BY <2>4
    <2>6. (i + (m - 1)) + 1 = i + m /\ i + (m - 1) \in Nat
      BY <2>4
    <2>7. Node(i + m) = After(Node(i))
      BY <2>5, <2>6, NodeFacts
    <2> QED
      BY <2>7 DEF After
  <1>2. j - i \in Nat /\ j = i + (j - i)
    OBVIOUS
  <1>3. j - i \notin S
    BY <1>1
  <1> QED
    BY <1>2, <1>3

\* NULL is no page.
LEMMA NullNoFrame == NULL \notin Frames
  BY DEF NULL, Frames

\* A walk that first meets the end after c links has visited c pages, each once.
LEMMA WalkCounts ==
    ASSUME TypeOK, NEW c \in Nat, Node(c) = NULL, \A i \in Nat : i < c => Node(i) # NULL
    PROVE  c <= MaxFrames /\ Cardinality(ListFrames) = c
  <1> DEFINE D == 0 .. c - 1
             f == [i \in D |-> Node(i)]
             T == {Node(i) : i \in D}
  <1>1. MaxFrames \in Nat
    BY FreeListAssumption
  <1>2. \A i \in D : Node(i) \in Frames
    <2>1. ASSUME NEW i \in D, Node(i) \notin Frames PROVE FALSE
      <3>1. i \in Nat /\ i < c
        OBVIOUS
      <3>2. Node(c) = Node(i)
        BY <2>1, <3>1, NodeStays
      <3> QED
        BY <3>1, <3>2
    <2> QED
      BY <2>1
  <1>3. f \in [D -> Frames] /\ f \in [D -> T] /\ \A t \in T : \E i \in D : f[i] = t
    BY <1>2
  <1>4. \A a, b \in D : f[a] = f[b] => a = b
    <2>1. ASSUME NEW a \in D, NEW b \in D, a < b, Node(a) = Node(b) PROVE FALSE
      <3>1. c - b \in Nat /\ a \in Nat /\ b \in Nat /\ b + (c - b) = c
            /\ a + (c - b) \in Nat /\ a + (c - b) < c
        BY <2>1
      <3>2. Node(a + (c - b)) = Node(c)
        BY <2>1, <3>1, NodeRepeats
      <3> QED
        BY <3>1, <3>2
    <2> QED
      BY <2>1
  <1> HIDE DEF f
  <1>5. IsFiniteSet(Frames) /\ Cardinality(Frames) = MaxFrames
    <2>1. 1 \in Int /\ MaxFrames \in Int
      BY <1>1
    <2>2. IsFiniteSet(Frames) /\ Cardinality(Frames) = IF 1 > MaxFrames THEN 0 ELSE MaxFrames - 1 + 1
      BY <2>1, FS_Interval, Zenon DEF Frames
    <2> QED
      BY <1>1, <2>2
  <1>6. IsFiniteSet(D) /\ Cardinality(D) = c
    <2>1. 0 \in Int /\ c - 1 \in Int
      OBVIOUS
    <2>2. IsFiniteSet(D) /\ Cardinality(D) = IF 0 > c - 1 THEN 0 ELSE (c - 1) - 0 + 1
      BY <2>1, FS_Interval, Zenon
    <2> QED
      BY <2>2
  <1> HIDE DEF D
  <1>7. f \in Injection(D, Frames)
    BY <1>3, <1>4, Fun_IsInj
  <1>8. c <= MaxFrames
    BY <1>5, <1>6, <1>7, FS_Injection
  <1> HIDE DEF T
  <1>9. f \in Bijection(D, T)
    BY <1>3, <1>4, Fun_IsBij
  <1>10. Cardinality(T) = c
    <2>1. ExistsBijection(D, T)
      BY <1>9 DEF ExistsBijection
    <2> QED
      BY <1>6, <2>1, FS_Bijection
  <1>11. ListFrames = T
    <2>1. ASSUME NEW i \in 0 .. MaxFrames, Node(i) \in Frames PROVE i \in D
      <3>1. ~(c <= i)
        BY <1>1, <2>1, NodeStays, NullNoFrame
      <3> QED
        BY <1>1, <3>1 DEF D
    <2>2. ASSUME NEW i \in D PROVE i \in 0 .. MaxFrames /\ Node(i) \in Frames
      BY <1>1, <1>8, <1>2 DEF D
    <2> QED
      BY <2>1, <2>2 DEF ListFrames, T
  <1> QED
    BY <1>8, <1>10, <1>11

\* get_memory_stats counts the nodes up to the first NULL, ...
LEMMA EndFound ==
    ASSUME NEW c \in Nat, c <= WalkLimit, Node(c) = NULL, \A i \in Nat : i < c => Node(i) # NULL
    PROVE  StatsCount = c
  <1> DEFINE ends == {i \in 0 .. WalkLimit : Node(i) = NULL}
             first == CHOOSE i \in ends : \A j \in ends : i <= j
  <1>1. WalkLimit \in Nat
    BY FreeListAssumption
  <1>2. c \in ends /\ \A j \in ends : c <= j /\ j \in Nat
    BY <1>1
  <1>3. StatsCount = first
    BY <1>2 DEF StatsCount
  <1> HIDE DEF ends
  <1>4. first \in ends /\ first <= c /\ c <= first
    BY <1>2
  <1> HIDE DEF first
  <1> QED
    BY <1>2, <1>3, <1>4

\* ... or gives up when there is none in its reach.
LEMMA EndMissed ==
    ASSUME \A i \in 0 .. WalkLimit : Node(i) # NULL
    PROVE  StatsCount = WalkLimit + 1
  <1>1. {i \in 0 .. WalkLimit : Node(i) = NULL} = {}
    OBVIOUS
  <1> QED
    BY <1>1 DEF StatsCount

\* One of the two is the case.
LEMMA EndOrNot ==
    \/ \A i \in 0 .. WalkLimit : Node(i) # NULL
    \/ \E c \in Nat : /\ c <= WalkLimit /\ Node(c) = NULL
                      /\ \A i \in Nat : i < c => Node(i) # NULL
  <1> DEFINE ends == {i \in 0 .. WalkLimit : Node(i) = NULL}
  <1>1. WalkLimit \in Nat
    BY FreeListAssumption
  <1>2. ASSUME ends # {}
        PROVE  \E c \in Nat : /\ c <= WalkLimit /\ Node(c) = NULL
                              /\ \A i \in Nat : i < c => Node(i) # NULL
    <2>1. Min(ends) \in ends /\ \A j \in ends : Min(ends) <= j
      <3>1. ends \in SUBSET Nat
        BY <1>1
      <3> HIDE DEF ends
      <3> QED
        BY <1>2, <3>1, MinExists
    <2>2. PICK c \in ends : \A j \in ends : c <= j
      BY <2>1
    <2>3. c \in Nat /\ c <= WalkLimit /\ Node(c) = NULL
      BY <1>1
    <2>4. ASSUME NEW i \in Nat, i < c PROVE Node(i) # NULL
      <3>1. i \in 0 .. WalkLimit /\ i \notin ends
        BY <1>1, <2>2, <2>3, <2>4
      <3> QED
        BY <3>1
    <2> QED
      BY <2>3, <2>4
  <1> QED
    BY <1>2

\* The walk along a list of known order visits its pages in that order.
LEMMA ListWalk ==
    ASSUME TypeOK, NEW n \in 0 .. MaxFrames, NEW q \in [1 .. n -> Frames], IsList(q, n)
    PROVE  /\ Node(n) = NULL /\ \A i \in Nat : i < n => Node(i) = q[i + 1]
           /\ ListFrames = {q[i] : i \in 1 .. n}
  <1> DEFINE S == {i \in 0 .. n : Node(i) # IF i = n THEN NULL ELSE q[i + 1]}
  <1>1. n \in Nat /\ MaxFrames \in Nat /\ n <= MaxFrames
    BY FreeListAssumption
  <1>2. S = {}
    <2> SUFFICES ASSUME S # {} PROVE FALSE
      OBVIOUS
    <2>1. Min(S) \in S /\ \A i \in S : Min(S) <= i
      <3>1. S \in SUBSET Nat
        BY <1>1
      <3> HIDE DEF S
      <3> QED
        BY <3>1, MinExists
    <2>2. PICK m \in S : \A i \in S : m <= i
      BY <2>1
    <2>3. m \in 0 .. n /\ m \in Nat
      BY <1>1
    <2>4. m # 0
      <3>1. Node(0) = IF n = 0 THEN NULL ELSE q[1]
        BY NodeFacts DEF IsList
      <3>2. m = 0 => Node(0) # IF 0 = n THEN NULL ELSE q[0 + 1]
        BY <2>2
      <3>3. 0 + 1 = 1
        OBVIOUS
      <3> QED
        BY <3>1, <3>2, <3>3
    <2>5. m - 1 \in 0 .. n /\ m - 1 \notin S /\ m - 1 \in Nat /\ (m - 1) + 1 = m /\ m \in 1 .. n
      BY <1>1, <2>2, <2>3, <2>4
    <2>6. Node(m - 1) = q[m]
      BY <1>1, <2>5
    <2>7. q[m] \in Frames
      BY <2>5
    <2>8. Node(m) = next[q[m]]
      BY <2>5, <2>6, <2>7, NodeFacts DEF After
    <2>9. Node(m) = IF m = n THEN NULL ELSE q[m + 1]
      BY <2>5, <2>8 DEF IsList
    <2> QED
      BY <2>9
  <1>3. Node(n) = NULL /\ \A i \in Nat : i < n => Node(i) = q[i + 1]
    BY <1>1, <1>2
  <1>4. ASSUME NEW i \in 0 .. MaxFrames, Node(i) \in Frames
        PROVE  i + 1 \in 1 .. n /\ Node(i) = q[i + 1]
    <2>1. ~(n <= i)
      BY <1>1, <1>3, <1>4, NodeStays, NullNoFrame
    <2> QED
      BY <1>1, <1>3, <2>1
  <1>5. ASSUME NEW i \in 1 .. n PROVE i - 1 \in 0 .. MaxFrames /\ Node(i - 1) = q[i] /\ q[i] \in Frames
    <2>1. i - 1 \in Nat /\ i - 1 < n /\ (i - 1) + 1 = i /\ i - 1 \in 0 .. MaxFrames
      BY <1>1
    <2>2. q[i] \in Frames
      OBVIOUS
    <2> QED
      BY <1>3, <2>1, <2>2
  <1>6. ASSUME NEW x
        PROVE  x \in ListFrames <=> x \in {q[i] : i \in 1 .. n}
    <2>1. ASSUME x \in ListFrames PROVE x \in {q[i] : i \in 1 .. n}
      <3>1. PICK i \in 0 .. MaxFrames : x = Node(i) /\ Node(i) \in Frames
        BY <2>1 DEF ListFrames
      <3> QED
        BY <1>4, <3>1
    <2>2. ASSUME x \in {q[i] : i \in 1 .. n} PROVE x \in ListFrames
      <3>1. PICK i \in 1 .. n : x = q[i]
        BY <2>2
      <3> QED
        BY <1>5, <3>1 DEF ListFrames
    <2> QED
      BY <2>1, <2>2
  <1> QED
    BY <1>3, <1>6

\* Until a page is freed twice, every link leads to a page or ends the list, and
\* get_memory_stats counts the free pages as far as it counts.
LEMMA WalkStaysOn ==
    ASSUME TypeOK, Listed, ~misused
    PROVE  /\ \A i \in Nat : ~Wild(Node(i))
           /\ LET free == Cardinality(Drawn \ inuse)
              IN  StatsCount = IF free <= WalkLimit THEN free ELSE WalkLimit + 1
  <1>1. PICK n \in 0 .. MaxFrames : \E q \in [1 .. n -> Frames] :
            IsList(q, n) /\ Drawn \ inuse = {q[i] : i \in 1 .. n}
    BY DEF Listed
  <1>2. PICK q \in [1 .. n -> Frames] : IsList(q, n) /\ Drawn \ inuse = {q[i] : i \in 1 .. n}
    BY <1>1
  <1>3. n \in Nat /\ WalkLimit \in Nat
    BY FreeListAssumption
  <1>4. /\ Node(n) = NULL /\ \A i \in Nat : i < n => Node(i) = q[i + 1]
        /\ ListFrames = Drawn \ inuse
    BY <1>2, ListWalk
  <1>5. ASSUME NEW i \in Nat, i < n PROVE Node(i) \in Frames
    <2>1. i + 1 \in 1 .. n
      BY <1>3, <1>5
    <2> QED
      BY <1>4, <1>5, <2>1
  <1>6. \A i \in Nat : i < n => Node(i) # NULL
    BY <1>5, NullNoFrame
  <1>7. Cardinality(Drawn \ inuse) = n
    BY <1>3, <1>4, <1>6, WalkCounts
  <1>8. ASSUME NEW i \in Nat PROVE ~Wild(Node(i))
    <2>1. CASE i < n
      BY <1>5, <2>1 DEF Wild
    <2>2. CASE ~(i < n)
      <3>1. Node(i) = NULL
        BY <1>3, <1>4, <2>2, NodeStays, NullNoFrame
      <3> QED
        BY <3>1 DEF Wild
    <2> QED
      BY <2>1, <2>2
  <1>9. CASE n <= WalkLimit
    <2>1. StatsCount = n
      BY <1>3, <1>4, <1>6, <1>9, EndFound
    <2> QED
      BY <1>7, <1>8, <1>9, <2>1
  <1>10. CASE ~(n <= WalkLimit)
    <2>1. \A i \in 0 .. WalkLimit : Node(i) # NULL
      BY <1>3, <1>6, <1>10
    <2>2. StatsCount = WalkLimit + 1
      BY <2>1, EndMissed
    <2> QED
      BY <1>7, <1>8, <1>10, <2>2
  <1> QED
    BY <1>9, <1>10

\* A walk that stays on pages, whatever was freed twice, counts those of the
\* list or gives up on pages.
LEMMA WalkCountsList ==
    ASSUME TypeOK, ~Strays
    PROVE  \/ StatsCount <= WalkLimit /\ StatsCount = Cardinality(ListFrames)
           \/ StatsCount > WalkLimit /\ \A i \in 0 .. WalkLimit : Node(i) \in Frames
  <1>1. CASE \A i \in 0 .. WalkLimit : Node(i) # NULL
    <2>1. StatsCount = WalkLimit + 1 /\ WalkLimit \in Nat
      BY <1>1, EndMissed, FreeListAssumption
    <2>2. \A i \in 0 .. WalkLimit : Node(i) \in Frames
      BY <1>1 DEF Strays, Wild
    <2> QED
      BY <2>1, <2>2
  <1>2. ASSUME NEW c \in Nat, c <= WalkLimit, Node(c) = NULL,
               \A i \in Nat : i < c => Node(i) # NULL
        PROVE  StatsCount <= WalkLimit /\ StatsCount = Cardinality(ListFrames)
    <2>1. StatsCount = c
      BY <1>2, EndFound
    <2>2. Cardinality(ListFrames) = c
      BY <1>2, WalkCounts
    <2> QED
      BY <1>2, <2>1, <2>2
  <1> QED
    BY <1>1, <1>2, EndOrNot

-----------------------------------------------------------------------------
(***************************************************************************)
(* The operations.                                                         *)
(***************************************************************************)
\* The counters count up, modulo their width.
LEMMA Counts ==
    ASSUME NEW a \in 0 .. Word - 1, NEW b \in 0 .. Word - 1, NEW c \in Nat,
           (a - b) % Word = c % Word
    PROVE  /\ Counted(a) \in 0 .. Word - 1
           /\ (Counted(a) - b) % Word = (c + 1) % Word
           /\ c > 0 => (a - Counted(b)) % Word = (c - 1) % Word
  <1>1. Word \in Nat \ {0}
    BY FreeListAssumption
  <1>2. ASSUME NEW n \in 0 .. Word - 1
        PROVE  Counted(n) \in 0 .. Word - 1 /\ Counted(n) = IF n + 1 = Word THEN 0 ELSE n + 1
    <2>1. CASE n + 1 = Word
      <3>1. n + 1 \in Word .. 2 * Word - 1
        BY <1>1, <2>1
      <3>2. (n + 1) % Word = (n + 1) - Word
        BY <1>1, <3>1, ModOnce
      <3> QED
        BY <1>1, <2>1, <3>2 DEF Counted
    <2>2. CASE n + 1 # Word
      <3>1. n + 1 \in 0 .. Word - 1
        BY <1>1, <2>2
      <3>2. (n + 1) % Word = n + 1
        BY <1>1, <3>1, ModSmall
      <3> QED
        BY <2>2, <3>1, <3>2 DEF Counted
    <2> QED
      BY <2>1, <2>2
  <1>3. ASSUME NEW x \in -(Word - 1) .. Word - 1
        PROVE  x % Word = IF x < 0 THEN x + Word ELSE x
    <2>1. CASE x < 0
      <3>1. -Word <= x
        BY <1>1
      <3> QED
        BY <1>1, <2>1, <3>1, ModNegative
    <2>2. CASE ~(x < 0)
      <3>1. x \in 0 .. Word - 1
        BY <1>1, <2>2
      <3> QED
        BY <1>1, <2>2, <3>1, ModSmall
    <2> QED
      BY <2>1, <2>2
  <1>4. (a - b) % Word = IF a - b < 0 THEN (a - b) + Word ELSE a - b
    BY <1>1, <1>3
  <1>5. (Counted(a) - b) % Word = (c + 1) % Word
    <2>1. (c + 1) % Word = IF c % Word = Word - 1 THEN 0 ELSE (c % Word) + 1
      <3>1. c \in Int
        OBVIOUS
      <3> QED
        BY <1>1, <3>1, ModNext, Zenon
    <2>2. Counted(a) - b \in -(Word - 1) .. Word - 1
      BY <1>1, <1>2
    <2>3. (Counted(a) - b) % Word
              = IF Counted(a) - b < 0 THEN (Counted(a) - b) + Word ELSE Counted(a) - b
      BY <1>3, <2>2
    <2>4. Counted(a) = IF a + 1 = Word THEN 0 ELSE a + 1
      BY <1>2
    <2> QED
      BY <1>1, <1>4, <2>1, <2>3, <2>4
  <1>6. ASSUME c > 0
        PROVE  (a - Counted(b)) % Word = (c - 1) % Word
    <2>1. c - 1 \in Int /\ (c - 1) + 1 = c
      OBVIOUS
    <2>2. c % Word = IF (c - 1) % Word = Word - 1 THEN 0 ELSE ((c - 1) % Word) + 1
      BY <1>1, <2>1, ModNext
    <2>3. (c - 1) % Word \in 0 .. Word - 1
      BY <1>1, <2>1, DivModInt
    <2>4. a - Counted(b) \in -(Word - 1) .. Word - 1
      BY <1>1, <1>2
    <2>5. (a - Counted(b)) % Word
              = IF a - Counted(b) < 0 THEN (a - Counted(b)) + Word ELSE a - Counted(b)
      BY <1>3, <2>4
    <2>6. Counted(b) = IF b + 1 = Word THEN 0 ELSE b + 1
      BY <1>2
    <2> QED
      BY <1>1, <1>4, <2>2, <2>3, <2>5, <2>6
  <1> QED
    BY <1>2, <1>5, <1>6

\* The pages in use are finitely many.
LEMMA InUseFinite ==
    ASSUME TypeOK
    PROVE  IsFiniteSet(inuse) /\ Cardinality(inuse) \in Nat
  <1>1. IsFiniteSet(Frames)
    <2>1. 1 \in Int /\ MaxFrames \in Int
      BY FreeListAssumption
    <2> QED
      BY <2>1, FS_Interval, Zenon DEF Frames
  <1>2. IsFiniteSet(inuse)
    BY <1>1, FS_Subset DEF TypeOK
  <1> QED
    BY <1>2, FS_CardinalityType

\* A cleared link and the address of a page are words.
LEMMA ZeroWord == 0 \in Words
  BY FreeListAssumption DEF Words
LEMMA FrameWord == \A f \in Frames : f \in Words
  BY FreeListAssumption DEF Words, Frames

\* The invariant holds when init_free_list has run.
LEMMA InitInv ==
    ASSUME init_free_list
    PROVE  IInv
  <1>1. /\ MaxFrames \in Nat /\ InitialPool \in 0 .. MaxFrames /\ Word \in Nat \ {0}
        /\ InitialPool \in Nat
    BY FreeListAssumption
  <1>2. /\ free_list_head = InitialPool /\ next_free_page = InitialPool + 1
        /\ total_pages_allocated = 0 /\ total_pages_freed = 0 /\ inuse = {}
        /\ misused = FALSE /\ astray = FALSE
        /\ next \in [Frames -> Words] /\ \A f \in Frames : f <= InitialPool => next[f] = f - 1
    BY DEF init_free_list, InitialLinks
  <1>3. TypeOK
    <2>1. InitialPool \in Words
      BY <1>1 DEF Words
    <2>2. InitialPool + 1 \in 1 .. MaxFrames + 1 /\ 0 \in 0 .. Word - 1
      BY <1>1
    <2> QED
      BY <1>1, <1>2, <2>1, <2>2 DEF TypeOK
  <1>4. Listed
    <2> DEFINE q == [i \in 1 .. InitialPool |-> InitialPool + 1 - i]
    <2>1. q \in [1 .. InitialPool -> Frames]
      BY <1>1 DEF Frames
    <2>2. \A i, j \in 1 .. InitialPool : q[i] = q[j] => i = j
      BY <1>1
    <2>3. free_list_head = IF InitialPool = 0 THEN NULL ELSE q[1]
      BY <1>1, <1>2 DEF NULL
    <2>4. ASSUME NEW i \in 1 .. InitialPool
          PROVE  next[q[i]] = IF i = InitialPool THEN NULL ELSE q[i + 1]
      <3>1. q[i] = InitialPool + 1 - i /\ q[i] \in Frames /\ q[i] <= InitialPool
        BY <1>1, <2>1
      <3>2. next[q[i]] = InitialPool - i
        BY <1>1, <1>2, <3>1
      <3> QED
        BY <1>1, <3>2 DEF NULL
    <2>5. Drawn \ inuse = {q[i] : i \in 1 .. InitialPool}
      <3>1. Drawn = 1 .. InitialPool
        BY <1>1, <1>2 DEF Drawn
      <3>2. ASSUME NEW x \in 1 .. InitialPool
            PROVE  InitialPool + 1 - x \in 1 .. InitialPool /\ x = q[InitialPool + 1 - x]
        BY <1>1
      <3>3. ASSUME NEW i \in 1 .. InitialPool PROVE q[i] \in 1 .. InitialPool
        BY <1>1
      <3> HIDE DEF q
      <3> QED
        BY <1>2, <3>1, <3>2, <3>3
    <2> HIDE DEF q
    <2>6. IsList(q, InitialPool)
      BY <2>2, <2>3, <2>4 DEF IsList
    <2> QED
      BY <1>1, <1>2, <2>1, <2>5, <2>6 DEF Listed
  <1>5. Counting
    <2>1. Cardinality(inuse) = 0
      BY <1>2, FS_EmptySet
    <2> QED
      BY <1>2, <2>1 DEF Counting
  <1> QED
    BY <1>2, <1>3, <1>4, <1>5 DEF IInv, OnPages

\* A page from the pool joins the pages in use.
LEMMA PoolInv ==
    ASSUME IInv, AllocateFromPool
    PROVE  IInv'
  <1>1. TypeOK /\ Listed /\ Counting /\ OnPages
    BY DEF IInv
  <1>2. /\ free_list_head = NULL /\ next_free_page <= MaxFrames
        /\ next_free_page' = next_free_page + 1
        /\ next' = [next EXCEPT ![next_free_page] = 0]
        /\ total_pages_allocated' = Counted(total_pages_allocated)
        /\ inuse' = inuse \cup {next_free_page}
        /\ UNCHANGED <<free_list_head, total_pages_freed, misused, astray>>
    BY DEF AllocateFromPool
  <1>3. /\ next_free_page \in Frames /\ next_free_page \notin Drawn
        /\ Drawn' = Drawn \cup {next_free_page}
    BY <1>1, <1>2, FreeListAssumption DEF TypeOK, Frames, Drawn
  <1>4. Counted(total_pages_allocated) \in 0 .. Word - 1
    BY <1>1, FreeListAssumption DEF TypeOK, Counted
  <1>5. TypeOK'
    <2>1. next_free_page' \in 1 .. MaxFrames + 1 /\ inuse' \subseteq Frames
      BY <1>1, <1>2, <1>3, FreeListAssumption DEF TypeOK, Frames
    <2>2. next' \in [Frames -> Words]
      BY <1>1, <1>2, ZeroWord DEF TypeOK
    <2> QED
      BY <1>1, <1>2, <1>4, <2>1, <2>2 DEF TypeOK
  <1>6. Listed'
    <2> SUFFICES ASSUME ~misused
                 PROVE  /\ inuse' \subseteq Drawn'
                        /\ \E n \in 0 .. MaxFrames : \E q \in [1 .. n -> Frames] :
                              IsList(q, n)' /\ Drawn' \ inuse' = {q[i] : i \in 1 .. n}
      BY <1>2 DEF Listed
    <2>1. PICK n \in 0 .. MaxFrames : \E q \in [1 .. n -> Frames] :
              IsList(q, n) /\ Drawn \ inuse = {q[i] : i \in 1 .. n}
      BY <1>1 DEF Listed
    <2>2. PICK q \in [1 .. n -> Frames] :
              IsList(q, n) /\ Drawn \ inuse = {q[i] : i \in 1 .. n}
      BY <2>1
    <2>3. n \in Nat
      BY FreeListAssumption
    <2>4. n = 0
      <3>1. ASSUME n # 0 PROVE FALSE
        <4>1. free_list_head = q[1] /\ 1 \in 1 .. n
          BY <2>2, <2>3, <3>1 DEF IsList
        <4>2. q[1] # NULL
          BY <4>1 DEF Frames, NULL
        <4> QED
          BY <1>2, <4>1, <4>2
      <3> QED
        BY <3>1
    <2>5. IsList(q, n)'
      BY <1>2, <2>4 DEF IsList
    <2>6. Drawn' \ inuse' = {q[i] : i \in 1 .. n} /\ inuse' \subseteq Drawn'
      <3>1. inuse \subseteq Drawn
        BY <1>1 DEF Listed
      <3> QED
        BY <1>2, <1>3, <2>2, <3>1
    <2> QED
      BY <2>5, <2>6
  <1>7. Counting'
    <2> SUFFICES ASSUME ~misused
                 PROVE  (Counted(total_pages_allocated) - total_pages_freed) % Word
                            = Cardinality(inuse') % Word
      BY <1>2 DEF Counting
    <2>1. IsFiniteSet(inuse) /\ Cardinality(inuse) \in Nat
      BY <1>1, InUseFinite
    <2>2. next_free_page \notin inuse
      BY <1>1, <1>3 DEF Listed
    <2>3. Cardinality(inuse') = Cardinality(inuse) + 1
      BY <1>2, <2>1, <2>2, FS_AddElement
    <2>4. total_pages_allocated \in 0 .. Word - 1 /\ total_pages_freed \in 0 .. Word - 1
          /\ (total_pages_allocated - total_pages_freed) % Word = Cardinality(inuse) % Word
      BY <1>1 DEF TypeOK, Counting
    <2> QED
      BY <2>1, <2>3, <2>4, Counts
  <1> QED
    BY <1>1, <1>2, <1>5, <1>6, <1>7 DEF IInv, OnPages

\* The head of the list joins the pages in use, and the list begins with the
\* page after it.
LEMMA ListInv ==
    ASSUME IInv, AllocateFromList
    PROVE  IInv'
  <1>1. TypeOK /\ Listed /\ Counting /\ OnPages
    BY DEF IInv
  <1> DEFINE h == free_list_head
  <1>2. /\ h \in Frames /\ free_list_head' = next[h]
        /\ next' = [next EXCEPT ![h] = 0]
        /\ total_pages_allocated' = Counted(total_pages_allocated)
        /\ inuse' = inuse \cup {h}
        /\ UNCHANGED <<next_free_page, total_pages_freed, misused, astray>>
    BY DEF AllocateFromList, AfterHead
  <1>3. h # NULL /\ next \in [Frames -> Words] /\ MaxFrames \in Nat
    BY <1>1, <1>2, FreeListAssumption, NullNoFrame DEF TypeOK
  <1>4. Counted(total_pages_allocated) \in 0 .. Word - 1
    BY <1>1, FreeListAssumption DEF TypeOK, Counted
  <1>5. TypeOK'
    <2>1. next' \in [Frames -> Words] /\ free_list_head' \in Words /\ inuse' \subseteq Frames
      BY <1>1, <1>2, <1>3, ZeroWord DEF TypeOK
    <2> QED
      BY <1>1, <1>2, <1>4, <2>1 DEF TypeOK
  <1>6. ASSUME ~misused
        PROVE  /\ h \in Drawn /\ h \notin inuse
               /\ inuse' \subseteq Drawn'
               /\ \E n \in 0 .. MaxFrames : \E q \in [1 .. n -> Frames] :
                     IsList(q, n)' /\ Drawn' \ inuse' = {q[i] : i \in 1 .. n}
    <2>1. PICK n \in 0 .. MaxFrames : \E q \in [1 .. n -> Frames] :
              IsList(q, n) /\ Drawn \ inuse = {q[i] : i \in 1 .. n}
      BY <1>1, <1>6 DEF Listed
    <2>2. PICK q \in [1 .. n -> Frames] :
              IsList(q, n) /\ Drawn \ inuse = {q[i] : i \in 1 .. n}
      BY <2>1
    <2>3. n \in Nat /\ n <= MaxFrames /\ inuse \subseteq Drawn
      BY <1>1, <1>3, <1>6 DEF Listed
    <2>4. /\ \A i, j \in 1 .. n : q[i] = q[j] => i = j
          /\ h = IF n = 0 THEN NULL ELSE q[1]
          /\ \A i \in 1 .. n : next[q[i]] = IF i = n THEN NULL ELSE q[i + 1]
      BY <2>2 DEF IsList
    <2>5. n # 0 /\ 1 \in 1 .. n /\ h = q[1]
      BY <1>3, <2>3, <2>4
    <2>6. h \in Drawn /\ h \notin inuse
      BY <2>2, <2>5
    <2> DEFINE m == n - 1
               p == [i \in 1 .. m |-> q[i + 1]]
    <2>7. m \in 0 .. MaxFrames /\ m \in Nat /\ n = m + 1
      BY <1>3, <2>3, <2>5
    <2> HIDE DEF m
    <2>8. \A i \in 1 .. m : i + 1 \in 1 .. n /\ p[i] = q[i + 1] /\ p[i] # h
      BY <2>4, <2>5, <2>7
    <2>9. p \in [1 .. m -> Frames]
      BY <2>8
    <2> HIDE DEF p
    <2>10. \A i, j \in 1 .. m : p[i] = p[j] => i = j
      <3> SUFFICES ASSUME NEW i \in 1 .. m, NEW j \in 1 .. m, p[i] = p[j] PROVE i = j
        OBVIOUS
      <3>1. i + 1 = j + 1
        BY <2>4, <2>8
      <3> QED
        BY <2>7, <3>1
    <2>11. free_list_head' = IF m = 0 THEN NULL ELSE p[1]
      <3>1. next[h] = IF 1 = n THEN NULL ELSE q[1 + 1]
        BY <2>4, <2>5
      <3>2. CASE m = 0
        BY <1>2, <2>7, <3>1, <3>2
      <3>3. CASE m # 0
        <4>1. 1 \in 1 .. m /\ n # 1
          BY <2>7, <3>3
        <4> QED
          BY <1>2, <2>8, <3>1, <3>3, <4>1
      <3> QED
        BY <3>2, <3>3
    <2>12. ASSUME NEW i \in 1 .. m
           PROVE  next'[p[i]] = IF i = m THEN NULL ELSE p[i + 1]
      <3>1. next'[p[i]] = next[q[i + 1]]
        BY <1>2, <1>3, <2>8, <2>9
      <3>2. next[q[i + 1]] = IF i + 1 = n THEN NULL ELSE q[(i + 1) + 1]
        BY <2>4, <2>8
      <3>3. i + 1 = n <=> i = m
        BY <2>7
      <3>4. i # m => i + 1 \in 1 .. m
        BY <2>7
      <3> QED
        BY <2>8, <3>1, <3>2, <3>3, <3>4
    <2>13. IsList(p, m)'
      BY <2>10, <2>11, <2>12 DEF IsList
    <2>14. Drawn' = Drawn
      BY <1>2 DEF Drawn
    <2>15. Drawn \ inuse' = {p[i] : i \in 1 .. m}
      <3>1. ASSUME NEW i \in 1 .. n, q[i] # h PROVE i - 1 \in 1 .. m /\ p[i - 1] = q[i]
        <4>1. i # 1
          BY <2>5, <3>1
        <4>2. i - 1 \in 1 .. m /\ (i - 1) + 1 = i
          BY <2>7, <4>1
        <4> QED
          BY <2>8, <4>2
      <3>2. \A x : x \in Drawn \ inuse' <=> x \in {q[i] : i \in 1 .. n} /\ x # h
        BY <1>2, <2>2
      <3>3. \A x : x \in {p[i] : i \in 1 .. m} <=> x \in {q[i] : i \in 1 .. n} /\ x # h
        BY <2>8, <3>1
      <3> QED
        BY <3>2, <3>3
    <2> QED
      BY <1>2, <2>3, <2>6, <2>7, <2>9, <2>13, <2>14, <2>15
  <1>7. Listed'
    BY <1>2, <1>6 DEF Listed
  <1>8. Counting'
    <2> SUFFICES ASSUME ~misused
                 PROVE  (Counted(total_pages_allocated) - total_pages_freed) % Word
                            = Cardinality(inuse') % Word
      BY <1>2 DEF Counting
    <2>1. IsFiniteSet(inuse) /\ Cardinality(inuse) \in Nat
      BY <1>1, InUseFinite
    <2>2. Cardinality(inuse') = Cardinality(inuse) + 1
      BY <1>2, <1>6, <2>1, FS_AddElement
    <2>3. total_pages_allocated \in 0 .. Word - 1 /\ total_pages_freed \in 0 .. Word - 1
          /\ (total_pages_allocated - total_pages_freed) % Word = Cardinality(inuse) % Word
      BY <1>1 DEF TypeOK, Counting
    <2> QED
      BY <2>1, <2>2, <2>3, Counts
  <1> QED
    BY <1>1, <1>2, <1>5, <1>7, <1>8 DEF IInv, OnPages

\* A page that its holder frees becomes the head of the list.
LEMMA FreeInv ==
    ASSUME IInv, NEW f \in Drawn, add_to_free_list(f)
    PROVE  IInv'
  <1>1. TypeOK /\ Listed /\ Counting /\ OnPages
    BY DEF IInv
  <1>2. /\ next' = [next EXCEPT ![f] = free_list_head]
        /\ free_list_head' = f
        /\ total_pages_freed' = Counted(total_pages_freed)
        /\ inuse' = inuse \ {f}
        /\ misused' = (misused \/ f \notin inuse)
        /\ UNCHANGED <<next_free_page, total_pages_allocated, astray>>
    BY DEF add_to_free_list
  <1>3. f \in Frames /\ next \in [Frames -> Words] /\ MaxFrames \in Nat
    BY <1>1, FreeListAssumption DEF TypeOK, Frames, Drawn
  <1>4. Counted(total_pages_freed) \in 0 .. Word - 1
    BY <1>1, FreeListAssumption DEF TypeOK, Counted
  <1>5. TypeOK'
    <2>1. next' \in [Frames -> Words] /\ free_list_head' \in Words
          /\ inuse' \subseteq Frames /\ misused' \in BOOLEAN
      BY <1>1, <1>2, <1>3, FrameWord DEF TypeOK
    <2> QED
      BY <1>1, <1>2, <1>4, <2>1 DEF TypeOK
  <1>6. ASSUME ~misused'
        PROVE  /\ inuse' \subseteq Drawn'
               /\ \E n \in 0 .. MaxFrames : \E q \in [1 .. n -> Frames] :
                     IsList(q, n)' /\ Drawn' \ inuse' = {q[i] : i \in 1 .. n}
    <2>1. ~misused /\ f \in inuse
      BY <1>2, <1>6
    <2>2. PICK n \in 0 .. MaxFrames : \E q \in [1 .. n -> Frames] :
              IsList(q, n) /\ Drawn \ inuse = {q[i] : i \in 1 .. n}
      BY <1>1, <2>1 DEF Listed
    <2>3. PICK q \in [1 .. n -> Frames] :
              IsList(q, n) /\ Drawn \ inuse = {q[i] : i \in 1 .. n}
      BY <2>2
    <2>4. n \in Nat /\ inuse \subseteq Drawn
      BY <1>1, <1>3, <2>1 DEF Listed
    <2>5. /\ \A i, j \in 1 .. n : q[i] = q[j] => i = j
          /\ free_list_head = IF n = 0 THEN NULL ELSE q[1]
          /\ \A i \in 1 .. n : next[q[i]] = IF i = n THEN NULL ELSE q[i + 1]
          /\ \A i \in 1 .. n : q[i] # f
      BY <2>1, <2>3 DEF IsList
    <2> DEFINE m == n + 1
               p == [i \in 1 .. m |-> IF i = 1 THEN f ELSE q[i - 1]]
    <2>6. m \in Nat /\ n = m - 1
      BY <2>4
    <2> HIDE DEF m
    <2>7. 1 \in 1 .. m /\ p[1] = f
      BY <2>4, <2>6
    <2>8. \A i \in 1 .. m : i # 1 => i - 1 \in 1 .. n /\ p[i] = q[i - 1]
      BY <2>6
    <2>9. p \in [1 .. m -> Frames]
      BY <1>3, <2>8
    <2> HIDE DEF p
    <2>10. \A i, j \in 1 .. m : p[i] = p[j] => i = j
      <3> SUFFICES ASSUME NEW i \in 1 .. m, NEW j \in 1 .. m, p[i] = p[j] PROVE i = j
        OBVIOUS
      <3>1. i = 1 <=> j = 1
        BY <2>5, <2>7, <2>8
      <3>2. i # 1 => i - 1 = j - 1
        BY <2>5, <2>8, <3>1
      <3> QED
        BY <2>6, <3>1, <3>2
    <2>11. ASSUME NEW i \in 1 .. m
           PROVE  next'[p[i]] = IF i = m THEN NULL ELSE p[i + 1]
      <3>1. CASE i = 1
        <4>1. next'[p[i]] = free_list_head
          BY <1>2, <1>3, <2>7, <3>1
        <4>2. CASE n = 0
          BY <2>5, <2>6, <3>1, <4>1, <4>2
        <4>3. CASE n # 0
          <5>1. i # m /\ i + 1 \in 1 .. m /\ i + 1 # 1 /\ (i + 1) - 1 = 1
            BY <2>4, <2>6, <3>1, <4>3
          <5>2. p[i + 1] = q[1]
            BY <2>8, <5>1
          <5> QED
            BY <2>5, <4>1, <4>3, <5>1, <5>2
        <4> QED
          BY <4>2, <4>3
      <3>2. CASE i # 1
        <4>1. i - 1 \in 1 .. n /\ p[i] = q[i - 1] /\ q[i - 1] # f /\ q[i - 1] \in Frames
          BY <2>5, <2>8, <3>2
        <4>2. next'[p[i]] = next[q[i - 1]]
          BY <1>2, <1>3, <4>1
        <4>3. next[q[i - 1]] = IF i - 1 = n THEN NULL ELSE q[(i - 1) + 1]
          BY <2>5, <4>1
        <4>4. (i - 1 = n <=> i = m) /\ (i - 1) + 1 = (i + 1) - 1
          BY <2>6
        <4>5. i # m => i + 1 \in 1 .. m /\ i + 1 # 1
          BY <2>6
        <4> QED
          BY <2>8, <4>2, <4>3, <4>4, <4>5
      <3> QED
        BY <3>1, <3>2
    <2>12. free_list_head' = IF m = 0 THEN NULL ELSE p[1]
      BY <1>2, <2>4, <2>6, <2>7
    <2>13. IsList(p, m)'
      BY <2>10, <2>11, <2>12 DEF IsList
    <2>14. Drawn' = Drawn
      BY <1>2 DEF Drawn
    <2>15. Drawn \ inuse' = {p[i] : i \in 1 .. m}
      <3>1. ASSUME NEW i \in 1 .. n PROVE i + 1 \in 1 .. m /\ p[i + 1] = q[i]
        <4>1. i + 1 \in 1 .. m /\ i + 1 # 1 /\ (i + 1) - 1 = i
          BY <2>6
        <4> QED
          BY <2>8, <4>1
      <3>2. \A x : x \in Drawn \ inuse' <=> x \in {q[i] : i \in 1 .. n} \/ x = f
        BY <1>2, <2>1, <2>3
      <3>3. \A x : x \in {p[i] : i \in 1 .. m} <=> x \in {q[i] : i \in 1 .. n} \/ x = f
        BY <2>7, <2>8, <3>1
      <3> QED
        BY <3>2, <3>3
    <2>16. m \in 0 .. MaxFrames
      <3>1. p \in Injection(1 .. m, Frames)
        BY <2>9, <2>10, Fun_IsInj
      <3>2. IsFiniteSet(Frames) /\ Cardinality(Frames) = MaxFrames
        <4>1. 1 \in Int /\ MaxFrames \in Int
          BY <1>3
        <4>2. IsFiniteSet(Frames)
              /\ Cardinality(Frames) = IF 1 > MaxFrames THEN 0 ELSE MaxFrames - 1 + 1
          BY <4>1, FS_Interval, Zenon DEF Frames
        <4> QED
          BY <1>3, <4>2
      <3>3. Cardinality(1 .. m) = m
        <4>1. 1 \in Int /\ m \in Int
          BY <2>6
        <4>2. Cardinality(1 .. m) = IF 1 > m THEN 0 ELSE m - 1 + 1
          BY <4>1, FS_Interval, Zenon
        <4> QED
          BY <2>6, <4>2
      <3>4. Cardinality(1 .. m) <= Cardinality(Frames)
        BY <3>1, <3>2, FS_Injection
      <3> QED
        BY <1>3, <2>6, <3>2, <3>3, <3>4
    <2> QED
      BY <1>2, <2>4, <2>9, <2>13, <2>14, <2>15, <2>16
  <1>7. Listed'
    BY <1>6 DEF Listed
  <1>8. Counting'
    <2> SUFFICES ASSUME ~misused, f \in inuse
                 PROVE  (total_pages_allocated - Counted(total_pages_freed)) % Word
                            = Cardinality(inuse') % Word
      BY <1>2 DEF Counting
    <2>1. IsFiniteSet(inuse) /\ Cardinality(inuse) \in Nat
      BY <1>1, InUseFinite
    <2>2. Cardinality(inuse') = Cardinality(inuse) - 1 /\ Cardinality(inuse) > 0
      <3>1. Cardinality(inuse') = Cardinality(inuse) - 1
        BY <1>2, <2>1, FS_RemoveElement
      <3>2. Cardinality(inuse) # 0
        BY <2>1, FS_EmptySet
      <3> QED
        BY <2>1, <3>1, <3>2
    <2>3. total_pages_allocated \in 0 .. Word - 1 /\ total_pages_freed \in 0 .. Word - 1
          /\ (total_pages_allocated - total_pages_freed) % Word = Cardinality(inuse) % Word
      BY <1>1 DEF TypeOK, Counting
    <2> QED
      BY <2>1, <2>2, <2>3, Counts
  <1> QED
    BY <1>1, <1>2, <1>5, <1>7, <1>8 DEF IInv, OnPages

\* What a client stores in a page it holds is no link.
LEMMA ClientInv ==
    ASSUME IInv, NEW f \in inuse, NEW w \in ClientWords, ClientWrite(f, w)
    PROVE  IInv'
  <1>1. TypeOK /\ Listed /\ Counting /\ OnPages
    BY DEF IInv
  <1>2. /\ next' = [next EXCEPT ![f] = w]
        /\ UNCHANGED <<free_list_head, next_free_page, total_pages_allocated, total_pages_freed,
                       inuse, misused, astray>>
    BY DEF ClientWrite
  <1>3. f \in Frames /\ next \in [Frames -> Words] /\ w \in Words
    BY <1>1 DEF TypeOK, Words
  <1>4. TypeOK'
    <2>1. next' \in [Frames -> Words]
      BY <1>2, <1>3
    <2> QED
      BY <1>1, <1>2, <2>1 DEF TypeOK
  <1>5. ASSUME NEW n \in 0 .. MaxFrames, NEW q \in [1 .. n -> Frames],
               IsList(q, n), Drawn \ inuse = {q[i] : i \in 1 .. n}
        PROVE  IsList(q, n)'
    <2>1. \A i \in 1 .. n : q[i] # f /\ next'[q[i]] = next[q[i]]
      BY <1>2, <1>3, <1>5
    <2> QED
      BY <1>2, <1>5, <2>1 DEF IsList
  <1>6. Drawn' = Drawn
    BY <1>2 DEF Drawn
  <1>7. Listed'
    BY <1>1, <1>2, <1>5, <1>6 DEF Listed
  <1>8. Counting'
    BY <1>1, <1>2 DEF Counting
  <1> QED
    BY <1>1, <1>2, <1>4, <1>7, <1>8 DEF IInv, OnPages

\* Going astray takes a page freed twice, and changes nothing the invariant
\* is about.
LEMMA AstrayInv ==
    ASSUME IInv, AllocateWild \/ get_memory_stats
    PROVE  IInv'
  <1>1. TypeOK /\ Listed /\ Counting
    BY DEF IInv
  <1>2. /\ UNCHANGED <<free_list_head, next, next_free_page, total_pages_allocated,
                       total_pages_freed, inuse, misused>>
        /\ astray' = TRUE
    BY DEF AllocateWild, get_memory_stats, GoesAstray, listVars
  <1>3. misused
    <2> SUFFICES ASSUME ~misused PROVE FALSE
      OBVIOUS
    <2>1. \A i \in Nat : ~Wild(Node(i))
      BY <1>1, WalkStaysOn
    <2>2. CASE AllocateWild
      <3>1. 0 \in Nat /\ Wild(Node(0))
        BY <2>2, NodeFacts DEF AllocateWild
      <3> QED
        BY <2>1, <3>1
    <2>3. CASE get_memory_stats
      <3>1. \E i \in Nat : Wild(Node(i))
        BY <2>3, FreeListAssumption DEF get_memory_stats, Strays
      <3> QED
        BY <2>1, <3>1
    <2> QED
      BY <2>2, <2>3
  <1>4. TypeOK' /\ Counting' /\ OnPages'
    BY <1>1, <1>2, <1>3 DEF TypeOK, Counting, OnPages
  <1>5. Listed'
    BY <1>2, <1>3 DEF Listed
  <1> QED
    BY <1>4, <1>5 DEF IInv

\* Every step keeps the invariant.
LEMMA NextInv ==
    ASSUME IInv, [Next]_vars
    PROVE  IInv'
  <1>1. CASE allocate_from_free_list \/ get_memory_stats
    BY <1>1, PoolInv, ListInv, AstrayInv DEF allocate_from_free_list
  <1>2. CASE \E f \in Drawn : add_to_free_list(f)
    BY <1>2, FreeInv
  <1>3. CASE \E f \in inuse, w \in ClientWords : ClientWrite(f, w)
    BY <1>3, ClientInv
  <1>4. CASE UNCHANGED vars
    <2>1. UNCHANGED <<free_list_head, next, next_free_page, total_pages_allocated,
                      total_pages_freed, inuse, misused, astray>>
      BY <1>4 DEF vars
    <2>2. TypeOK' /\ Counting' /\ OnPages'
      BY <2>1 DEF IInv, TypeOK, Counting, OnPages
    <2>3. Drawn' = Drawn /\ \A n, q : IsList(q, n)' <=> IsList(q, n)
      BY <2>1 DEF Drawn, IsList
    <2>4. Listed'
      BY <2>1, <2>3 DEF IInv, Listed
    <2> QED
      BY <2>2, <2>4 DEF IInv
  <1> QED
    BY <1>1, <1>2, <1>3, <1>4 DEF Next, RefusedFree

\* The inductive invariant holds throughout.
THEOREM InvHolds == Spec => []IInv
  BY InitInv, NextInv, PTL DEF Spec

-----------------------------------------------------------------------------
(***************************************************************************)
(* The properties.                                                         *)
(***************************************************************************)
\* Counters stay in range and every link is NULL, a page, or a word that a client
\* stored, whatever words clients store and also when pages are freed twice.
THEOREM TypeCorrect == Spec => []TypeOK
  <1>1. IInv => TypeOK
    BY DEF IInv
  <1> QED
    BY <1>1, InvHolds, PTL

\* Until a page is freed twice, the list ends in NULL after every free page
\* drawn from the pool, each once, whatever clients write into their pages.
THEOREM ListExact == Spec => []ListIsFreePages
  <1>1. IInv => ListIsFreePages
    <2> SUFFICES ASSUME IInv, ~misused
                 PROVE  /\ ListFrames = Drawn \ inuse
                        /\ inuse \subseteq Drawn
                        /\ Node(Cardinality(Drawn \ inuse)) = NULL
      BY DEF ListIsFreePages
    <2>1. TypeOK /\ Listed
      BY DEF IInv
    <2>2. inuse \subseteq Drawn
      BY <2>1 DEF Listed
    <2>3. PICK n \in 0 .. MaxFrames : \E q \in [1 .. n -> Frames] :
              IsList(q, n) /\ Drawn \ inuse = {q[i] : i \in 1 .. n}
      BY <2>1 DEF Listed
    <2>4. PICK q \in [1 .. n -> Frames] :
              IsList(q, n) /\ Drawn \ inuse = {q[i] : i \in 1 .. n}
      BY <2>3
    <2>5. /\ Node(n) = NULL /\ \A i \in Nat : i < n => Node(i) = q[i + 1]
          /\ ListFrames = Drawn \ inuse
      BY <2>1, <2>4, ListWalk
    <2>6. n \in Nat /\ \A i \in Nat : i < n => Node(i) # NULL
      <3>1. n \in Nat
        BY FreeListAssumption
      <3>2. ASSUME NEW i \in Nat, i < n PROVE Node(i) # NULL
        <4>1. i + 1 \in 1 .. n
          BY <3>1, <3>2
        <4>2. q[i + 1] # NULL
          BY <4>1 DEF Frames, NULL
        <4> QED
          BY <2>5, <3>2, <4>2
      <3> QED
        BY <3>1, <3>2
    <2>7. Cardinality(ListFrames) = n
      BY <2>1, <2>5, <2>6, WalkCounts
    <2> QED
      BY <2>2, <2>5, <2>7
  <1> QED
    BY <1>1, InvHolds, PTL

\* The difference of the counters is the number of pages in use, however often
\* they have wrapped round.
THEOREM CountersExact == Spec => []InUseExact
  <1>1. IInv => InUseExact
    BY DEF IInv, Counting, InUseExact, PagesInUse
  <1> QED
    BY <1>1, InvHolds, PTL

\* Until a page is freed twice no allocation and no walk of get_memory_stats goes
\* astray, and it counts the free pages as far as it counts; after that a walk
\* that stays on pages counts those of the list or gives up.
THEOREM StatsAreHonest == Spec => []StatsHonest
  <1>1. IInv => StatsHonest
    <2> SUFFICES ASSUME IInv PROVE StatsHonest
      OBVIOUS
    <2>1. TypeOK /\ Listed /\ OnPages
      BY DEF IInv
    <2> DEFINE free == Cardinality(Drawn \ inuse)
    <2>2. ASSUME ~misused
          PROVE  /\ ~astray /\ ~Strays
                 /\ StatsCount = IF free <= WalkLimit THEN free ELSE WalkLimit + 1
      <3>1. ~Strays
        BY <2>1, <2>2, WalkStaysOn, FreeListAssumption DEF Strays
      <3>2. StatsCount = IF free <= WalkLimit THEN free ELSE WalkLimit + 1
        BY <2>1, <2>2, WalkStaysOn
      <3> QED
        BY <2>1, <2>2, <3>1, <3>2 DEF OnPages
    <2>3. ~Strays => \/ StatsCount <= WalkLimit /\ StatsCount = Cardinality(ListFrames)
                     \/ StatsCount > WalkLimit /\ \A i \in 0 .. WalkLimit : Node(i) \in Frames
      BY <2>1, WalkCountsList
    <2> HIDE DEF free
    <2> QED
      BY <2>2, <2>3 DEF StatsHonest, free
  <1> QED
    BY <1>1, InvHolds, PTL

-----------------------------------------------------------------------------
(***************************************************************************)
(* The refinement.                                                         *)
(***************************************************************************)
\* The number of frames not in use.
LEMMA FreeCount ==
    ASSUME TypeOK, Counting, ~misused, MaxFrames < Word
    PROVE  Cardinality(Frames \ inuse) = MaxFrames - PagesInUse
  <1>1. MaxFrames \in Nat /\ Word \in Nat \ {0} /\ inuse \subseteq Frames
    BY FreeListAssumption DEF TypeOK
  <1>2. IsFiniteSet(Frames) /\ Cardinality(Frames) = MaxFrames
    <2>1. 1 \in Int /\ MaxFrames \in Int
      BY <1>1
    <2>2. IsFiniteSet(Frames) /\ Cardinality(Frames) = IF 1 > MaxFrames THEN 0 ELSE MaxFrames - 1 + 1
      BY <2>1, FS_Interval, Zenon DEF Frames
    <2> QED
      BY <1>1, <2>2
  <1>3. /\ IsFiniteSet(inuse) /\ Cardinality(inuse) \in Nat /\ Cardinality(inuse) <= MaxFrames
    BY <1>1, <1>2, InUseFinite, FS_Subset
  <1>4. PagesInUse = Cardinality(inuse)
    <2>1. Cardinality(inuse) \in 0 .. Word - 1
      BY <1>1, <1>3
    <2>2. Cardinality(inuse) % Word = Cardinality(inuse)
      BY <1>1, <2>1, ModSmall
    <2> QED
      BY <2>2 DEF Counting, PagesInUse
  <1>5. Cardinality(Frames \ inuse) = Cardinality(Frames) - Cardinality(Frames \cap inuse)
    BY <1>2, FS_Difference
  <1>6. Frames \cap inuse = inuse
    BY <1>1
  <1> QED
    BY <1>2, <1>4, <1>5, <1>6

\* The abstract allocator counts frames as this module does.
LEMMA FrameCardinality == \A S : Frame!Cardinality(S) = Cardinality(S)
  BY Zenon DEF Frame!Cardinality, Cardinality

\* The number of frames not in use is the one reported, as a state predicate.
LEMMA FreeCountInv ==
    IInv /\ ~misused /\ MaxFrames < Word =>
        Cardinality(Frames \ inuse) = MaxFrames - PagesInUse
  BY FreeCount DEF IInv

\* The pages of the initial pool and those beyond are available at first.
LEMMA RefinesInit ==
    ASSUME init_free_list, MaxFrames < Word
    PROVE  Frame!Init
  <1>1. IInv /\ inuse = {} /\ ~misused
    BY InitInv DEF init_free_list
  <1>2. Cardinality(Frames \ inuse) = MaxFrames - PagesInUse
    BY <1>1, FreeCount DEF IInv
  <1> QED
    BY <1>1, <1>2, FrameCardinality DEF Frame!Init

\* An allocation hands out one available page, a holder's freeing returns one.
LEMMA RefinesStep ==
    ASSUME IInv, IInv', [Next]_vars, MaxFrames < Word
    PROVE  misused' \/ [Frame!Next]_(Frame!frameVars)
  <1> SUFFICES ASSUME ~misused' PROVE [Frame!Next]_(Frame!frameVars)
    OBVIOUS
  <1>1. ~misused
    BY DEF Next, allocate_from_free_list, AllocateFromPool, AllocateFromList, AllocateWild,
           GoesAstray, get_memory_stats, add_to_free_list, RefusedFree, ClientWrite, vars
  <1>2. Cardinality((Frames \ inuse)') = (MaxFrames - PagesInUse)'
    <2>1. (IInv /\ ~misused /\ MaxFrames < Word =>
               Cardinality(Frames \ inuse) = MaxFrames - PagesInUse)'
      BY FreeCountInv, PTL
    <2> QED
      BY <2>1
  <1>3. inuse \subseteq Frames /\ inuse \subseteq Drawn /\ Drawn \subseteq Frames
    <2>1. TypeOK /\ Listed
      BY DEF IInv
    <2> QED
      BY <1>1, <2>1, FreeListAssumption DEF TypeOK, Listed, Drawn, Frames
  <1>4. ASSUME NEW f \in Frames, f \notin inuse, inuse' = inuse \cup {f}
        PROVE  Frame!Next
    <2>1. Frame!Alloc({f})
      <3>1. Frame!IsRun({f})
        <4>1. f \in Int /\ {f} = f .. f
          BY DEF Frames
        <4> QED
          BY <4>1 DEF Frame!IsRun
      <3>2. (Frames \ inuse)' = (Frames \ inuse) \ {f}
        BY <1>4
      <3> QED
        BY <1>2, <1>4, <3>1, <3>2, FrameCardinality DEF Frame!Alloc
    <2> QED
      BY <2>1 DEF Frame!Next
  <1>5. ASSUME NEW f \in inuse, inuse' = inuse \ {f}
        PROVE  Frame!Next
    <2>1. Frame!Free({f})
      <3>1. (Frames \ inuse)' = (Frames \ inuse) \cup {f}
        BY <1>3, <1>5
      <3> QED
        BY <1>2, <1>5, <3>1, FrameCardinality DEF Frame!Free
    <2>2. f \in Frames
      BY <1>3
    <2> QED
      BY <2>1, <2>2 DEF Frame!Next
  <1>6. CASE AllocateFromPool
    <2>1. next_free_page \in Frames /\ next_free_page \notin Drawn
          /\ inuse' = inuse \cup {next_free_page}
      <3>1. TypeOK
        BY DEF IInv
      <3> QED
        BY <1>6, <3>1, FreeListAssumption DEF AllocateFromPool, TypeOK, Frames, Drawn
    <2> QED
      BY <1>3, <1>4, <2>1
  <1>7. CASE AllocateFromList
    <2>1. free_list_head \in Frames /\ inuse' = inuse \cup {free_list_head}
      BY <1>7 DEF AllocateFromList
    <2>2. free_list_head \notin inuse
      <3>1. Listed
        BY DEF IInv
      <3>2. PICK n \in 0 .. MaxFrames : \E q \in [1 .. n -> Frames] :
                IsList(q, n) /\ Drawn \ inuse = {q[i] : i \in 1 .. n}
        BY <1>1, <3>1 DEF Listed
      <3>3. PICK q \in [1 .. n -> Frames] :
                IsList(q, n) /\ Drawn \ inuse = {q[i] : i \in 1 .. n}
        BY <3>2
      <3>4. n \in Nat /\ n # 0 /\ free_list_head = q[1]
        BY <1>7, <3>3, FreeListAssumption, NullNoFrame DEF IsList, AllocateFromList
      <3>5. 1 \in 1 .. n
        BY <3>4
      <3> QED
        BY <3>3, <3>4, <3>5
    <2> QED
      BY <1>4, <2>1, <2>2
  <1>8. ASSUME NEW f \in Drawn, add_to_free_list(f)
        PROVE  Frame!Next
    <2>1. f \in inuse /\ inuse' = inuse \ {f}
      BY <1>8 DEF add_to_free_list
    <2> QED
      BY <1>5, <2>1
  <1>9. ASSUME UNCHANGED <<inuse, total_pages_allocated, total_pages_freed>>
        PROVE  UNCHANGED Frame!frameVars
    BY <1>9 DEF Frame!frameVars, PagesInUse
  <1> QED
    BY <1>6, <1>7, <1>8, <1>9
       DEF Next, allocate_from_free_list, AllocateWild, get_memory_stats, GoesAstray,
           RefusedFree, ClientWrite, vars

\* Until a page is freed twice, the list implements the abstract allocator, on
\* fewer pages than the counters can count.
THEOREM ImplementsFrameAllocator ==
    ASSUME MaxFrames < Word
    PROVE  Spec => FrameSpec
  <1>1. init_free_list => Frame!Init
    BY RefinesInit
  <1>2. IInv /\ IInv' /\ [Next]_vars => [misused' \/ [Frame!Next]_(Frame!frameVars)]_vars
    BY RefinesStep
  <1> QED
    BY <1>1, <1>2, InvHolds, PTL DEF Spec, FrameSpec
=============================================================================
