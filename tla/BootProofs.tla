----------------------------- MODULE BootProofs -----------------------------
(***************************************************************************)
(* Proofs about Boot, for every set of lines and masks and every depth of  *)
(* nested handlers.                                                        *)
(*                                                                         *)
(* The inductive invariant has three parts: how far irq_install has got    *)
(* decides the registers of the controllers and the masks; without an      *)
(* early key what enable_a20_keyboard has reached decides what the buffers *)
(* of the keyboard controller hold; and, once interrupts are on, the lines *)
(* of the handlers that have not sent their EOI are in service, the inner  *)
(* ones of higher priority than the outer ones (HandlersInService).  That  *)
(* makes a non-specific EOI end a line that no other handler serves.       *)
(***************************************************************************)
EXTENDS Boot, ProofLemmas, FiniteSetTheorems, FunctionTheorems, TLAPS

Handlers == [irq : 0 .. 15, line : Lines \cup {NoLine}, step : Steps, flag : BOOLEAN]
Chips == [icw : {0, 2, 3, 4}, base : 0 .. 255, cascade : 0 .. 255, mode : 0 .. 255]
A20Steps == {"test", "AD", "D0", "full", "read", "D1", "empty", "cmd", "AE", "drain",
             "fast", "done"}

Types ==
    /\ irr \subseteq Lines /\ isr \subseteq Lines \cup {Cascade}
    /\ imr \subseteq Master \cup Slave /\ wanted \subseteq Master \cup Slave
    /\ at \in 0 .. 14
    /\ pic \in [1 .. 2 -> Chips]
    /\ stack \in Seq(Handlers) /\ Len(stack) <= MaxDepth
    /\ lost \in Nat
    /\ if_flag \in BOOLEAN /\ stolen \in BOOLEAN
    /\ obuf \in {"none", "scan", "port"}
    /\ ibuf \in {"none"} \cup Commands \cup DataBytes
    /\ cmd \in {"none"} \cup DataBytes
    /\ gate \in BOOLEAN
    /\ step \in A20Steps /\ tried \in 0 .. 2

\* How far irq_install is: the initialisation words each controller has had,
\* the masks, and the gates.
Installing ==
    /\ pic[1].icw = IF at \in 2 .. 3 THEN 2 ELSE IF at \in 4 .. 5 THEN 3
                    ELSE IF at \in 6 .. 7 THEN 4 ELSE 0
    /\ pic[2].icw = IF at \in 3 .. 4 THEN 2 ELSE IF at \in 5 .. 6 THEN 3
                    ELSE IF at \in 7 .. 8 THEN 4 ELSE 0
    /\ at >= 4 => pic[1].base = 32
    /\ at >= 5 => pic[2].base = 40
    /\ pic[1].cascade = 4 /\ pic[2].cascade = 2 /\ pic[1].mode = 1
    /\ at \in 1 .. 11 => saved = wanted
    /\ at \notin 2 .. 10 => imr = wanted
    /\ at = 10 => imr \cap Master = saved \cap Master
    /\ gates = IF at >= 12 THEN 0 .. 47 ELSE 0 .. 31

\* Until then nothing is interrupted; enable_a20_gate comes first.
Quiet ==
    /\ at # 0 => step = "done"
    /\ at # 14 => ~if_flag /\ stack = << >> /\ isr = {} /\ lost = 0

\* Without an early key: the bytes in the buffers of the keyboard controller,
\* and the copy of the output port.
Buffers ==
    ~early =>
        /\ ~reset
        /\ cmd = IF step \in {"D1", "empty", "cmd"} THEN "port" ELSE "none"
        /\ step # "full" =>
              /\ ibuf \in {"none"} \cup CASE step = "D0" -> {"AD"}
                                          [] step = "empty" -> {"D1"}
                                          [] step = "AE" -> {"port"}
                                          [] step = "drain" -> {"AE"}
                                          [] OTHER -> {}
              /\ at <= 1 => obuf = IF step = "read" THEN "port" ELSE "none"
        /\ step = "full" => <<ibuf, obuf>> \in {<<"D0", "none">>, <<"none", "port">>}

Words == step # "done" => word = [high |-> "kept", low |-> "kept"]

\* The handlers serve the lines they were entered for.
Served ==
    \A i \in 1 .. Len(stack) :
        /\ stack[i].irq = IF stack[i].line = NoLine THEN 7 ELSE stack[i].line
        /\ stack[i].step \in {"real", "draw"} => stack[i].line = Keyboard

\* What is in service, unless an EOI was stolen.
HandlersInService ==
    ~stolen =>
        /\ \A i \in Unfinished : stack[i].line \in isr
        /\ \A i, j \in Unfinished : i < j => Rank(stack[i].line) < Rank(stack[j].line)
        /\ \A s, t \in isr \cap Slave : s = t
        /\ \A s \in isr \cap Slave : Cascade \in isr /\ \E i \in Unfinished : stack[i].line = s
        /\ Cardinality(isr \cap Master) = lost + Cardinality(Unfinished)
        /\ lost = 0 =>
              /\ isr \ {Cascade} = {stack[i].line : i \in Unfinished}
              /\ Cascade \in isr => isr \cap Slave # {}

Undeaf == ~early /\ ~stolen => ~deaf

IInv ==
    /\ Types /\ Installing /\ Quiet /\ Buffers /\ Words /\ Served /\ HandlersInService /\ Undeaf

-----------------------------------------------------------------------------
(***************************************************************************)
(* The controllers.                                                        *)
(***************************************************************************)
\* The accesses of pic_remap.
LEMMA RemapSteps ==
    /\ Len(pic_remap) = 10 /\ Len(Enabled) = 2
    /\ \A k \in Int : Remapping(k) <=> k \in 1 .. 10
    /\ pic_remap[1] = Command(1) /\ pic_remap[2] = Command(2)
    /\ pic_remap[3] = Data(1, 32) /\ pic_remap[4] = Data(2, 40)
    /\ pic_remap[5] = Data(1, 4) /\ pic_remap[6] = Data(2, 2)
    /\ pic_remap[7] = Data(1, 1) /\ pic_remap[8] = Data(2, 1)
    /\ pic_remap[9] = Data(1, saved) /\ pic_remap[10] = Data(2, saved)
    /\ Enabled[1] = Timer /\ Enabled[2] = Keyboard
    /\ Installed <=> at = 14
  BY DEF pic_remap, Remapping, Enabled, Installed

\* irq_install programs both controllers and restores the masks.
LEMMA InstallInv ==
    ASSUME Types, Installing, Quiet, InstallStep, step = "done"
    PROVE  /\ Installing' /\ at \in 0 .. 13 /\ at' = at + 1
           /\ irr' \subseteq irr /\ isr' \subseteq isr
           /\ imr' \subseteq Master \cup Slave /\ wanted' \subseteq Master \cup Slave
           /\ pic' \in [1 .. 2 -> Chips]
  <1>1. /\ at \in 0 .. 14 /\ at' = at + 1
        /\ imr \subseteq Master \cup Slave /\ wanted \subseteq Master \cup Slave
        /\ pic \in [1 .. 2 -> Chips]
    BY DEF Types, InstallStep
  <1>2. pic[1] \in Chips /\ pic[2] \in Chips
    BY <1>1
  <1>3. Timer \in Master /\ Keyboard \in Master
    BY DEF Timer, Keyboard, Master
  <1>4. CASE ReadMasks
    BY <1>1, <1>4 DEF ReadMasks, Installing
  <1>5. CASE SetGates
    <2>1. at = 11
      BY <1>5, RemapSteps DEF SetGates
    <2>2. (0 .. 31) \cup (32 .. 47) = 0 .. 47
      OBVIOUS
    <2>3. gates' = 0 .. 47
      BY <1>5, <2>1, <2>2 DEF SetGates, Installing, IrqGates
    <2>4. UNCHANGED <<irr, isr, imr, pic, saved, wanted>>
      BY <1>5 DEF SetGates
    <2>5. at' = 12
      BY <1>1, <2>1
    <2>6. Installing'
      BY <2>1, <2>3, <2>4, <2>5 DEF Installing
    <2> QED
      BY <1>1, <2>1, <2>4, <2>6
  <1>6. CASE EnableLine
    <2>1. at \in {12, 13}
      BY <1>1, <1>6, RemapSteps DEF EnableLine
    <2>2. PICK l \in {Timer, Keyboard} : imr' = imr \ {l} /\ wanted' = wanted \ {l}
      BY <1>6, <2>1, RemapSteps DEF EnableLine, irq_clear_mask
    <2>3. UNCHANGED <<irr, isr, pic, saved, gates>>
      BY <1>6 DEF EnableLine
    <2>4. imr' = wanted' /\ imr' \subseteq Master \cup Slave
      BY <1>1, <2>1, <2>2 DEF Installing
    <2> QED
      BY <1>1, <2>1, <2>2, <2>3, <2>4 DEF Installing
  <1>7. CASE Remap
    <2>1. at \in 1 .. 10
      BY <1>1, <1>7, RemapSteps DEF Remap
    <2>2. UNCHANGED <<saved, gates, wanted>>
      BY ONLY <1>7, Zenon DEF Remap
    <2>3. CASE at = 1
      <3>1. Icw1(1)
        BY <1>7, <2>3, RemapSteps DEF Remap, Command
      <3> QED
        BY <1>1, <1>2, <2>2, <2>3, <3>1 DEF Icw1, Installing, LinesOf, Chips
    <2>4. CASE at = 2
      <3>1. Icw1(2)
        BY ONLY <1>7, <2>4, RemapSteps, SMTT(30) DEF Remap, Command
      <3> QED
        BY <1>1, <1>2, <2>2, <2>4, <3>1 DEF Icw1, Installing, LinesOf, Chips
    <2>5. CASE at \in {3, 5, 7}
      <3>1. \E v \in {32, 4, 1} : OutData(1, v) /\ (at = 3 => v = 32) /\ (at = 5 => v = 4)
                                  /\ (at = 7 => v = 1)
        BY <1>7, <2>5, RemapSteps DEF Remap, Data
      <3>2. pic[1].icw = IF at = 3 THEN 2 ELSE IF at = 5 THEN 3 ELSE 4
        BY <2>5, SMTT(30) DEF Installing
      <3> QED
        BY <1>1, <1>2, <2>2, <2>5, <3>1, <3>2 DEF OutData, RegisterOf, Installing, LinesOf, Chips
    <2>6. CASE at \in {4, 6, 8}
      <3>1. \E v \in {40, 2, 1} : OutData(2, v) /\ (at = 4 => v = 40) /\ (at = 6 => v = 2)
                                  /\ (at = 8 => v = 1)
        BY <1>7, <2>6, RemapSteps DEF Remap, Data
      <3>2. pic[2].icw = IF at = 4 THEN 2 ELSE IF at = 6 THEN 3 ELSE 4
        BY <2>6 DEF Installing
      <3> QED
        BY <1>1, <1>2, <2>2, <2>6, <3>1, <3>2 DEF OutData, RegisterOf, Installing, LinesOf, Chips
    <2>7. CASE at = 9
      <3>1. OutData(1, saved)
        BY <1>7, <2>7, RemapSteps DEF Remap, Data
      <3>2. pic[1].icw = 0
        BY <2>7 DEF Installing
      <3>3. saved = wanted
        BY <2>7 DEF Installing
      <3>4. imr' = (imr \ Master) \cup (saved \cap Master) /\ UNCHANGED <<pic, irr, isr>>
        BY <3>1, <3>2 DEF OutData, LinesOf
      <3> QED
        BY <1>1, <2>2, <2>7, <3>3, <3>4 DEF Installing
    <2>8. CASE at = 10
      <3>1. OutData(2, saved)
        BY <1>7, <2>8, RemapSteps DEF Remap, Data
      <3>2. pic[2].icw = 0
        BY <2>8 DEF Installing
      <3>3. saved = wanted /\ imr \cap Master = saved \cap Master
        BY <2>8 DEF Installing
      <3>4. imr' = (imr \ Slave) \cup (saved \cap Slave) /\ UNCHANGED <<pic, irr, isr>>
        BY <3>1, <3>2 DEF OutData, LinesOf
      <3>5. Master \cap Slave = {}
        BY DEF Master, Slave
      <3>6. imr' = saved
        BY <1>1, <3>3, <3>4, <3>5
      <3> QED
        BY <1>1, <2>2, <2>8, <3>3, <3>4, <3>6 DEF Installing
    <2> QED
      BY <2>1, <2>3, <2>4, <2>5, <2>6, <2>7, <2>8
  <1> QED
    BY <1>4, <1>5, <1>6, <1>7 DEF InstallStep

-----------------------------------------------------------------------------
(***************************************************************************)
(* The handlers.                                                           *)
(***************************************************************************)
\* The lines, and their ranks.
LEMMA LineFacts ==
    /\ \A l \in Lines : l \in 0 .. 15 /\ l # Cascade /\ l # NoLine
    /\ \A l \in 0 .. 15 : /\ Rank(l) = IF l >= 8 THEN l + 8 ELSE 8 * l
                          /\ l \in Slave <=> l >= 8
                          /\ l \in Master <=> l <= 7
    /\ Cascade = 2 /\ Keyboard = 1 /\ Keyboard \in Lines
  BY PicAssumption DEF Master, Slave, Cascade, Keyboard, Rank, NoLine

\* The handlers that owe an EOI are finitely many.
LEMMA UnfinishedFinite ==
    ASSUME Types
    PROVE  /\ Len(stack) \in Nat /\ Unfinished \subseteq 1 .. Len(stack)
           /\ IsFiniteSet(Unfinished) /\ Cardinality(Unfinished) \in Nat
           /\ IsFiniteSet(isr) /\ IsFiniteSet(isr \cap Master)
           /\ Cardinality(isr \cap Master) \in Nat
  <1>1. Len(stack) \in Nat /\ Unfinished \subseteq 1 .. Len(stack)
    BY DEF Types, Unfinished
  <1>2. isr \subseteq 0 .. 15
    BY LineFacts DEF Types
  <1>3. IsFiniteSet(1 .. Len(stack)) /\ IsFiniteSet(0 .. 15)
    <2>1. 0 \in Int /\ 15 \in Int /\ 1 \in Int /\ Len(stack) \in Int
      BY <1>1
    <2> QED
      BY <2>1, FS_Interval, Zenon
  <1>4. IsFiniteSet(Unfinished) /\ IsFiniteSet(isr)
    BY <1>1, <1>2, <1>3, FS_Subset
  <1>5. IsFiniteSet(isr \cap Master)
    BY <1>4, FS_Subset
  <1> QED
    BY <1>1, <1>4, <1>5, FS_CardinalityType

\* Shifting a set of places keeps its size.
LEMMA ShiftCount ==
    ASSUME NEW S \in SUBSET Nat, IsFiniteSet(S)
    PROVE  /\ IsFiniteSet({i + 1 : i \in S})
           /\ Cardinality({i + 1 : i \in S}) = Cardinality(S)
  <1> DEFINE T == {i + 1 : i \in S}
             f == [i \in S |-> i + 1]
  <1>1. f \in [S -> T] /\ (\A a, b \in S : f[a] = f[b] => a = b)
        /\ \A t \in T : \E a \in S : f[a] = t
    OBVIOUS
  <1> HIDE DEF f, T
  <1>2. f \in Bijection(S, T)
    BY <1>1, Fun_IsBij
  <1>3. ExistsBijection(S, T)
    BY <1>2 DEF ExistsBijection
  <1>4. IsFiniteSet(T) /\ Cardinality(T) = Cardinality(S)
    BY <1>3, FS_Bijection
  <1> QED
    BY <1>4 DEF T

\* A handler entered is the first; the others move up one place.
LEMMA Pushed ==
    ASSUME Types, NEW h \in Handlers, Len(stack) < MaxDepth, stack' = <<h>> \o stack
    PROVE  /\ stack' \in Seq(Handlers) /\ Len(stack') = Len(stack) + 1
           /\ Len(stack') <= MaxDepth
           /\ stack'[1] = h
           /\ \A i \in 2 .. Len(stack') : i - 1 \in 1 .. Len(stack) /\ stack'[i] = stack[i - 1]
           /\ LET new == IF h.step # "iret" /\ h.line # NoLine THEN {1} ELSE {}
              IN  /\ \A i : i \in Unfinished' <=>
                         (i \in new \/ (i \in 2 .. Len(stack') /\ i - 1 \in Unfinished))
                  /\ Cardinality(Unfinished')
                         = Cardinality(Unfinished) + (IF new = {} THEN 0 ELSE 1)
  <1> DEFINE new == IF h.step # "iret" /\ h.line # NoLine THEN {1} ELSE {}
             moved == {i + 1 : i \in Unfinished}
  <1>1. stack \in Seq(Handlers) /\ Len(stack) \in Nat /\ MaxDepth \in Nat
    BY IrqAssumption DEF Types
  <1>2. /\ stack' \in Seq(Handlers) /\ Len(stack') = Len(stack) + 1
        /\ stack'[1] = h
        /\ \A i \in 2 .. Len(stack') : i - 1 \in 1 .. Len(stack) /\ stack'[i] = stack[i - 1]
    BY <1>1
  <1>3. ASSUME NEW i
        PROVE  i \in Unfinished' <=>
                         (i \in new \/ (i \in 2 .. Len(stack') /\ i - 1 \in Unfinished))
    <2>1. i \in 1 .. Len(stack') <=> i = 1 \/ i \in 2 .. Len(stack')
      BY <1>1, <1>2
    <2>2. CASE i = 1
      BY <1>1, <1>2, <2>1, <2>2 DEF Unfinished
    <2>3. CASE i \in 2 .. Len(stack')
      BY <1>2, <2>1, <2>3 DEF Unfinished
    <2> QED
      BY <2>1, <2>2, <2>3 DEF Unfinished
  <1>4. Unfinished \subseteq 1 .. Len(stack) /\ IsFiniteSet(Unfinished)
        /\ Cardinality(Unfinished) \in Nat
    BY UnfinishedFinite
  <1>5. IsFiniteSet(moved) /\ Cardinality(moved) = Cardinality(Unfinished)
    <2>1. Unfinished \in SUBSET Nat
      BY <1>1, <1>4
    <2> QED
      BY <1>4, <2>1, ShiftCount
  <1>6. \A i : i \in moved <=> i \in 2 .. Len(stack') /\ i - 1 \in Unfinished
    <2>1. ASSUME NEW i \in moved PROVE i \in 2 .. Len(stack') /\ i - 1 \in Unfinished
      BY <1>1, <1>2, <1>4
    <2>2. ASSUME NEW i \in 2 .. Len(stack'), i - 1 \in Unfinished PROVE i \in moved
      <3>1. i = (i - 1) + 1
        BY <1>1, <1>2
      <3> QED
        BY <2>2, <3>1
    <2> QED
      BY <2>1, <2>2
  <1> HIDE DEF moved
  <1>7. Unfinished' = moved \cup new
    BY <1>3, <1>6
  <1>8. 1 \notin moved
    BY <1>6
  <1>9. Cardinality(Unfinished') = Cardinality(Unfinished) + (IF new = {} THEN 0 ELSE 1)
    <2>1. new = {} \/ new = {1}
      OBVIOUS
    <2>2. Cardinality(moved \cup {1}) = Cardinality(moved) + 1
      BY <1>5, <1>8, FS_AddElement
    <2> HIDE DEF new
    <2>3. CASE new = {}
      <3>1. Unfinished' = moved
        BY <1>7, <2>3
      <3> QED
        BY <1>4, <1>5, <2>3, <3>1
    <2>4. CASE new = {1}
      <3>1. Unfinished' = moved \cup {1} /\ new # {}
        BY <1>7, <2>4
      <3> QED
        BY <1>5, <2>2, <3>1, Zenon
    <2> QED
      BY <2>1, <2>3, <2>4
  <1> QED
    BY <1>1, <1>2, <1>3, <1>9

\* A handler that returns has sent its EOI; the others move down one place.
LEMMA Popped ==
    ASSUME Types, RunningAt("iret"), stack' = Tail(stack)
    PROVE  /\ stack' \in Seq(Handlers) /\ Len(stack') = Len(stack) - 1
           /\ Len(stack') <= MaxDepth
           /\ \A i \in 1 .. Len(stack') : i + 1 \in 1 .. Len(stack) /\ stack'[i] = stack[i + 1]
           /\ \A i : i \in Unfinished' <=> i \in 1 .. Len(stack') /\ i + 1 \in Unfinished
           /\ \A i \in Unfinished : i - 1 \in Unfinished'
           /\ Cardinality(Unfinished') = Cardinality(Unfinished)
  <1>1. stack \in Seq(Handlers) /\ Len(stack) \in Nat /\ MaxDepth \in Nat
        /\ Len(stack) <= MaxDepth /\ stack # << >> /\ stack[1].step = "iret"
    BY IrqAssumption DEF Types, RunningAt, Top
  <1>2. /\ stack' \in Seq(Handlers) /\ Len(stack') = Len(stack) - 1 /\ Len(stack') \in Nat
        /\ \A i \in 1 .. Len(stack') : i + 1 \in 1 .. Len(stack) /\ stack'[i] = stack[i + 1]
    BY <1>1
  <1>3. \A i : i \in Unfinished' <=> i \in 1 .. Len(stack') /\ i + 1 \in Unfinished
    BY <1>2 DEF Unfinished
  <1>4. \A i \in Unfinished : i - 1 \in Unfinished' /\ i = (i - 1) + 1
    <2> SUFFICES ASSUME NEW i \in Unfinished PROVE i - 1 \in Unfinished' /\ i = (i - 1) + 1
      OBVIOUS
    <2>1. i \in 1 .. Len(stack) /\ i # 1
      BY <1>1 DEF Unfinished
    <2>2. i - 1 \in 1 .. Len(stack') /\ i = (i - 1) + 1
      BY <1>1, <1>2, <2>1
    <2> QED
      BY <1>3, <2>2
  <1>5. Unfinished = {i + 1 : i \in Unfinished'}
    BY <1>3, <1>4
  <1>6. Unfinished' \subseteq 1 .. Len(stack') /\ IsFiniteSet(Unfinished')
    <2>1. Unfinished' \subseteq 1 .. Len(stack')
      BY <1>3
    <2>2. IsFiniteSet(1 .. Len(stack'))
      BY <1>2, FS_Interval
    <2> QED
      BY <2>1, <2>2, FS_Subset
  <1>7. Cardinality(Unfinished) = Cardinality(Unfinished')
    <2>1. Unfinished' \in SUBSET Nat
      BY <1>2, <1>6
    <2> QED
      BY <1>5, <1>6, <2>1, ShiftCount
  <1> QED
    BY <1>1, <1>2, <1>3, <1>4, <1>7

\* A step of a handler changes nothing else about it.
LEMMA Went ==
    ASSUME Types, NEW s \in Steps, RunningAt(s), s # "iret", NEW t \in Steps, Goto(t)
    PROVE  /\ stack' \in Seq(Handlers) /\ Len(stack') = Len(stack)
           /\ 1 \in 1 .. Len(stack) /\ Top.step = s /\ Top \in Handlers
           /\ \A i \in 1 .. Len(stack) :
                 /\ stack'[i].irq = stack[i].irq /\ stack'[i].line = stack[i].line
                 /\ stack'[i].step = IF i = 1 THEN t ELSE stack[i].step
           /\ Unfinished' = IF t = "iret" THEN Unfinished \ {1} ELSE Unfinished
  <1>1. stack \in Seq(Handlers) /\ Len(stack) \in Nat /\ 1 \in 1 .. Len(stack)
        /\ stack[1].step = s /\ \A i \in 1 .. Len(stack) : stack[i] \in Handlers
    BY DEF Types, RunningAt, Top
  <1>2. stack' = [stack EXCEPT ![1].step = t]
    BY DEF Goto
  <1>3. [stack[1] EXCEPT !.step = t] \in Handlers
    BY <1>1 DEF Handlers
  <1>4. /\ stack' \in Seq(Handlers) /\ Len(stack') = Len(stack)
        /\ \A i \in 1 .. Len(stack) :
              stack'[i] = IF i = 1 THEN [stack[1] EXCEPT !.step = t] ELSE stack[i]
    BY <1>1, <1>2, <1>3
  <1>5. \A i \in 1 .. Len(stack) :
            /\ stack'[i].irq = stack[i].irq /\ stack'[i].line = stack[i].line
            /\ stack'[i].step = IF i = 1 THEN t ELSE stack[i].step
    BY <1>1, <1>4 DEF Handlers
  <1>6. ASSUME NEW i
        PROVE  i \in Unfinished' <=> i \in Unfinished /\ ~(t = "iret" /\ i = 1)
    BY <1>1, <1>4, <1>5 DEF Unfinished
  <1> QED
    BY <1>1, <1>4, <1>5, <1>6 DEF Top

-----------------------------------------------------------------------------
(***************************************************************************)
(* What is in service.                                                     *)
(***************************************************************************)
\* A line that is delivered outranks all in service and joins them, a slave's
\* line with the cascade: one more line of the master is in service.
LEMMA Delivered ==
    ASSUME Types, Installing, NEW l \in Lines, Deliverable(l)
    PROVE  /\ l \in 0 .. 15 /\ l \in irr /\ l \notin isr
           /\ \A k \in isr : Rank(l) < Rank(k)
           /\ l \in Slave => Cascade \notin isr
           /\ InService(l) = isr \cup {l} \cup (IF l \in Slave THEN {Cascade} ELSE {})
           /\ Cardinality(InService(l) \cap Master) = Cardinality(isr \cap Master) + 1
  <1>1. isr \subseteq 0 .. 15 /\ l \in 0 .. 15 /\ l \in irr /\ \A k \in isr : Rank(l) < Rank(k)
    <2>1. l \in irr /\ \A k \in isr : Rank(l) < Rank(k)
      BY DEF Deliverable
    <2>2. isr \subseteq 0 .. 15 /\ l \in 0 .. 15
      <3>1. isr \subseteq Lines \cup {Cascade}
        BY DEF Types
      <3>2. Cascade \in 0 .. 15
        BY LineFacts
      <3> QED
        BY <3>1, <3>2, LineFacts, Zenon
    <2> QED
      BY <2>1, <2>2
  <1>2. l \notin isr /\ (l \in Slave => Cascade \notin isr)
    BY <1>1, LineFacts
  <1>3. InService(l) = isr \cup {l} \cup (IF l \in Slave THEN {Cascade} ELSE {})
    BY DEF InService, Installing
  <1>4. IsFiniteSet(isr \cap Master)
    BY UnfinishedFinite
  <1>5. CASE l \in Slave
    <2>1. InService(l) \cap Master = (isr \cap Master) \cup {Cascade}
      BY <1>1, <1>3, <1>5, LineFacts
    <2> QED
      BY <1>1, <1>2, <1>3, <1>4, <1>5, <2>1, FS_AddElement
  <1>6. CASE l \notin Slave
    <2>1. InService(l) \cap Master = (isr \cap Master) \cup {l}
      BY <1>1, <1>3, <1>6, LineFacts
    <2> QED
      BY <1>1, <1>2, <1>3, <1>4, <1>6, <2>1, FS_AddElement
  <1> QED
    BY <1>5, <1>6

\* Nothing is in service twice, if no handler and nothing in service changes.
LEMMA SameService ==
    ASSUME HandlersInService, UNCHANGED <<isr, lost>>, stolen' = stolen,
           Unfinished' = Unfinished, \A i \in Unfinished : stack'[i].line = stack[i].line
    PROVE  HandlersInService'
  BY DEF HandlersInService

\* An interrupt gets the number of its line; a spurious one that of line 7.
LEMMA Numbers ==
    ASSUME Types, Installing, at = 14, NEW l \in Lines
    PROVE  /\ StubNumber(Vector(l)) - 32 = l
           /\ StubNumber(pic[1].base + 7) - 32 = 7
  <1>1. pic[1].base = 32 /\ pic[2].base = 40 /\ gates = 0 .. 47
    BY DEF Installing
  <1>2. l \in 0 .. 15 /\ (l \in Slave <=> l >= 8)
    BY LineFacts
  <1>3. l % 8 = IF l >= 8 THEN l - 8 ELSE l
    BY <1>2
  <1>4. Vector(l) = 32 + l
    BY <1>1, <1>2, <1>3 DEF Vector, ChipOf
  <1> QED
    BY <1>1, <1>2, <1>4 DEF StubNumber

\* An interrupt that reaches its handler.
LEMMA DeliverService ==
    ASSUME Types, Installing, Quiet, HandlersInService, NEW l \in Lines, Deliver(l)
    PROVE  HandlersInService'
  <1> DEFINE h == [irq |-> StubNumber(Vector(l)) - 32, line |-> l, step |-> "body", flag |-> if_flag]
  <1>1. /\ stack' = <<h>> \o stack /\ Len(stack) < MaxDepth
        /\ isr' = InService(l) /\ lost' = lost /\ stolen' = stolen
        /\ if_flag /\ Deliverable(l)
    BY DEF Deliver, Entered
  <1>2. l \in 0 .. 15 /\ l # NoLine /\ at = 14
    BY <1>1, LineFacts DEF Quiet
  <1>3. h \in Handlers /\ h.line = l /\ h.step = "body"
    <2>1. if_flag \in BOOLEAN
      BY DEF Types
    <2> QED
      BY <1>2, <2>1, Numbers DEF Handlers, Steps
  <1> HIDE DEF h
  <1>4. /\ Len(stack') = Len(stack) + 1 /\ stack'[1] = h
        /\ \A i \in 2 .. Len(stack') : i - 1 \in 1 .. Len(stack) /\ stack'[i] = stack[i - 1]
        /\ \A i : i \in Unfinished' <=> (i = 1 \/ (i \in 2 .. Len(stack') /\ i - 1 \in Unfinished))
        /\ Cardinality(Unfinished') = Cardinality(Unfinished) + 1
    BY <1>1, <1>2, <1>3, Pushed
  <1>5. /\ l \notin isr /\ \A k \in isr : Rank(l) < Rank(k)
        /\ l \in Slave => Cascade \notin isr
        /\ isr' = isr \cup {l} \cup (IF l \in Slave THEN {Cascade} ELSE {})
        /\ Cardinality(isr' \cap Master) = Cardinality(isr \cap Master) + 1
    BY <1>1, Delivered
  <1>6. Len(stack) \in Nat /\ Unfinished \subseteq 1 .. Len(stack) /\ Cardinality(Unfinished) \in Nat
        /\ Cardinality(isr \cap Master) \in Nat /\ lost \in Nat
    BY UnfinishedFinite DEF Types
  <1>7. \A i \in Unfinished' :
            \/ i = 1 /\ stack'[i].line = l
            \/ i - 1 \in Unfinished /\ i > 1 /\ stack'[i].line = stack[i - 1].line
    BY <1>3, <1>4, <1>6
  <1>8. \A i \in Unfinished : i + 1 \in Unfinished' /\ stack'[i + 1].line = stack[i].line
    <2> SUFFICES ASSUME NEW i \in Unfinished
                 PROVE  i + 1 \in Unfinished' /\ stack'[i + 1].line = stack[i].line
      OBVIOUS
    <2>1. i + 1 \in 2 .. Len(stack') /\ (i + 1) - 1 = i
      BY <1>4, <1>6
    <2> QED
      BY <1>4, <2>1
  <1>9. 1 \in Unfinished' /\ stack'[1].line = l
    BY <1>3, <1>4
  <1>10. Cascade \notin Slave /\ l # Cascade
    BY LineFacts
  <1>11. ASSUME ~stolen
         PROVE  /\ \A i \in Unfinished' : stack'[i].line \in isr'
                /\ \A i, j \in Unfinished' : i < j => Rank(stack'[i].line) < Rank(stack'[j].line)
                /\ \A s, t \in isr' \cap Slave : s = t
                /\ \A s \in isr' \cap Slave :
                      Cascade \in isr' /\ \E i \in Unfinished' : stack'[i].line = s
                /\ Cardinality(isr' \cap Master) = lost' + Cardinality(Unfinished')
                /\ lost' = 0 =>
                      /\ isr' \ {Cascade} = {stack'[i].line : i \in Unfinished'}
                      /\ Cascade \in isr' => isr' \cap Slave # {}
    <2>1. /\ \A i \in Unfinished : stack[i].line \in isr
          /\ \A i, j \in Unfinished : i < j => Rank(stack[i].line) < Rank(stack[j].line)
          /\ \A s, t \in isr \cap Slave : s = t
          /\ \A s \in isr \cap Slave : Cascade \in isr /\ \E i \in Unfinished : stack[i].line = s
          /\ Cardinality(isr \cap Master) = lost + Cardinality(Unfinished)
          /\ lost = 0 =>
                /\ isr \ {Cascade} = {stack[i].line : i \in Unfinished}
                /\ Cascade \in isr => isr \cap Slave # {}
      BY <1>11 DEF HandlersInService
    <2>2. \A i \in Unfinished' : stack'[i].line \in isr'
      BY <1>5, <1>7, <2>1
    <2>3. \A i, j \in Unfinished' : i < j => Rank(stack'[i].line) < Rank(stack'[j].line)
      <3> SUFFICES ASSUME NEW i \in Unfinished', NEW j \in Unfinished', i < j
                   PROVE  Rank(stack'[i].line) < Rank(stack'[j].line)
        OBVIOUS
      <3>1. j - 1 \in Unfinished /\ stack'[j].line = stack[j - 1].line /\ j \in Nat /\ i \in Nat
        BY <1>4, <1>6, <1>7
      <3>2. CASE i = 1
        BY <1>5, <1>9, <2>1, <3>1, <3>2
      <3>3. CASE i # 1
        <4>1. i - 1 \in Unfinished /\ stack'[i].line = stack[i - 1].line /\ i - 1 < j - 1
          BY <1>7, <3>1, <3>3
        <4> QED
          BY <2>1, <3>1, <4>1
      <3> QED
        BY <3>2, <3>3
    <2>4. l \in Slave => isr \cap Slave = {}
      BY <1>5, <2>1
    <2>5. \A s, t \in isr' \cap Slave : s = t
      BY <1>5, <1>10, <2>1, <2>4
    <2>6. \A s \in isr' \cap Slave :
              Cascade \in isr' /\ \E i \in Unfinished' : stack'[i].line = s
      BY <1>5, <1>8, <1>9, <1>10, <2>1
    <2>7. Cardinality(isr' \cap Master) = lost' + Cardinality(Unfinished')
      BY <1>1, <1>4, <1>5, <1>6, <2>1
    <2>8. ASSUME lost' = 0
          PROVE  /\ isr' \ {Cascade} = {stack'[i].line : i \in Unfinished'}
                 /\ Cascade \in isr' => isr' \cap Slave # {}
      <3>1. lost = 0
        BY <1>1, <2>8
      <3>2. isr' \ {Cascade} = (isr \ {Cascade}) \cup {l}
        BY <1>5, <1>10
      <3>3. \A x : x \in {stack'[i].line : i \in Unfinished'} <=>
                       x \in {stack[i].line : i \in Unfinished} \cup {l}
        BY <1>7, <1>8, <1>9
      <3>4. Cascade \in isr' => isr' \cap Slave # {}
        BY <1>5, <1>10, <2>1, <3>1
      <3> QED
        BY <2>1, <3>1, <3>2, <3>3, <3>4
    <2> QED
      BY <2>2, <2>3, <2>5, <2>6, <2>7, <2>8
  <1> QED
    BY <1>1, <1>11 DEF HandlersInService

\* A spurious interrupt puts nothing in service.
LEMMA SpuriousService ==
    ASSUME Types, Installing, Quiet, HandlersInService, NEW l \in Lines, Spurious(l)
    PROVE  HandlersInService'
  <1> DEFINE h == [irq |-> StubNumber(pic[1].base + 7) - 32, line |-> NoLine, step |-> "body",
                   flag |-> if_flag]
  <1>1. /\ stack' = <<h>> \o stack /\ Len(stack) < MaxDepth
        /\ isr' = isr /\ lost' = lost /\ stolen' = stolen /\ if_flag
    BY DEF Spurious, Entered
  <1>2. h \in Handlers /\ h.line = NoLine
    <2>1. if_flag \in BOOLEAN /\ at = 14
      BY <1>1 DEF Types, Quiet
    <2> QED
      BY <2>1, Numbers DEF Handlers, Steps
  <1> HIDE DEF h
  <1>3. /\ Len(stack') = Len(stack) + 1
        /\ \A i \in 2 .. Len(stack') : i - 1 \in 1 .. Len(stack) /\ stack'[i] = stack[i - 1]
        /\ \A i : i \in Unfinished' <=> (i \in 2 .. Len(stack') /\ i - 1 \in Unfinished)
        /\ Cardinality(Unfinished') = Cardinality(Unfinished)
    <2>1. Cardinality(Unfinished) \in Nat
      BY UnfinishedFinite
    <2> QED
      BY <1>1, <1>2, <2>1, Pushed
  <1>4. Len(stack) \in Nat /\ Unfinished \subseteq 1 .. Len(stack)
    BY UnfinishedFinite
  <1>5. \A i \in Unfinished' : /\ i - 1 \in Unfinished /\ i \in Nat
                               /\ stack'[i].line = stack[i - 1].line
    BY <1>3, <1>4
  <1>6. \A i \in Unfinished : i + 1 \in Unfinished' /\ stack'[i + 1].line = stack[i].line
    <2> SUFFICES ASSUME NEW i \in Unfinished
                 PROVE  i + 1 \in Unfinished' /\ stack'[i + 1].line = stack[i].line
      OBVIOUS
    <2>1. i + 1 \in 2 .. Len(stack') /\ (i + 1) - 1 = i
      BY <1>3, <1>4
    <2> QED
      BY <1>3, <2>1
  <1>7. ASSUME ~stolen
        PROVE  /\ \A i \in Unfinished' : stack'[i].line \in isr
               /\ \A i, j \in Unfinished' : i < j => Rank(stack'[i].line) < Rank(stack'[j].line)
               /\ \A s \in isr \cap Slave : \E i \in Unfinished' : stack'[i].line = s
               /\ lost = 0 => isr \ {Cascade} = {stack'[i].line : i \in Unfinished'}
    <2>1. /\ \A i \in Unfinished : stack[i].line \in isr
          /\ \A i, j \in Unfinished : i < j => Rank(stack[i].line) < Rank(stack[j].line)
          /\ \A s \in isr \cap Slave : \E i \in Unfinished : stack[i].line = s
          /\ lost = 0 => isr \ {Cascade} = {stack[i].line : i \in Unfinished}
      BY <1>7 DEF HandlersInService
    <2>2. \A i, j \in Unfinished' : i < j => Rank(stack'[i].line) < Rank(stack'[j].line)
      <3> SUFFICES ASSUME NEW i \in Unfinished', NEW j \in Unfinished', i < j
                   PROVE  Rank(stack'[i].line) < Rank(stack'[j].line)
        OBVIOUS
      <3>1. i - 1 < j - 1
        BY <1>5
      <3> QED
        BY <1>5, <2>1, <3>1
    <2>3. \A x : x \in {stack'[i].line : i \in Unfinished'} <=>
                     x \in {stack[i].line : i \in Unfinished}
      BY <1>5, <1>6
    <2> QED
      BY <1>5, <1>6, <2>1, <2>2, <2>3
  <1> QED
    BY <1>1, <1>3, <1>7 DEF HandlersInService

\* A handler that returns has nothing in service.
LEMMA IretService ==
    ASSUME Types, HandlersInService, Iret
    PROVE  HandlersInService'
  <1>1. /\ RunningAt("iret") /\ stack' = Tail(stack)
        /\ isr' = isr /\ lost' = lost /\ stolen' = stolen
    BY DEF Iret, picVars
  <1>2. /\ \A i \in 1 .. Len(stack') : i + 1 \in 1 .. Len(stack) /\ stack'[i] = stack[i + 1]
        /\ \A i : i \in Unfinished' <=> (i \in 1 .. Len(stack') /\ i + 1 \in Unfinished)
        /\ \A i \in Unfinished : i - 1 \in Unfinished'
        /\ Cardinality(Unfinished') = Cardinality(Unfinished)
    BY <1>1, Popped
  <1>3. Len(stack) \in Nat /\ Unfinished \subseteq 1 .. Len(stack)
    BY UnfinishedFinite
  <1>4. \A i \in Unfinished' : /\ i + 1 \in Unfinished /\ i \in Int
                               /\ stack'[i].line = stack[i + 1].line
    BY <1>2
  <1>5. \A i \in Unfinished : i - 1 \in Unfinished' /\ stack'[i - 1].line = stack[i].line
    <2> SUFFICES ASSUME NEW i \in Unfinished
                 PROVE  i - 1 \in Unfinished' /\ stack'[i - 1].line = stack[i].line
      OBVIOUS
    <2>1. i - 1 \in Unfinished' /\ (i - 1) + 1 = i
      BY <1>2, <1>3
    <2> QED
      BY <1>4, <2>1
  <1>6. ASSUME ~stolen
        PROVE  /\ \A i \in Unfinished' : stack'[i].line \in isr
               /\ \A i, j \in Unfinished' : i < j => Rank(stack'[i].line) < Rank(stack'[j].line)
               /\ \A s \in isr \cap Slave : \E i \in Unfinished' : stack'[i].line = s
               /\ lost = 0 => isr \ {Cascade} = {stack'[i].line : i \in Unfinished'}
    <2>1. /\ \A i \in Unfinished : stack[i].line \in isr
          /\ \A i, j \in Unfinished : i < j => Rank(stack[i].line) < Rank(stack[j].line)
          /\ \A s \in isr \cap Slave : \E i \in Unfinished : stack[i].line = s
          /\ lost = 0 => isr \ {Cascade} = {stack[i].line : i \in Unfinished}
      BY <1>6 DEF HandlersInService
    <2>2. \A i, j \in Unfinished' : i < j => Rank(stack'[i].line) < Rank(stack'[j].line)
      <3> SUFFICES ASSUME NEW i \in Unfinished', NEW j \in Unfinished', i < j
                   PROVE  Rank(stack'[i].line) < Rank(stack'[j].line)
        OBVIOUS
      <3>1. i + 1 < j + 1
        BY <1>4
      <3> QED
        BY <1>4, <2>1, <3>1
    <2>3. \A x : x \in {stack'[i].line : i \in Unfinished'} <=>
                     x \in {stack[i].line : i \in Unfinished}
      BY <1>4, <1>5
    <2> QED
      BY <1>4, <1>5, <2>1, <2>2, <2>3
  <1> QED
    BY <1>1, <1>2, <1>6 DEF HandlersInService

\* In real mode the keyboard is in service, so only the line above it gets
\* through, to the BIOS, which may leave it in service.
LEMMA BiosService ==
    ASSUME Types, Installing, Served, HandlersInService, NEW l \in Lines, DeliverToBios(l)
    PROVE  HandlersInService' /\ (~stolen => l # Keyboard)
  <1>1. /\ RunningAt("real") /\ Deliverable(l)
        /\ stack' = stack /\ stolen' = stolen
        /\ (isr' = isr /\ lost' = lost) \/ (lost' = lost + 1 /\ isr' = InService(l))
    BY DEF DeliverToBios, InRealMode
  <1>2. Unfinished' = Unfinished /\ \A i \in Unfinished : stack'[i].line = stack[i].line
    BY <1>1 DEF Unfinished
  <1>3. 1 \in Unfinished /\ stack[1].line = Keyboard
    <2>1. 1 \in 1 .. Len(stack) /\ stack[1].step = "real"
      BY <1>1 DEF RunningAt, Top, Types
    <2> QED
      BY <2>1, LineFacts DEF Unfinished, Served
  <1>4. /\ l \in 0 .. 15 /\ l \notin isr /\ \A k \in isr : Rank(l) < Rank(k)
        /\ InService(l) = isr \cup {l} \cup (IF l \in Slave THEN {Cascade} ELSE {})
        /\ Cardinality(InService(l) \cap Master) = Cardinality(isr \cap Master) + 1
    BY <1>1, Delivered
  <1>5. ASSUME ~stolen PROVE l = 0 /\ l \notin Slave
    <2>1. Rank(l) < Rank(Keyboard)
      BY <1>3, <1>4, <1>5 DEF HandlersInService
    <2> QED
      BY <1>4, <2>1, LineFacts
  <1>6. Cardinality(Unfinished) \in Nat /\ Cardinality(isr \cap Master) \in Nat /\ lost \in Nat
    BY UnfinishedFinite DEF Types
  <1>7. CASE isr' = isr /\ lost' = lost
    <2>1. HandlersInService'
      BY <1>1, <1>2, <1>7, SameService
    <2> QED
      BY <1>5, <2>1, LineFacts
  <1>8. CASE lost' = lost + 1 /\ isr' = InService(l)
    <2>1. ASSUME ~stolen
          PROVE  /\ isr' = isr \cup {l} /\ isr' \cap Slave = isr \cap Slave
                 /\ Cardinality(isr' \cap Master) = lost' + Cardinality(Unfinished)
                 /\ lost' # 0
      BY <1>4, <1>5, <1>6, <1>8, <2>1 DEF HandlersInService
    <2>2. HandlersInService'
      BY <1>1, <1>2, <2>1 DEF HandlersInService
    <2> QED
      BY <1>5, <2>2, LineFacts
  <1> QED
    BY <1>1, <1>7, <1>8

\* The end of interrupt of the innermost handler ends a line that none of the
\* others serves, and its own one when the BIOS has left none in service.
LEMMA EoiService ==
    ASSUME Types, Served, HandlersInService, SendEoi
    PROVE  HandlersInService'
  <1> DEFINE l == stack[1].line
             m == Min(isr \cap Master)
  <1>1. /\ RunningAt("eoi") /\ Goto("iret")
        /\ isr' = pic_send_eoi(stack[1].irq) /\ lost' = lost
        /\ stolen' = (stolen \/ (l = NoLine /\ isr' # isr))
    BY DEF SendEoi, Top
  <1>2. /\ 1 \in 1 .. Len(stack) /\ stack[1].step = "eoi" /\ stack[1] \in Handlers
        /\ \A i \in 1 .. Len(stack) : stack'[i].line = stack[i].line
        /\ Unfinished' = Unfinished \ {1}
    BY <1>1, Went DEF Steps, Top
  <1>3. Len(stack) \in Nat /\ Unfinished \subseteq 1 .. Len(stack) /\ IsFiniteSet(Unfinished)
        /\ Cardinality(Unfinished) \in Nat /\ IsFiniteSet(isr \cap Master)
        /\ Cardinality(isr \cap Master) \in Nat /\ lost \in Nat
    BY UnfinishedFinite DEF Types
  <1>0. stolen \in BOOLEAN
    BY DEF Types
  <1>4. CASE l = NoLine
    <2>1. Unfinished' = Unfinished
      BY <1>2, <1>4 DEF Unfinished
    <2>2. ~stolen' => isr' = isr /\ stolen' = stolen
      BY <1>1, <1>4, <1>0
    <2>3. \A i \in Unfinished : stack'[i].line = stack[i].line
      BY <1>2, <1>3
    <2>4. CASE stolen'
      BY <2>4 DEF HandlersInService
    <2>5. CASE ~stolen'
      BY <1>1, <2>1, <2>2, <2>3, <2>5, SameService
    <2> QED
      BY <2>4, <2>5
  <1>5. CASE l # NoLine
    <2>1. 1 \in Unfinished /\ l \in Lines /\ stack[1].irq = l
      BY <1>2, <1>5 DEF Unfinished, Handlers, Served
    <2>2. stolen' = stolen
      BY <1>1, <1>5, <1>0
    <2> SUFFICES ASSUME ~stolen PROVE HandlersInService'
      BY <2>2 DEF HandlersInService
    <2>3. /\ \A i \in Unfinished : stack[i].line \in isr
          /\ \A i, j \in Unfinished : i < j => Rank(stack[i].line) < Rank(stack[j].line)
          /\ \A s, t \in isr \cap Slave : s = t
          /\ \A s \in isr \cap Slave : Cascade \in isr /\ \E i \in Unfinished : stack[i].line = s
          /\ Cardinality(isr \cap Master) = lost + Cardinality(Unfinished)
          /\ lost = 0 =>
                /\ isr \ {Cascade} = {stack[i].line : i \in Unfinished}
                /\ Cascade \in isr => isr \cap Slave # {}
      BY DEF HandlersInService
    <2>4. l \in 0 .. 15 /\ l # Cascade /\ isr \subseteq 0 .. 15
          /\ \A i \in Unfinished : stack[i].line \in 0 .. 15
      <3>1. isr \subseteq Lines \cup {Cascade} /\ Cascade \in 0 .. 15
        BY LineFacts DEF Types
      <3>2. isr \subseteq 0 .. 15
        BY <3>1, LineFacts, Zenon
      <3> QED
        BY <2>1, <2>3, <3>2, LineFacts
    <2>5. \A j \in Unfinished \ {1} : Rank(l) < Rank(stack[j].line)
      <3>1. \A j \in Unfinished \ {1} : 1 < j
        BY <1>3
      <3> QED
        BY <2>1, <2>3, <3>1
    <2>6. l \in isr /\ (l \in Slave => Cascade \in isr /\ isr \cap Slave = {l})
      BY <2>1, <2>3
    <2>7. m \in isr /\ m <= 7 /\ (\A k \in isr : k <= 7 => m <= k)
      <3>1. isr \cap Master \in SUBSET Nat
        <4>1. 0 .. 15 \subseteq Nat
          OBVIOUS
        <4> QED
          BY <2>4, <4>1, Zenon
      <3>2. isr \cap Master # {}
        BY <2>4, <2>6, LineFacts
      <3> HIDE DEF m
      <3>3. m \in isr \cap Master /\ \A k \in isr \cap Master : m <= k
        BY <3>1, <3>2, MinExists DEF m
      <3>4. \A k \in isr : k \in Master <=> k <= 7
        BY <2>4, LineFacts
      <3> QED
        BY <3>3, <3>4
    <2>8. isr' = isr \ (IF l \in Slave THEN {l, m} ELSE {m})
      <3>1. Highest(isr \cap Master) = {m}
        BY <2>4, <2>7, LineFacts DEF Highest
      <3>2. l \in Slave => Highest(isr \cap Slave) = {l}
        <4>1. l \in Slave => isr \cap Slave \in SUBSET Nat /\ isr \cap Slave # {}
          BY <2>4, <2>6
        <4>2. l \in Slave => Min(isr \cap Slave) \in isr \cap Slave
          BY <4>1, MinExists
        <4> QED
          BY <2>6, <4>2 DEF Highest
      <3> QED
        BY <1>1, <2>1, <3>1, <3>2 DEF pic_send_eoi
    <2> HIDE DEF l, m
    <2>9. m \in Master /\ m \in 0 .. 15
          /\ IF l \in Slave THEN m <= Cascade ELSE m <= l
      BY <2>4, <2>6, <2>7, LineFacts
    <2>10. \A j \in Unfinished \ {1} : stack[j].line # l /\ stack[j].line # m
      BY <2>4, <2>5, <2>9, LineFacts
    <2>11. \A i \in Unfinished' : stack'[i].line \in isr'
      BY <1>2, <1>3, <2>3, <2>8, <2>10
    <2>12. \A i, j \in Unfinished' : i < j => Rank(stack'[i].line) < Rank(stack'[j].line)
      BY <1>2, <1>3, <2>3
    <2>13. \A s, t \in isr' \cap Slave : s = t
      BY <2>3, <2>8
    <2>14. ASSUME NEW s \in isr' \cap Slave
           PROVE  Cascade \in isr' /\ \E i \in Unfinished' : stack'[i].line = s
      <3>1. s \in isr \cap Slave /\ s # l /\ l \notin Slave
        BY <2>3, <2>6, <2>8
      <3>2. PICK i \in Unfinished : stack[i].line = s
        BY <2>3, <3>1
      <3>3. i # 1
        BY <3>1, <3>2 DEF l
      <3>4. Rank(l) < Rank(s)
        BY <2>5, <3>2, <3>3
      <3>5. m # Cascade
        BY <2>4, <2>9, <3>1, <3>4, LineFacts
      <3>6. Cascade \in isr'
        BY <2>3, <2>8, <3>1, <3>5
      <3> QED
        BY <1>2, <1>3, <3>2, <3>3, <3>6
    <2>15. Cardinality(isr' \cap Master) = lost' + Cardinality(Unfinished')
      <3>1. isr' \cap Master = (isr \cap Master) \ {m}
        BY <2>4, <2>8, LineFacts
      <3>2. Cardinality(isr' \cap Master) = Cardinality(isr \cap Master) - 1
        BY <1>3, <2>7, <2>9, <3>1, FS_RemoveElement
      <3>3. Cardinality(Unfinished') = Cardinality(Unfinished) - 1
        BY <1>2, <1>3, <2>1, FS_RemoveElement
      <3> QED
        BY <1>1, <1>3, <2>3, <3>2, <3>3
    <2>16. ASSUME lost' = 0
           PROVE  /\ isr' \ {Cascade} = {stack'[i].line : i \in Unfinished'}
                  /\ Cascade \in isr' => isr' \cap Slave # {}
      <3>1. /\ isr \ {Cascade} = {stack[i].line : i \in Unfinished}
            /\ Cascade \in isr => isr \cap Slave # {}
        BY <1>1, <2>3, <2>16
      <3>2. \A k \in isr \ {Cascade} : k = l \/ Rank(l) < Rank(k)
        BY <2>5, <3>1 DEF l
      <3>3. CASE l \in Slave
        <4>1. m = Cascade
          BY <2>4, <2>7, <2>9, <3>2, <3>3, LineFacts
        <4>2. isr' = isr \ {l, Cascade} /\ Cascade \notin isr'
          BY <2>8, <3>3, <4>1
        <4>3. \A x : x \in {stack'[i].line : i \in Unfinished'} <=>
                         x \in {stack[i].line : i \in Unfinished} \ {l}
          BY <1>2, <1>3, <2>10 DEF l
        <4> QED
          BY <3>1, <4>2, <4>3
      <3>4. CASE l \notin Slave
        <4>1. ASSUME Cascade \in isr PROVE l < Cascade
          <5>1. PICK s \in isr \cap Slave : TRUE
            BY <3>1, <4>1
          <5>2. Rank(l) < Rank(s)
            BY <2>4, <3>2, <3>4, <5>1, LineFacts
          <5>3. s \in 0 .. 15 /\ s >= 8 /\ l <= 7
            BY <2>4, <3>4, <5>1, LineFacts
          <5>4. 8 * l < s + 8
            BY <2>4, <5>2, <5>3, LineFacts
          <5> QED
            BY <2>4, <5>3, <5>4, LineFacts
        <4>2. m = l
          BY <2>4, <2>7, <2>9, <3>2, <3>4, <4>1, LineFacts
        <4>3. isr' = isr \ {l}
          BY <2>8, <3>4, <4>2
        <4>4. \A x : x \in {stack'[i].line : i \in Unfinished'} <=>
                         x \in {stack[i].line : i \in Unfinished} \ {l}
          BY <1>2, <1>3, <2>10 DEF l
        <4>5. isr' \ {Cascade} = {stack'[i].line : i \in Unfinished'}
          BY <3>1, <4>3, <4>4
        <4>6. Cascade \in isr' => isr' \cap Slave # {}
          BY <3>1, <3>4, <4>3
        <4> QED
          BY <4>5, <4>6
      <3> QED
        BY <3>3, <3>4
    <2> QED
      BY <2>11, <2>12, <2>13, <2>14, <2>15, <2>16 DEF HandlersInService
  <1> QED
    BY <1>4, <1>5

-----------------------------------------------------------------------------
(***************************************************************************)
(* The steps of kernel_main.                                               *)
(***************************************************************************)
\* Each step of enable_a20_gate leaves the buffers as the next one expects.
LEMMA A20Buffers ==
    ASSUME Types, Quiet, Buffers, Words, A20Step
    PROVE  /\ Buffers' /\ Words'
           /\ at = 0 /\ step' \in A20Steps /\ tried' \in 0 .. 2
           /\ obuf' \in {"none", "scan", "port"}
           /\ ibuf' \in {"none"} \cup Commands \cup DataBytes
           /\ cmd' \in {"none"} \cup DataBytes /\ gate' \in BOOLEAN
  <1>1. /\ step \in A20Steps /\ tried \in 0 .. 2 /\ obuf \in {"none", "scan", "port"}
        /\ ibuf \in {"none"} \cup Commands \cup DataBytes
        /\ cmd \in {"none"} \cup DataBytes /\ gate \in BOOLEAN
    BY DEF Types
  <1>2. at' = at /\ ~reset
    BY DEF A20Step, picVars
  <1>3. CASE test_a20
    <2>1. /\ step = "test" /\ step' \in {"done", "AD", "fast"} /\ tried' \in 0 .. 2
          /\ step' = "done" \/ (~TestResult /\ tried' \in 1 .. 2)
      BY <1>1, <1>3 DEF test_a20, Report
    <2>2. UNCHANGED <<cmd, ibuf, obuf, gate, reset, early>>
      BY <1>3 DEF test_a20, NoPort, kbcVars
    <2>3. word = [high |-> "kept", low |-> "kept"]
      BY <2>1 DEF Words
    <2>4. ~TestResult => ~gate
      BY <2>3 DEF TestResult, TestWords, Stored, Cell
    <2>5. ~gate => WordsAfterTest = word
      BY <2>3 DEF WordsAfterTest, TestWords, Stored, Cell
    <2>6. Words'
      BY <1>3, <2>1, <2>3, <2>4, <2>5 DEF Words, test_a20
    <2>7. Buffers' /\ at = 0
      BY <1>2, <2>1, <2>2 DEF Buffers, Quiet
    <2> QED
      BY <1>1, <2>1, <2>2, <2>6, <2>7 DEF A20Steps
  <1>4. CASE enable_a20_fast
    <2>1. step = "fast" /\ step' = "test" /\ gate' \in {gate, TRUE}
          /\ UNCHANGED <<tried, word, cmd, ibuf, obuf, reset, early>>
      BY <1>4 DEF enable_a20_fast, GoOn
    <2>2. Buffers' /\ at = 0 /\ Words'
      BY <1>2, <2>1 DEF Buffers, Quiet, Words
    <2> QED
      BY <1>1, <2>1, <2>2 DEF A20Steps
  <1>5. CASE enable_a20_keyboard
    <2>1. UNCHANGED <<tried, word, gate, reset, early>>
      BY <1>5 DEF enable_a20_keyboard, SendCommand, AwaitOutput, ReadOutput, AwaitInput,
                  WriteCmd, OnlyIbuf, GoOn, NoPort, kbcVars
    <2>2. CASE SendCommand("AD", "D0")
      <3>1. step = "AD" /\ step' = "D0" /\ ibuf' = "AD" /\ UNCHANGED <<obuf, cmd>>
        BY <2>2 DEF SendCommand, OnlyIbuf, GoOn
      <3> QED
        BY <1>1, <1>2, <2>1, <3>1 DEF Buffers, Quiet, Words, A20Steps, Commands
    <2>3. CASE SendCommand("D0", "full")
      <3>1. step = "D0" /\ step' = "full" /\ ibuf' = "D0" /\ UNCHANGED <<obuf, cmd>>
        BY <2>3 DEF SendCommand, OnlyIbuf, GoOn
      <3> QED
        BY <1>1, <1>2, <2>1, <3>1 DEF Buffers, Quiet, Words, A20Steps, Commands
    <2>4. CASE AwaitOutput
      <3>1. step = "full" /\ step' = "read" /\ obuf # "none" /\ UNCHANGED <<ibuf, obuf, cmd>>
        BY <2>4 DEF AwaitOutput, OutputFull, GoOn, NoPort, kbcVars
      <3> QED
        BY <1>1, <1>2, <2>1, <3>1 DEF Buffers, Quiet, Words, A20Steps
    <2>5. CASE ReadOutput
      <3>1. step = "read" /\ step' = "D1" /\ obuf' = "none" /\ UNCHANGED ibuf
            /\ cmd' \in (IF obuf = "scan" THEN {"odd", "even"} ELSE {"port"})
        BY <2>5 DEF ReadOutput, CmdBytes, GoOn
      <3>2. at = 0
        BY <3>1 DEF Quiet
      <3> QED
        BY <1>1, <1>2, <2>1, <3>1, <3>2 DEF Buffers, Words, A20Steps, DataBytes
    <2>6. CASE SendCommand("D1", "empty")
      <3>1. step = "D1" /\ step' = "empty" /\ ibuf' = "D1" /\ UNCHANGED <<obuf, cmd>>
        BY <2>6 DEF SendCommand, OnlyIbuf, GoOn
      <3> QED
        BY <1>1, <1>2, <2>1, <3>1 DEF Buffers, Quiet, Words, A20Steps, Commands
    <2>7. CASE AwaitInput("empty", "cmd")
      <3>1. step = "empty" /\ step' = "cmd" /\ ibuf = "none" /\ UNCHANGED <<ibuf, obuf, cmd>>
        BY <2>7 DEF AwaitInput, InputTaken, GoOn, NoPort, kbcVars
      <3> QED
        BY <1>1, <1>2, <2>1, <3>1 DEF Buffers, Quiet, Words, A20Steps
    <2>8. CASE WriteCmd
      <3>1. step = "cmd" /\ step' = "AE" /\ ibuf' = cmd /\ cmd' = "none" /\ UNCHANGED obuf
        BY <2>8 DEF WriteCmd, OnlyIbuf, GoOn
      <3> QED
        BY <1>1, <1>2, <2>1, <3>1 DEF Buffers, Quiet, Words, A20Steps
    <2>9. CASE SendCommand("AE", "drain")
      <3>1. step = "AE" /\ step' = "drain" /\ ibuf' = "AE" /\ UNCHANGED <<obuf, cmd>>
        BY <2>9 DEF SendCommand, OnlyIbuf, GoOn
      <3> QED
        BY <1>1, <1>2, <2>1, <3>1 DEF Buffers, Quiet, Words, A20Steps, Commands
    <2>10. CASE AwaitInput("drain", "test")
      <3>1. step = "drain" /\ step' = "test" /\ ibuf = "none" /\ UNCHANGED <<ibuf, obuf, cmd>>
        BY <2>10 DEF AwaitInput, InputTaken, GoOn, NoPort, kbcVars
      <3> QED
        BY <1>1, <1>2, <2>1, <3>1 DEF Buffers, Quiet, Words, A20Steps
    <2> QED
      BY <1>5, <2>2, <2>3, <2>4, <2>5, <2>6, <2>7, <2>8, <2>9, <2>10 DEF enable_a20_keyboard
  <1> QED
    BY <1>3, <1>4, <1>5 DEF A20Step

\* A step that changes no register of irq_install, of the processor or of the
\* handlers keeps what is known of them.
LEMMA SameMachine ==
    ASSUME IInv, UNCHANGED <<isr, imr, pic, at, saved, gates, wanted, if_flag, stack, lost, stolen>>
    PROVE  /\ Installing' /\ Served' /\ HandlersInService'
           /\ (at # 14 => ~if_flag' /\ stack' = << >> /\ isr' = {} /\ lost' = 0)
  <1>1. Installing /\ Quiet /\ Served /\ HandlersInService
    BY DEF IInv
  <1>2. Unfinished' = Unfinished
    BY DEF Unfinished
  <1>3. HandlersInService'
    BY <1>1, <1>2, SameService
  <1>4. Installing'
    BY <1>1 DEF Installing
  <1> QED
    BY <1>1, <1>3, <1>4 DEF Served, Quiet

\* Opening the gate keeps the invariant, ...
LEMMA EnableA20Inv ==
    ASSUME IInv, EnableA20
    PROVE  IInv'
  <1>1. /\ Types /\ Quiet /\ Buffers /\ Words /\ Undeaf
    BY DEF IInv
  <1>2. /\ A20Step
        /\ UNCHANGED <<irr, isr, imr, pic, at, saved, gates, wanted, if_flag, stack, lost,
                       stolen, deaf>>
    BY DEF EnableA20, A20Step, picVars, irqVars
  <1>3. UNCHANGED early
    BY <1>2 DEF A20Step, test_a20, enable_a20_fast, enable_a20_keyboard, SendCommand, AwaitOutput,
                ReadOutput, AwaitInput, WriteCmd, OnlyIbuf, NoPort, kbcVars
  <1>4. /\ Buffers' /\ Words'
        /\ at = 0 /\ step' \in A20Steps /\ tried' \in 0 .. 2
        /\ obuf' \in {"none", "scan", "port"}
        /\ ibuf' \in {"none"} \cup Commands \cup DataBytes
        /\ cmd' \in {"none"} \cup DataBytes /\ gate' \in BOOLEAN
    BY <1>1, <1>2, A20Buffers
  <1>5. /\ Installing' /\ Served' /\ HandlersInService'
        /\ (at # 14 => ~if_flag' /\ stack' = << >> /\ isr' = {} /\ lost' = 0)
    BY <1>2, SameMachine
  <1>6. Types'
    BY <1>1, <1>2, <1>4 DEF Types
  <1>7. Quiet' /\ Undeaf'
    BY <1>1, <1>2, <1>3, <1>4, <1>5 DEF Quiet, Undeaf
  <1> QED
    BY <1>4, <1>5, <1>6, <1>7 DEF IInv

\* ... irq_install, ...
LEMMA InstallStepInv ==
    ASSUME IInv, Install
    PROVE  IInv'
  <1>1. /\ Types /\ Installing /\ Quiet /\ Buffers /\ Words /\ Served /\ HandlersInService /\ Undeaf
    BY DEF IInv
  <1>2. /\ step = "done" /\ InstallStep
        /\ deaf' = (deaf \/ (Remapping(at) /\ pic_remap[at] = Command(1) /\ obuf # "none"))
        /\ UNCHANGED <<ibuf, obuf, gate, reset, early, step, tried, cmd, word, if_flag, stack,
                       lost, stolen>>
    BY DEF Install, kbcVars, a20Vars
  <1>3. /\ Installing' /\ at \in 0 .. 13 /\ at' = at + 1
        /\ irr' \subseteq irr /\ isr' \subseteq isr
        /\ imr' \subseteq Master \cup Slave /\ wanted' \subseteq Master \cup Slave
        /\ pic' \in [1 .. 2 -> Chips]
    BY <1>1, <1>2, InstallInv
  <1>4. ~if_flag /\ stack = << >> /\ isr = {} /\ lost = 0
    BY <1>1, <1>3 DEF Quiet
  <1>5. isr' = isr
    BY <1>3, <1>4
  <1>6. HandlersInService'
    <2>1. Unfinished' = Unfinished
      BY <1>2 DEF Unfinished
    <2> QED
      BY <1>1, <1>2, <1>5, <2>1, SameService
  <1>7. Types'
    BY <1>1, <1>2, <1>3, <1>5 DEF Types
  <1>8. Quiet' /\ Words' /\ Served'
    BY <1>1, <1>2, <1>3, <1>4, <1>5 DEF Quiet, Words, Served
  <1>9. Buffers'
    <2>1. at' <= 1 => at <= 1
      BY <1>3
    <2> QED
      BY <1>1, <1>2, <2>1 DEF Buffers
  <1>10. Undeaf'
    <2>1. Remapping(at) /\ pic_remap[at] = Command(1) => at = 1
      <3>1. at \in Int
        BY <1>3
      <3>2. Remapping(at) => at \in 1 .. 10
        BY <3>1, RemapSteps
      <3> QED
        BY <3>2, RemapSteps DEF Command, Data
    <2>2. ~early /\ at = 1 => obuf = "none"
      BY <1>1, <1>2 DEF Buffers
    <2> QED
      BY <1>1, <1>2, <2>1, <2>2 DEF Undeaf
  <1> QED
    BY <1>3, <1>6, <1>7, <1>8, <1>9, <1>10 DEF IInv

\* ... and sti.
LEMMA StartInv ==
    ASSUME IInv, StartInterrupts
    PROVE  IInv'
  <1>1. /\ Types /\ Installing /\ Quiet /\ Buffers /\ Words /\ Served /\ HandlersInService /\ Undeaf
    BY DEF IInv
  <1>2. /\ at = 14 /\ if_flag' = TRUE
        /\ UNCHANGED <<irr, isr, imr, pic, at, saved, gates, wanted, ibuf, obuf, gate, reset, early,
                       step, tried, cmd, word, stack, lost, stolen, deaf>>
    BY RemapSteps DEF StartInterrupts, EnableInterrupts, picVars, kbcVars, a20Vars
  <1>3. HandlersInService'
    <2>1. Unfinished' = Unfinished
      BY <1>2 DEF Unfinished
    <2> QED
      BY <1>1, <1>2, <2>1, SameService
  <1>4. Types'
    BY <1>1, <1>2 DEF Types
  <1>5. Installing' /\ Quiet' /\ Words' /\ Served' /\ Undeaf'
    BY <1>1, <1>2 DEF Installing, Quiet, Words, Served, Undeaf
  <1>6. Buffers'
    BY <1>1, <1>2 DEF Buffers
  <1> QED
    BY <1>3, <1>4, <1>5, <1>6 DEF IInv

-----------------------------------------------------------------------------
(***************************************************************************)
(* The keyboard and its controller.                                        *)
(***************************************************************************)
\* The controller's taking of a byte keeps the invariant: without an early key
\* the copy of the output port it is given keeps the reset line up.
LEMMA TakeByteInv ==
    ASSUME IInv, KeyboardController
    PROVE  IInv'
  <1>1. /\ Types /\ Quiet /\ Buffers /\ Words /\ Undeaf
    BY DEF IInv
  <1>2. /\ ibuf # "none" /\ ibuf' = "none"
        /\ obuf' = (IF ibuf = "D0" THEN "port" ELSE obuf)
        /\ irr' = (IF ibuf = "D0" THEN irr \cup {Keyboard} ELSE irr)
        /\ gate' \in {gate, TRUE}
        /\ reset' = reset \/ (ibuf \in DataBytes /\ reset' = (ibuf = "even"))
        /\ UNCHANGED early
    BY DEF KeyboardController, TakeByte, Raised, WriteOutputPort
  <1>3. UNCHANGED <<isr, imr, pic, at, saved, gates, wanted, if_flag, stack, lost, stolen, deaf,
                    step, tried, cmd, word>>
    BY DEF KeyboardController, bootVars, a20Vars, irqVars
  <1>4. /\ Installing' /\ Served' /\ HandlersInService'
        /\ (at # 14 => ~if_flag' /\ stack' = << >> /\ isr' = {} /\ lost' = 0)
    BY <1>3, SameMachine
  <1>5. Types'
    <2>1. irr' \subseteq Lines
      BY <1>1, <1>2, LineFacts DEF Types
    <2>2. obuf' \in {"none", "scan", "port"} /\ gate' \in BOOLEAN
      BY <1>1, <1>2 DEF Types
    <2> QED
      BY <1>1, <1>2, <1>3, <2>1, <2>2 DEF Types
  <1>6. Quiet' /\ Words' /\ Undeaf'
    BY <1>1, <1>2, <1>3, <1>4 DEF Quiet, Words, Undeaf
  <1>7. Buffers'
    <2> SUFFICES ASSUME ~early' PROVE Buffers'
      BY DEF Buffers
    <2>1. ~early /\ ~reset
      BY <1>1, <1>2 DEF Buffers
    <2>2. ibuf \in {"AD", "D0", "D1", "port", "AE"} /\ (ibuf = "D0" <=> step = "full")
      <3>1. CASE step = "full"
        BY <1>1, <1>2, <2>1, <3>1 DEF Buffers
      <3>2. CASE step # "full"
        BY <1>1, <1>2, <2>1, <3>2 DEF Buffers
      <3> QED
        BY <3>1, <3>2
    <2>3. ~reset'
      BY <1>2, <2>1, <2>2
    <2>4. CASE step = "full"
      BY <1>1, <1>2, <1>3, <2>1, <2>2, <2>3, <2>4 DEF Buffers
    <2>5. CASE step # "full"
      <3>1. obuf' = obuf
        BY <1>2, <2>2, <2>5
      <3> QED
        BY <1>1, <1>2, <1>3, <2>1, <2>3, <2>5, <3>1 DEF Buffers
    <2> QED
      BY <2>4, <2>5
  <1> QED
    BY <1>4, <1>5, <1>6, <1>7 DEF IInv

\* So does a key.
LEMMA KeyInv ==
    ASSUME IInv, Key
    PROVE  IInv'
  <1>1. /\ Types /\ Quiet /\ Buffers /\ Words /\ Undeaf
    BY DEF IInv
  <1>2. /\ obuf' = "scan" /\ irr' = irr \cup {Keyboard}
        /\ early' = (early \/ at <= 1)
        /\ UNCHANGED <<ibuf, gate, reset>>
    BY DEF Key, KeyPressed, Raised
  <1>3. UNCHANGED <<isr, imr, pic, at, saved, gates, wanted, if_flag, stack, lost, stolen, deaf,
                    step, tried, cmd, word>>
    BY DEF Key, bootVars, a20Vars, irqVars
  <1>4. /\ Installing' /\ Served' /\ HandlersInService'
        /\ (at # 14 => ~if_flag' /\ stack' = << >> /\ isr' = {} /\ lost' = 0)
    BY <1>3, SameMachine
  <1>5. Types'
    <2>1. irr' \subseteq Lines
      BY <1>1, <1>2, LineFacts DEF Types
    <2> QED
      BY <1>1, <1>2, <1>3, <2>1 DEF Types
  <1>6. Quiet' /\ Words' /\ Undeaf'
    BY <1>1, <1>2, <1>3, <1>4 DEF Quiet, Words, Undeaf
  <1>7. Buffers'
    <2>1. ~early' => ~early /\ ~(at <= 1) /\ step = "done"
      <3>1. at \in 0 .. 14
        BY <1>1 DEF Types
      <3>2. CASE early \/ at <= 1
        BY <1>2, <3>2
      <3>3. CASE ~early /\ ~(at <= 1)
        <4>1. at # 0
          BY <3>1, <3>3
        <4>2. step = "done"
          BY <1>1, <4>1 DEF Quiet
        <4> QED
          BY <3>3, <4>2
      <3> QED
        BY <3>2, <3>3
    <2> QED
      BY <1>1, <1>2, <1>3, <2>1 DEF Buffers
  <1> QED
    BY <1>4, <1>5, <1>6, <1>7 DEF IInv

-----------------------------------------------------------------------------
(***************************************************************************)
(* Interrupts.                                                             *)
(***************************************************************************)
\* Interrupts are on, or a handler runs, only once irq_install is done.
LEMMA Running ==
    ASSUME Quiet, if_flag \/ stack # << >>
    PROVE  at = 14 /\ step = "done"
  BY DEF Quiet

\* Without an early key the buffers do not matter after the boot.
LEMMA BuffersAfter ==
    ASSUME Quiet, Buffers, at = 14, UNCHANGED <<at, ibuf, cmd, step, reset, early>>
    PROVE  Buffers'
  <1>1. step = "done" /\ ~(at <= 1)
    BY DEF Quiet
  <1> QED
    BY <1>1 DEF Buffers

\* A device's request changes what is pending only.
LEMMA RequestInv ==
    ASSUME IInv, NEW l \in Lines, Request(l), UNCHANGED a20Vars
    PROVE  IInv'
  <1>1. /\ Types /\ Quiet /\ Buffers /\ Words /\ Undeaf
    BY DEF IInv
  <1>2. /\ irr' = irr \cup {l}
        /\ UNCHANGED <<isr, imr, pic, at, saved, gates, wanted, if_flag, stack, lost, stolen, deaf,
                       step, tried, cmd, word, ibuf, obuf, gate, reset, early>>
    BY DEF Request, Raised, bootVars, kbcVars, irqVars, a20Vars
  <1>3. /\ Installing' /\ Served' /\ HandlersInService'
        /\ (at # 14 => ~if_flag' /\ stack' = << >> /\ isr' = {} /\ lost' = 0)
    BY <1>2, SameMachine
  <1>4. Types'
    <2>1. irr' \subseteq Lines
      BY <1>1, <1>2 DEF Types
    <2> QED
      BY <1>1, <1>2, <2>1 DEF Types
  <1>5. Quiet' /\ Words' /\ Undeaf'
    BY <1>1, <1>2, <1>3 DEF Quiet, Words, Undeaf
  <1>6. Buffers'
    BY <1>1, <1>2 DEF Buffers
  <1> QED
    BY <1>3, <1>4, <1>5, <1>6 DEF IInv

\* A line that is served by its handler.
LEMMA DeliverInv ==
    ASSUME IInv, NEW l \in Lines, Deliver(l), UNCHANGED a20Vars
    PROVE  IInv'
  <1> DEFINE h == [irq |-> StubNumber(Vector(l)) - 32, line |-> l, step |-> "body", flag |-> if_flag]
  <1>1. /\ Types /\ Installing /\ Quiet /\ Buffers /\ Words /\ Served /\ HandlersInService /\ Undeaf
    BY DEF IInv
  <1>2. /\ stack' = <<h>> \o stack /\ Len(stack) < MaxDepth
        /\ isr' = InService(l) /\ if_flag /\ Deliverable(l)
        /\ if_flag' = FALSE /\ irr' = irr \ {l}
        /\ UNCHANGED <<imr, pic, at, saved, gates, wanted, lost, stolen, deaf,
                       step, tried, cmd, word, ibuf, obuf, gate, reset, early>>
    BY DEF Deliver, Entered, bootVars, kbcVars, a20Vars
  <1>3. at = 14 /\ step = "done" /\ l \in 0 .. 15 /\ l # NoLine
    BY <1>1, <1>2, Running, LineFacts
  <1>4. h \in Handlers /\ h.line = l /\ h.step = "body" /\ h.irq = l
    <2>1. if_flag \in BOOLEAN
      BY <1>1 DEF Types
    <2> QED
      BY <1>1, <1>3, <2>1, Numbers DEF Handlers, Steps
  <1> HIDE DEF h
  <1>5. /\ stack' \in Seq(Handlers) /\ Len(stack') = Len(stack) + 1 /\ Len(stack') <= MaxDepth
        /\ stack'[1] = h
        /\ \A i \in 2 .. Len(stack') : i - 1 \in 1 .. Len(stack) /\ stack'[i] = stack[i - 1]
    BY <1>1, <1>2, <1>4, Pushed
  <1>6. isr' \subseteq Lines \cup {Cascade}
    <2>1. isr' = isr \cup {l} \cup (IF l \in Slave THEN {Cascade} ELSE {})
      BY <1>1, <1>2, Delivered
    <2> QED
      BY <1>1, <2>1 DEF Types
  <1>7. Types'
    <2>1. irr' \subseteq Lines
      BY <1>1, <1>2 DEF Types
    <2> QED
      BY <1>1, <1>2, <1>5, <1>6, <2>1 DEF Types
  <1>8. Served'
    <2> SUFFICES ASSUME NEW i \in 1 .. Len(stack')
                 PROVE  /\ stack'[i].irq = IF stack'[i].line = NoLine THEN 7 ELSE stack'[i].line
                        /\ stack'[i].step \in {"real", "draw"} => stack'[i].line = Keyboard
      BY DEF Served
    <2>1. CASE i = 1
      BY <1>3, <1>4, <1>5, <2>1
    <2>2. CASE i # 1
      <3>1. i - 1 \in 1 .. Len(stack) /\ stack'[i] = stack[i - 1]
        <4>1. i \in 2 .. Len(stack')
          BY <1>5, <2>2
        <4> QED
          BY <1>5, <4>1
      <3> QED
        BY <1>1, <3>1 DEF Served
    <2> QED
      BY <2>1, <2>2
  <1>9. HandlersInService'
    BY <1>1, DeliverService
  <1>10. Installing' /\ Quiet' /\ Words' /\ Undeaf'
    BY <1>1, <1>2, <1>3 DEF Installing, Quiet, Words, Undeaf
  <1>11. Buffers'
    BY <1>1, <1>2, <1>3, BuffersAfter
  <1> QED
    BY <1>7, <1>8, <1>9, <1>10, <1>11 DEF IInv

\* A request that is withdrawn.
LEMMA SpuriousInv ==
    ASSUME IInv, NEW l \in Lines, Spurious(l), UNCHANGED a20Vars
    PROVE  IInv'
  <1> DEFINE h == [irq |-> StubNumber(pic[1].base + 7) - 32, line |-> NoLine, step |-> "body",
                   flag |-> if_flag]
  <1>1. /\ Types /\ Installing /\ Quiet /\ Buffers /\ Words /\ Served /\ HandlersInService /\ Undeaf
    BY DEF IInv
  <1>2. /\ stack' = <<h>> \o stack /\ Len(stack) < MaxDepth
        /\ if_flag
        /\ if_flag' = FALSE /\ irr' = irr \ {l}
        /\ UNCHANGED <<isr, imr, pic, at, saved, gates, wanted, lost, stolen, deaf,
                       step, tried, cmd, word, ibuf, obuf, gate, reset, early>>
    BY DEF Spurious, Entered, bootVars, kbcVars, a20Vars
  <1>3. at = 14 /\ step = "done"
    BY <1>1, <1>2, Running
  <1>4. h \in Handlers /\ h.line = NoLine /\ h.step = "body" /\ h.irq = 7
    <2>1. if_flag \in BOOLEAN
      BY <1>1 DEF Types
    <2> QED
      BY <1>1, <1>3, <2>1, Numbers DEF Handlers, Steps
  <1> HIDE DEF h
  <1>5. /\ stack' \in Seq(Handlers) /\ Len(stack') = Len(stack) + 1 /\ Len(stack') <= MaxDepth
        /\ stack'[1] = h
        /\ \A i \in 2 .. Len(stack') : i - 1 \in 1 .. Len(stack) /\ stack'[i] = stack[i - 1]
    BY <1>1, <1>2, <1>4, Pushed
  <1>6. Types'
    <2>1. irr' \subseteq Lines
      BY <1>1, <1>2 DEF Types
    <2> QED
      BY <1>1, <1>2, <1>5, <2>1 DEF Types
  <1>7. Served'
    <2> SUFFICES ASSUME NEW i \in 1 .. Len(stack')
                 PROVE  /\ stack'[i].irq = IF stack'[i].line = NoLine THEN 7 ELSE stack'[i].line
                        /\ stack'[i].step \in {"real", "draw"} => stack'[i].line = Keyboard
      BY DEF Served
    <2>1. CASE i = 1
      BY <1>3, <1>4, <1>5, <2>1
    <2>2. CASE i # 1
      <3>1. i - 1 \in 1 .. Len(stack) /\ stack'[i] = stack[i - 1]
        <4>1. i \in 2 .. Len(stack')
          BY <1>5, <2>2
        <4> QED
          BY <1>5, <4>1
      <3> QED
        BY <1>1, <3>1 DEF Served
    <2> QED
      BY <2>1, <2>2
  <1>8. HandlersInService'
    BY <1>1, SpuriousService
  <1>9. Installing' /\ Quiet' /\ Words' /\ Undeaf'
    BY <1>1, <1>2, <1>3 DEF Installing, Quiet, Words, Undeaf
  <1>10. Buffers'
    BY <1>1, <1>2, <1>3, BuffersAfter
  <1> QED
    BY <1>6, <1>7, <1>8, <1>9, <1>10 DEF IInv

\* An interrupt during the excursion to real mode: without a stolen EOI it is
\* not the keyboard's.
LEMMA BiosInv ==
    ASSUME IInv, NEW l \in Lines, DeliverToBios(l), UNCHANGED a20Vars
    PROVE  IInv'
  <1>1. /\ Types /\ Installing /\ Quiet /\ Buffers /\ Words /\ Served /\ HandlersInService /\ Undeaf
    BY DEF IInv
  <1>2. /\ if_flag /\ Deliverable(l) /\ irr' = irr \ {l}
        /\ deaf' = (deaf \/ l = Keyboard)
        /\ (isr' = isr /\ lost' = lost) \/ (lost' = lost + 1 /\ isr' = InService(l))
        /\ UNCHANGED <<imr, pic, at, saved, gates, wanted, stolen, if_flag, stack,
                       step, tried, cmd, word, ibuf, obuf, gate, reset, early>>
    BY DEF DeliverToBios, bootVars, kbcVars, a20Vars
  <1>3. at = 14 /\ step = "done"
    BY <1>1, <1>2, Running
  <1>4. HandlersInService' /\ (~stolen => l # Keyboard)
    BY <1>1, BiosService
  <1>5. isr' \subseteq Lines \cup {Cascade} /\ lost' \in Nat
    <2>1. InService(l) = isr \cup {l} \cup (IF l \in Slave THEN {Cascade} ELSE {})
      BY <1>1, <1>2, Delivered
    <2>2. isr \subseteq Lines \cup {Cascade} /\ lost \in Nat
      BY <1>1 DEF Types
    <2> QED
      BY <1>2, <2>1, <2>2
  <1>6. Types'
    <2>1. irr' \subseteq Lines
      BY <1>1, <1>2 DEF Types
    <2> QED
      BY <1>1, <1>2, <1>5, <2>1 DEF Types
  <1>7. Installing' /\ Quiet' /\ Words' /\ Served'
    BY <1>1, <1>2, <1>3 DEF Installing, Quiet, Words, Served
  <1>8. Undeaf'
    BY <1>1, <1>2, <1>4 DEF Undeaf
  <1>9. Buffers'
    BY <1>1, <1>2, <1>3, BuffersAfter
  <1> QED
    BY <1>4, <1>6, <1>7, <1>8, <1>9 DEF IInv

-----------------------------------------------------------------------------
(***************************************************************************)
(* The steps of a handler.                                                 *)
(***************************************************************************)
\* A step of the innermost handler keeps the invariant, if it keeps what is
\* known of the lines in service.
LEMMA HandlerInv ==
    ASSUME IInv, NEW s \in Steps, RunningAt(s), s # "iret", NEW t \in Steps, Goto(t),
           t \in {"real", "draw"} => Top.line = Keyboard,
           HandlersInService', isr' \subseteq isr,
           if_flag' \in BOOLEAN, stolen' \in BOOLEAN, stolen => stolen',
           obuf' \in {"none", "scan", "port"},
           UNCHANGED <<irr, imr, pic, at, saved, gates, wanted, ibuf, gate, reset, early,
                       step, tried, cmd, word, lost, deaf>>
    PROVE  IInv'
  <1>1. /\ Types /\ Installing /\ Quiet /\ Buffers /\ Words /\ Served /\ Undeaf
    BY DEF IInv
  <1>2. /\ stack' \in Seq(Handlers) /\ Len(stack') = Len(stack) /\ 1 \in 1 .. Len(stack)
        /\ \A i \in 1 .. Len(stack) :
              /\ stack'[i].irq = stack[i].irq /\ stack'[i].line = stack[i].line
              /\ stack'[i].step = IF i = 1 THEN t ELSE stack[i].step
    BY <1>1, Went
  <1>3. at = 14 /\ step = "done"
    BY <1>1, Running DEF RunningAt
  <1>4. Types'
    <2>1. isr' \subseteq Lines \cup {Cascade} /\ Len(stack') <= MaxDepth
      BY <1>1, <1>2 DEF Types
    <2> QED
      BY <1>1, <1>2, <2>1 DEF Types
  <1>5. Served'
    BY <1>1, <1>2 DEF Served, Top
  <1>6. Installing' /\ Quiet' /\ Words'
    BY <1>1, <1>3 DEF Installing, Quiet, Words
  <1>7. Undeaf'
    BY <1>1 DEF Undeaf
  <1>8. Buffers'
    BY <1>1, <1>3, BuffersAfter
  <1> QED
    BY <1>4, <1>5, <1>6, <1>7, <1>8 DEF IInv

\* A step before the EOI changes nothing in service.
LEMMA BeforeEoi ==
    ASSUME Types, HandlersInService, NEW s \in Steps, RunningAt(s), s # "iret",
           NEW t \in Steps, Goto(t), t # "iret", UNCHANGED <<isr, lost, stolen>>
    PROVE  HandlersInService'
  <1>1. Unfinished' = Unfinished /\ Unfinished \subseteq 1 .. Len(stack)
        /\ \A i \in 1 .. Len(stack) : stack'[i].line = stack[i].line
    BY Went, UnfinishedFinite
  <1> QED
    BY <1>1, SameService

\* The keyboard's handler is only entered for the keyboard.
LEMMA KeyboardsHandler ==
    ASSUME Types, Served, stack # << >>, Top.irq = Keyboard
    PROVE  Top.line = Keyboard
  <1>1. 1 \in 1 .. Len(stack)
    BY DEF Types
  <1>2. stack[1].irq = IF stack[1].line = NoLine THEN 7 ELSE stack[1].line
    BY <1>1 DEF Served
  <1>3. stack[1].irq = 1
    BY LineFacts DEF Top
  <1> QED
    BY ONLY <1>2, <1>3, LineFacts DEF Top

\* Every step of a handler keeps the invariant.
LEMMA HandlerStepInv ==
    ASSUME IInv, Handler
    PROVE  IInv'
  <1>1. /\ Types /\ Installing /\ Quiet /\ Buffers /\ Words /\ Served /\ HandlersInService /\ Undeaf
    BY DEF IInv
  <1>2. UNCHANGED <<step, tried, cmd, word>>
    BY DEF Handler, a20Vars
  <1>3. if_flag \in BOOLEAN /\ stolen \in BOOLEAN /\ obuf \in {"none", "scan", "port"}
    BY <1>1 DEF Types
  <1>4. Steps = {"body", "real", "draw", "eoi", "iret"}
    BY DEF Steps
  <1>5. CASE Body
    <2>1. /\ RunningAt("body") /\ Goto("eoi") /\ obuf' \in {"none", obuf}
          /\ UNCHANGED <<irr, isr, imr, pic, at, saved, gates, wanted, ibuf, gate, reset, early,
                         if_flag, lost, stolen, deaf>>
      BY <1>5 DEF Body, ReadScanCode, picVars
    <2>2. HandlersInService'
      BY <1>1, <1>4, <2>1, BeforeEoi
    <2> QED
      BY <1>2, <1>3, <1>4, <2>1, <2>2, HandlerInv
  <1>6. CASE EnterRealMode
    <2>1. /\ RunningAt("body") /\ Top.irq = Keyboard /\ Goto("real") /\ obuf' \in {"none", obuf}
          /\ if_flag' = TRUE
          /\ UNCHANGED <<irr, isr, imr, pic, at, saved, gates, wanted, ibuf, gate, reset, early,
                         lost, stolen, deaf>>
      BY <1>6 DEF EnterRealMode, ReadScanCode, picVars
    <2>2. HandlersInService'
      BY <1>1, <1>4, <2>1, BeforeEoi
    <2>3. Top.line = Keyboard
      BY <1>1, <2>1, KeyboardsHandler DEF RunningAt
    <2> QED
      BY <1>2, <1>3, <1>4, <2>1, <2>2, <2>3, HandlerInv
  <1>7. CASE LeaveRealMode
    <2>1. /\ RunningAt("real") /\ Goto("draw") /\ if_flag' = TRUE
          /\ UNCHANGED <<irr, isr, imr, pic, at, saved, gates, wanted, ibuf, obuf, gate, reset,
                         early, lost, stolen, deaf>>
      BY <1>7 DEF LeaveRealMode, picVars, kbcVars
    <2>2. HandlersInService'
      BY <1>1, <1>4, <2>1, BeforeEoi
    <2>3. Top.line = Keyboard
      <3>1. 1 \in 1 .. Len(stack) /\ stack[1].step = "real"
        BY <1>1, <2>1 DEF RunningAt, Top, Types
      <3> QED
        BY <1>1, <3>1 DEF Served, Top
    <2> QED
      BY <1>2, <1>3, <1>4, <2>1, <2>2, <2>3, HandlerInv
  <1>8. CASE Draw
    <2>1. /\ RunningAt("draw") /\ Goto("eoi")
          /\ UNCHANGED <<irr, isr, imr, pic, at, saved, gates, wanted, ibuf, obuf, gate, reset,
                         early, if_flag, lost, stolen, deaf>>
      BY <1>8 DEF Draw, picVars, kbcVars
    <2>2. HandlersInService'
      BY <1>1, <1>4, <2>1, BeforeEoi
    <2> QED
      BY <1>2, <1>3, <1>4, <2>1, <2>2, HandlerInv
  <1>9. CASE SendEoi
    <2>1. /\ RunningAt("eoi") /\ Goto("iret") /\ isr' = pic_send_eoi(Top.irq)
          /\ stolen' = (stolen \/ (Top.line = NoLine /\ isr' # isr))
          /\ UNCHANGED <<irr, imr, pic, at, saved, gates, wanted, ibuf, obuf, gate, reset,
                         early, if_flag, lost, deaf>>
      BY <1>9 DEF SendEoi, bootVars, kbcVars
    <2>2. HandlersInService'
      BY <1>1, <1>9, EoiService
    <2>3. isr' \subseteq isr
      BY <2>1 DEF pic_send_eoi
    <2>4. stolen' \in BOOLEAN /\ (stolen => stolen')
      BY <2>1
    <2> QED
      BY <1>2, <1>3, <1>4, <2>1, <2>2, <2>3, <2>4, HandlerInv
  <1>10. CASE Iret
    <2>1. /\ RunningAt("iret") /\ stack' = Tail(stack) /\ if_flag' = Top.flag
          /\ UNCHANGED <<irr, isr, imr, pic, at, saved, gates, wanted, ibuf, obuf, gate, reset,
                         early, lost, stolen, deaf>>
      BY <1>10 DEF Iret, picVars, kbcVars
    <2>2. HandlersInService'
      BY <1>1, <1>10, IretService
    <2>3. /\ stack' \in Seq(Handlers) /\ Len(stack') <= MaxDepth
          /\ \A i \in 1 .. Len(stack') : i + 1 \in 1 .. Len(stack) /\ stack'[i] = stack[i + 1]
      BY <1>1, <2>1, Popped
    <2>4. if_flag' \in BOOLEAN
      <3>1. stack[1] \in Handlers
        BY <1>1, <2>1 DEF Types, RunningAt
      <3> QED
        BY <2>1, <3>1 DEF Handlers, Top
    <2>5. at = 14 /\ step = "done"
      BY <1>1, <2>1, Running DEF RunningAt
    <2>6. Types'
      BY <1>1, <1>2, <2>1, <2>3, <2>4 DEF Types
    <2>7. Served'
      BY <1>1, <2>3 DEF Served
    <2>8. Installing' /\ Quiet' /\ Words' /\ Undeaf'
      BY <1>1, <1>2, <2>1, <2>5 DEF Installing, Quiet, Words, Undeaf
    <2>9. Buffers'
      BY <1>1, <1>2, <2>1, <2>5, BuffersAfter
    <2> QED
      BY <2>2, <2>6, <2>7, <2>8, <2>9 DEF IInv
  <1> QED
    BY <1>5, <1>6, <1>7, <1>8, <1>9, <1>10 DEF Handler, HandlerStep

\* Masking a line changes the masks as it was asked.
LEMMA MaskingInv ==
    ASSUME IInv, Masking
    PROVE  IInv'
  <1>1. /\ Types /\ Installing /\ Quiet /\ Buffers /\ Words /\ Served /\ HandlersInService /\ Undeaf
    BY DEF IInv
  <1>2. PICK l \in MaskLines :
          /\ at = 14
          /\ \/ imr' = imr \cup {l} /\ wanted' = wanted \cup {l}
             \/ imr' = imr \ {l} /\ wanted' = wanted \ {l}
          /\ UNCHANGED <<irr, isr, pic, at, saved, gates, ibuf, obuf, gate, reset, early,
                         if_flag, stack, lost, stolen, deaf, step, tried, cmd, word>>
    BY RemapSteps DEF Masking, MaskLine, irq_set_mask, irq_clear_mask, kbcVars, irqVars, a20Vars
  <1>3. imr = wanted /\ imr \subseteq Master \cup Slave
    BY <1>1, <1>2 DEF Installing, Types
  <1>4. l \in Master \cup Slave
    BY BootAssumption, PicAssumption
  <1>5. imr' = wanted' /\ imr' \subseteq Master \cup Slave
    BY <1>2, <1>3, <1>4
  <1>6. Types'
    BY <1>1, <1>2, <1>5 DEF Types
  <1>7. Installing'
    BY <1>1, <1>2, <1>5 DEF Installing
  <1>8. HandlersInService'
    <2>1. Unfinished' = Unfinished
      BY <1>2 DEF Unfinished
    <2> QED
      BY <1>1, <1>2, <2>1, SameService
  <1>9. Quiet' /\ Words' /\ Served' /\ Undeaf'
    BY <1>1, <1>2 DEF Quiet, Words, Served, Undeaf
  <1>10. Buffers'
    BY <1>1, <1>2, BuffersAfter
  <1> QED
    BY <1>6, <1>7, <1>8, <1>9, <1>10 DEF IInv

\* Nothing of the machine changes in a stuttering step.
LEMMA StutterInv ==
    ASSUME IInv, UNCHANGED vars
    PROVE  IInv'
  <1>1. /\ Types /\ Installing /\ Quiet /\ Buffers /\ Words /\ Served /\ HandlersInService /\ Undeaf
    BY DEF IInv
  <1>2. UNCHANGED <<irr, isr, imr, pic, at, saved, gates, wanted, ibuf, obuf, gate, reset, early,
                    if_flag, stack, lost, stolen, deaf, step, tried, cmd, word>>
    BY DEF vars, picVars, kbcVars, a20Vars, irqVars
  <1>3. /\ Installing' /\ Served' /\ HandlersInService'
    BY <1>2, SameMachine
  <1>4. Types'
    BY <1>1, <1>2 DEF Types
  <1>5. Quiet' /\ Words' /\ Undeaf'
    BY <1>1, <1>2 DEF Quiet, Words, Undeaf
  <1>6. Buffers'
    BY <1>1, <1>2 DEF Buffers
  <1> QED
    BY <1>3, <1>4, <1>5, <1>6 DEF IInv

-----------------------------------------------------------------------------
(***************************************************************************)
(* The invariant, and the properties.                                      *)
(***************************************************************************)
\* The machine as the BIOS leaves it satisfies the invariant, ...
LEMMA InitInv ==
    ASSUME Init
    PROVE  IInv
  <1>1. /\ irr = {} /\ isr = {} /\ imr \in BiosMasks /\ wanted = imr /\ at = 0
        /\ pic = <<Registers(8, 4), Registers(112, 2)>> /\ gates = 0 .. 31
        /\ ibuf = "none" /\ obuf = "none" /\ gate \in BOOLEAN /\ reset = FALSE /\ early = FALSE
        /\ step = "test" /\ tried = 0 /\ cmd = "none" /\ word = [high |-> "kept", low |-> "kept"]
        /\ if_flag = FALSE /\ stack = << >> /\ lost = 0 /\ stolen = FALSE /\ deaf = FALSE
    BY DEF Init, PicInit, KbcInit, A20Init, IrqInit
  <1>2. imr \subseteq Master \cup Slave
    BY <1>1, PicAssumption
  <1>3. /\ pic[1] = [icw |-> 0, base |-> 8, cascade |-> 4, mode |-> 1]
        /\ pic[2] = [icw |-> 0, base |-> 112, cascade |-> 2, mode |-> 1]
        /\ pic \in [1 .. 2 -> Chips]
    <2>1. Registers(8, 4) \in Chips /\ Registers(112, 2) \in Chips
      BY DEF Registers, Chips
    <2> QED
      BY <1>1, <2>1 DEF Registers
  <1>4. MaxDepth \in Nat
    BY IrqAssumption
  <1>5. Types
    <2>1. stack \in Seq(Handlers) /\ Len(stack) <= MaxDepth
      BY <1>1, <1>4
    <2>2. /\ irr \subseteq Lines /\ isr \subseteq Lines \cup {Cascade}
          /\ imr \subseteq Master \cup Slave /\ wanted \subseteq Master \cup Slave
          /\ at \in 0 .. 14 /\ lost \in Nat /\ tried \in 0 .. 2
      BY <1>1, <1>2
    <2>3. /\ if_flag \in BOOLEAN /\ stolen \in BOOLEAN /\ gate \in BOOLEAN
          /\ obuf \in {"none", "scan", "port"} /\ ibuf \in {"none"} \cup Commands \cup DataBytes
          /\ cmd \in {"none"} \cup DataBytes /\ step \in A20Steps
      BY <1>1 DEF A20Steps
    <2> QED
      BY <1>3, <2>1, <2>2, <2>3 DEF Types
  <1>6. Installing
    BY <1>1, <1>3 DEF Installing
  <1>7. Quiet /\ Words /\ Undeaf
    BY <1>1 DEF Quiet, Words, Undeaf
  <1>8. Buffers
    BY <1>1 DEF Buffers
  <1>9. Served
    BY <1>1 DEF Served
  <1>10. HandlersInService
    <2>1. Unfinished = {} /\ isr \cap Slave = {} /\ isr \cap Master = {} /\ isr \ {Cascade} = {}
      BY <1>1 DEF Unfinished
    <2>2. Cardinality(Unfinished) = 0 /\ Cardinality(isr \cap Master) = 0
      BY <2>1, FS_EmptySet
    <2> QED
      BY <1>1, <2>1, <2>2 DEF HandlersInService
  <1> QED
    BY <1>5, <1>6, <1>7, <1>8, <1>9, <1>10 DEF IInv

\* ... and every step keeps it.
LEMMA NextInv ==
    ASSUME IInv, [Next]_vars
    PROVE  IInv'
  <1>1. CASE MainStep
    BY <1>1, EnableA20Inv, InstallStepInv, StartInv DEF MainStep
  <1>2. CASE KeyboardController
    BY <1>2, TakeByteInv
  <1>3. CASE Key
    BY <1>3, KeyInv
  <1>4. CASE \E l \in Lines : Interrupt(l)
    BY <1>4, RequestInv, DeliverInv, SpuriousInv, BiosInv DEF Interrupt
  <1>5. CASE Handler
    BY <1>5, HandlerStepInv
  <1>6. CASE Masking
    BY <1>6, MaskingInv
  <1>7. CASE UNCHANGED vars
    BY <1>7, StutterInv
  <1> QED
    BY <1>1, <1>2, <1>3, <1>4, <1>5, <1>6, <1>7 DEF Next, Waiting

\* The inductive invariant holds throughout.
THEOREM InvHolds == Spec => []IInv
  <1>1. Init => IInv
    BY InitInv
  <1>2. IInv /\ [Next]_vars => IInv'
    BY NextInv
  <1> QED
    BY <1>1, <1>2, PTL DEF Spec

\* The registers, the buffers and the stack of handlers stay within what the
\* controllers and the bound on nesting allow.
THEOREM TypeCorrect == Spec => []TypeOK
  <1>1. IInv => TypeOK
    <2> SUFFICES ASSUME IInv PROVE TypeOK
      OBVIOUS
    <2>1. Types
      BY DEF IInv
    <2>2. \A c \in 1 .. 2 : pic[c].icw \in {0, 2, 3, 4}
                            /\ {pic[c].base, pic[c].cascade, pic[c].mode} \subseteq 0 .. 255
      <3>1. \A c \in 1 .. 2 : pic[c] \in Chips
        BY <2>1 DEF Types
      <3> QED
        BY <3>1 DEF Chips
    <2>3. \A i \in 1 .. Len(stack) : stack[i].irq \in 0 .. 15 /\ stack[i].step \in Steps
      <3>1. \A i \in 1 .. Len(stack) : stack[i] \in Handlers
        BY <2>1 DEF Types
      <3> QED
        BY <3>1 DEF Handlers
    <2>4. Len(pic_remap) + 2 + Len(Enabled) = 14
      BY RemapSteps
    <2> QED
      BY <2>1, <2>2, <2>3, <2>4 DEF Types, TypeOK
  <1> QED
    BY <1>1, InvHolds, PTL

\* Without a key during the boot, and while no spurious interrupt has ended a
\* handler's service, the A20 code never resets the machine, and no key's
\* interrupt is forgotten by ICW1 or taken by the BIOS.
THEOREM KeysSurviveBoot == Spec => []QuietBootIsSafe
  <1>1. IInv => QuietBootIsSafe
    BY DEF IInv, Buffers, Undeaf, QuietBootIsSafe
  <1> QED
    BY <1>1, InvHolds, PTL

\* From irq_install on the masks are the ones asked for, and handlers are
\* entered with the number of the line they serve.
THEOREM MasksAsAsked == Spec => []PicAsAsked
  <1>1. IInv => PicAsAsked
    <2> SUFFICES ASSUME IInv PROVE PicAsAsked
      OBVIOUS
    <2>1. Installing /\ Served
      BY DEF IInv
    <2>2. Installed => imr = wanted
      BY <2>1, RemapSteps DEF Installing
    <2>3. \A i \in 1 .. Len(stack) : stack[i].line # NoLine => stack[i].irq = stack[i].line
      BY <2>1 DEF Served
    <2> QED
      BY <2>2, <2>3 DEF PicAsAsked
  <1> QED
    BY <1>1, InvHolds, PTL

\* The lines in service are those of the handlers that owe an EOI, and one line
\* of the master more for each interrupt the BIOS left in service, until a
\* spurious interrupt's EOI ends another's service.
THEOREM ServiceBalanced == Spec => []EoisBalance
  <1>1. IInv => EoisBalance
    BY DEF IInv, HandlersInService, EoisBalance
  <1> QED
    BY <1>1, InvHolds, PTL

\* One handler at most is between set_vga_mode's two halves.
THEOREM SwitchAlone == Spec => []SwitchNotReentered
  <1>1. IInv => SwitchNotReentered
    <2> DEFINE S == {i \in 1 .. Len(stack) : stack[i].step \in {"real", "draw"}}
    <2> SUFFICES ASSUME IInv, ~stolen PROVE Cardinality(S) <= 1
      BY DEF SwitchNotReentered
    <2>1. Types /\ Served /\ HandlersInService
      BY DEF IInv
    <2>2. \A i \in S : i \in Unfinished /\ stack[i].line = Keyboard /\ i \in Int
      <3>1. Keyboard # NoLine
        BY LineFacts
      <3> QED
        BY <2>1, <3>1 DEF Unfinished, Served
    <2>3. \A i, j \in S : ~(i < j)
      <3> SUFFICES ASSUME NEW i \in S, NEW j \in S, i < j PROVE FALSE
        OBVIOUS
      <3>1. Rank(stack[i].line) < Rank(stack[j].line)
        BY <2>1, <2>2 DEF HandlersInService
      <3>2. Rank(Keyboard) \in Int
        BY DEF Rank, Keyboard, Slave
      <3> QED
        BY <2>2, <3>1, <3>2
    <2>4. \A i, j \in S : i = j
      BY <2>2, <2>3
    <2> HIDE DEF S
    <2>5. CASE S = {}
      BY <2>5, FS_EmptySet
    <2>6. CASE S # {}
      <3>1. PICK i \in S : TRUE
        BY <2>6
      <3>2. S = {i}
        BY <2>4, <3>1
      <3>3. Cardinality(S) = 1
        BY <3>2, FS_Singleton, Zenon
      <3> QED
        BY <3>3
    <2> QED
      BY <2>5, <2>6
  <1> QED
    BY <1>1, InvHolds, PTL

\* enable_a20_gate reports success exactly when the gate is open, the word
\* above 1 MB survives its test, and the alias exactly when the gate is closed.
THEOREM A20Reported == Spec => A20Outcome
  <1> DEFINE Good == step # "done" /\ step' = "done" =>
                        /\ Report # "failed" <=> gate
                        /\ word'.high = "kept"
                        /\ word'.low = "kept" <=> ~gate
  <1>1. IInv /\ [Next]_vars => [Good]_vars
    <2> SUFFICES ASSUME IInv, Next, step # "done", step' = "done" PROVE Good
      BY DEF vars, a20Vars
    <2>1. Types /\ Words
      BY DEF IInv
    <2>2. A20Step
      BY DEF Next, MainStep, EnableA20, Install, StartInterrupts, EnableInterrupts, KeyboardController,
             Key, Interrupt, Handler, Masking, Waiting, a20Vars, vars
    <2>3. test_a20
      BY <2>2 DEF A20Step, enable_a20_keyboard, enable_a20_fast, SendCommand, AwaitOutput,
                  ReadOutput, AwaitInput, WriteCmd, GoOn
    <2>4. word = [high |-> "kept", low |-> "kept"] /\ tried \in 0 .. 2 /\ gate \in BOOLEAN
      BY <2>1 DEF Types, Words
    <2>5. TestResult <=> gate
      BY <2>4 DEF TestResult, TestWords, Stored, Cell
    <2>6. Report # "none" /\ word' = WordsAfterTest
      BY <2>3, <2>4 DEF test_a20, Report
    <2>7. Report # "failed" <=> gate
      BY <2>4, <2>5, <2>6 DEF Report
    <2>8. word'.high = "kept" /\ (word'.low = "kept" <=> ~gate)
      BY <2>4, <2>6 DEF WordsAfterTest, TestWords, Stored, Cell
    <2> QED
      BY <2>7, <2>8
  <1> QED
    BY <1>1, InvHolds, PTL DEF Spec, A20Outcome
=============================================================================
