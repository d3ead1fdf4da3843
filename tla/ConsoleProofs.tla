--------------------------- MODULE ConsoleProofs ----------------------------
(***************************************************************************)
(* Proofs about Console, for every size of the screen, every text of       *)
(* printable characters and line feeds that main prints, and every key;    *)
(* and, in the second part, about ConsoleText.                             *)
(*                                                                         *)
(* The inductive invariant has two halves.  For the coordinates it follows *)
(* both printers label by label: how far past the edges main may leave     *)
(* them between two accesses (one column, one line), how much farther the  *)
(* interrupt may then go, and what either still holds in its register.     *)
(* For the cursor it says what main and the interrupt have sent so far of  *)
(* the position that will be current when they have sent it all.           *)
(***************************************************************************)
EXTENDS ConsoleText, ProofLemmas, TLAPS

\* What kernel_main prints once interrupts are on (kernel.c:52) has no
\* backspaces, and nobody clears the screen then.
RaceTexts ==
    /\ MainText \in Seq(Glyphs \cup {Newline})
    /\ Clear \notin IrqChars

Sending == {"cursor_row", "cursor_col", "index_hi", "send_hi", "index_lo", "send_lo"}
Scrolling == {"test_y", "scroll", "last_line"}
Storing == {"row", "store"}
Forward == {"read_x", "write_x", "test_x", "home", "read_y", "write_y"}
Backward ==
    {"back", "dec_x", "store_dec_x", "back_line", "dec_y", "store_dec_y", "line_end"}
MainLabels == {"idle"} \cup Forward \cup Storing \cup Scrolling \cup Sending
IrqLabels == MainLabels \cup Backward

IrqIdle == pc["irq"] = "idle"

Types ==
    /\ kprint_x \in Int /\ kprint_y \in Int
    /\ video \in [0 .. W * H - 1 -> Glyphs \cup {Blank}]
    /\ offscreen \in BOOLEAN /\ split \in BOOLEAN
    /\ crtc_index \in {"hi", "lo"}
    /\ crtc \in [{"hi", "lo"} -> Int]
    /\ printed \in 0 .. Len(MainText)
    /\ pc \in [Procs -> IrqLabels] /\ pc["main"] \in MainLabels
    /\ char \in [Procs -> Chars] /\ reg \in [Procs -> Int]

\* Characters that are stored have a place in the font.
Storable ==
    /\ pc["main"] \in Storing => char["main"] \in Glyphs
    /\ pc["irq"] \in Storing => char["irq"] \in Glyphs \cup {Backspace}
    /\ pc["irq"] \in Backward => char["irq"] = Backspace

\* What the printers hold in their registers.
Registers ==
    /\ pc["main"] = "write_y" => reg["main"] \in 0 .. H - 1
    /\ pc["main"] = "write_x" => reg["main"] \in 0 .. W - 1
    /\ pc["irq"] = "write_y" => reg["irq"] \in 0 .. H
    /\ pc["irq"] = "write_x" => reg["irq"] \in 0 .. W
    /\ pc["irq"] = "store_dec_x" => reg["irq"] \in 1 .. W
    /\ pc["irq"] = "store_dec_y" => reg["irq"] \in 1 .. H
    /\ \A self \in Procs : pc[self] = "scroll" => reg[self] \in 0 .. H - 1

\* How far the coordinates may be from the screen while main is at l, ...
MainX(l) == IF l \in {"test_x", "home"} THEN W ELSE W - 1
MainY(l) == IF l \in Scrolling THEN H ELSE H - 1

\* ... and while the interrupt, which may have come at any time, is.
IrqX(l) ==
    IF l \in {"test_x", "home"} THEN W + 1
    ELSE IF l \in {"read_x", "write_x", "back", "dec_x", "store_dec_x"} THEN W
    ELSE IF l \in Storing /\ char["irq"] # Backspace THEN W
    ELSE W - 1
IrqY(l) == IF l \in Scrolling THEN H + 1 ELSE IF l \in Sending THEN H - 1 ELSE H

Coordinates ==
    IF IrqIdle
    THEN kprint_x \in 0 .. MainX(pc["main"]) /\ kprint_y \in 0 .. MainY(pc["main"])
    ELSE /\ kprint_x \in 0 .. IrqX(pc["irq"]) /\ kprint_y \in 0 .. IrqY(pc["irq"])
         /\ pc["irq"] = "dec_x" => kprint_x > 0
         /\ pc["irq"] = "dec_y" => kprint_y > 0

\* A printer that holds and has sent so far what the cursor is to be.
Sends(self) ==
    /\ pc[self] = "cursor_col" => reg[self] = kprint_y
    /\ pc[self] \in {"index_hi", "send_hi", "index_lo", "send_lo"} => reg[self] = Position
    /\ pc[self] = "send_hi" => crtc_index = "hi"
    /\ pc[self] = "send_lo" => crtc_index = "lo"
    /\ pc[self] \in {"index_lo", "send_lo"} => crtc["hi"] = Position \div Byte

Shown == crtc["hi"] * Byte + crtc["lo"] = Position

CursorFollows ==
    IF IrqIdle
    THEN ~split => Sends("main") /\ (pc["main"] = "idle" => Shown)
    ELSE Sends("irq") /\ (~split => pc["main"] \notin SendsPosition)

IInv == Types /\ Storable /\ Registers /\ Coordinates /\ CursorFollows

\* A printer goes on to label l; the other waits.
LEMMA Goes ==
    ASSUME Types, NEW self \in Procs, NEW l \in IrqLabels,
           self = "main" => l \in MainLabels, Goto(self, l)
    PROVE  /\ pc' \in [Procs -> IrqLabels] /\ pc'["main"] \in MainLabels
           /\ pc'["irq"] = IF self = "irq" THEN l ELSE pc["irq"]
           /\ pc'["main"] = IF self = "main" THEN l ELSE pc["main"]
  BY DEF Types, Procs, Goto

\* What a printer keeps in its register leaves the other's alone.
LEMMA Keeps ==
    ASSUME Types, NEW self \in Procs, NEW v \in Int, Keep(self, v)
    PROVE  /\ reg' \in [Procs -> Int]
           /\ reg'["irq"] = IF self = "irq" THEN v ELSE reg["irq"]
           /\ reg'["main"] = IF self = "main" THEN v ELSE reg["main"]
  BY DEF Types, Procs, Keep

\* The labels, one by one.
LEMMA LabelsAre ==
    /\ MainLabels = {"idle", "read_x", "write_x", "test_x", "home", "read_y", "write_y",
                     "row", "store", "test_y", "scroll", "last_line", "cursor_row",
                     "cursor_col", "index_hi", "send_hi", "index_lo", "send_lo"}
    /\ IrqLabels = MainLabels \cup {"back", "dec_x", "store_dec_x", "back_line", "dec_y",
                                    "store_dec_y", "line_end"}
  BY DEF IrqLabels, MainLabels, Forward, Backward, Storing, Scrolling, Sending

\* A line of the screen scrolled holds what a screen can show.
LEMMA ScrollTyped ==
    ASSUME video \in [0 .. W * H - 1 -> Glyphs \cup {Blank}], NEW line \in 0 .. H - 1
    PROVE  ScrollLine(line) \in [0 .. W * H - 1 -> Glyphs \cup {Blank}]
  <1>1. W \in Nat \ {0} /\ H \in Nat \ {0, 1}
    BY ConsoleAssumption
  <1>2. ASSUME NEW p \in 0 .. W * H - 1, p \div W = line, line # H - 1
        PROVE  p + W \in 0 .. W * H - 1
    <2>1. p \in Nat
      BY <1>1, <1>2
    <2>2. p = W * line + (p % W) /\ p % W \in 0 .. W - 1
      BY <1>1, <1>2, <2>1, DivMod
    <2>3. (line + 2) * W =< H * W
      BY <1>1, <1>2
    <2> QED
      BY <1>1, <2>2, <2>3
  <1> QED
    BY <1>2 DEF ScrollLine

\* The position of the next character is a number.
LEMMA PositionTyped ==
    ASSUME Types
    PROVE  Position \in Int
  BY ConsoleAssumption DEF Types, Position

\* What the two cursor registers hold of a position.
LEMMA Halves ==
    ASSUME NEW p \in Int
    PROVE  /\ p % Byte \in Int /\ p \div Byte \in Int
           /\ p = Byte * (p \div Byte) + (p % Byte)
  BY ConsoleAssumption, DivModInt

\* Each access of the interrupt's kputchar keeps the invariant.
LEMMA IrqPutchar ==
    ASSUME IInv, kputchar("irq")
    PROVE  IInv'
  <1>1. Types /\ Storable /\ Registers /\ Coordinates /\ CursorFollows
    BY DEF IInv
  <1> USE <1>1, ConsoleAssumption, LabelsAre DEF IInv, Types, Storable, Registers,
      Coordinates, CursorFollows, IrqIdle, MainX, MainY, IrqX, IrqY, Sends, Shown,
      SendsPosition, Position, Storing, Scrolling, Sending, Backward, Procs
  <1>2. CASE Home("irq")
    <2>1. /\ pc["irq"] = "home" /\ Goto("irq", "read_y")
          /\ kprint_x' = 0
          /\ UNCHANGED <<kprint_y, video, offscreen, crtc_index, crtc, char, reg,
                         printed, split>>
      BY <1>2 DEF Home, At, MayStep, screen, cursor, progress
    <2> QED
      BY <2>1, Goes, SMTT(30)
  <1>3. CASE ReadY("irq")
    <2>1. /\ pc["irq"] = "read_y" /\ Goto("irq", "write_y")
          /\ Keep("irq", kprint_y)
          /\ UNCHANGED <<kprint_x, kprint_y, video, offscreen, crtc_index, crtc, char,
                         printed, split>>
      BY <1>3 DEF ReadY, At, MayStep, screen, cursor, progress
    <2> QED
      BY <2>1, Goes, Keeps, SMTT(30)
  <1>4. CASE WriteY("irq")
    <2>1. /\ pc["irq"] = "write_y" /\ Goto("irq", "test_y")
          /\ kprint_y' = reg["irq"] + 1
          /\ UNCHANGED <<kprint_x, video, offscreen, crtc_index, crtc, char, reg,
                         printed, split>>
      BY <1>4 DEF WriteY, At, MayStep, screen, cursor, progress
    <2> QED
      BY <2>1, Goes, SMTT(30)
  <1>5. CASE ReadX("irq")
    <2>1. /\ pc["irq"] = "read_x" /\ Goto("irq", "write_x")
          /\ Keep("irq", kprint_x)
          /\ UNCHANGED <<kprint_x, kprint_y, video, offscreen, crtc_index, crtc, char,
                         printed, split>>
      BY ONLY <1>5, SMTT(30) DEF ReadX, At, MayStep, screen, cursor, progress
    <2> QED
      BY <2>1, Goes, Keeps, SMTT(30)
  <1>6. CASE WriteX("irq")
    <2>1. /\ pc["irq"] = "write_x" /\ Goto("irq", "test_x")
          /\ kprint_x' = reg["irq"] + 1
          /\ UNCHANGED <<kprint_y, video, offscreen, crtc_index, crtc, char, reg,
                         printed, split>>
      BY <1>6 DEF WriteX, At, MayStep, screen, cursor, progress
    <2> QED
      BY <2>1, Goes, SMTT(30)
  <1>7. CASE TestX("irq")
    <2>1. /\ pc["irq"] = "test_x"
          /\ Goto("irq", IF kprint_x >= W THEN "home" ELSE "test_y")
          /\ UNCHANGED <<kprint_x, kprint_y, video, offscreen, crtc_index, crtc, char,
                         reg, printed, split>>
      BY <1>7 DEF TestX, At, MayStep, screen, cursor, progress, LineFull
    <2> QED
      BY <2>1, Goes, SMTT(30)
  <1>8. CASE Back("irq")
    <2>1. /\ pc["irq"] = "back"
          /\ Goto("irq", IF kprint_x > 0 THEN "dec_x" ELSE "back_line")
          /\ UNCHANGED <<kprint_x, kprint_y, video, offscreen, crtc_index, crtc, char,
                         reg, printed, split>>
      BY <1>8 DEF Back, At, MayStep, screen, cursor, progress
    <2> QED
      BY <2>1, Goes, SMTT(30)
  <1>9. CASE DecX("irq")
    <2>1. /\ pc["irq"] = "dec_x" /\ Goto("irq", "store_dec_x")
          /\ Keep("irq", kprint_x)
          /\ UNCHANGED <<kprint_x, kprint_y, video, offscreen, crtc_index, crtc, char,
                         printed, split>>
      BY <1>9 DEF DecX, At, MayStep, screen, cursor, progress
    <2> QED
      BY <2>1, Goes, Keeps, SMTT(30)
  <1>10. CASE StoreDecX("irq")
    <2>1. /\ pc["irq"] = "store_dec_x" /\ Goto("irq", "row")
          /\ kprint_x' = reg["irq"] - 1
          /\ UNCHANGED <<kprint_y, video, offscreen, crtc_index, crtc, char, reg,
                         printed, split>>
      BY <1>10 DEF StoreDecX, At, MayStep, screen, cursor, progress
    <2> QED
      BY <2>1, Goes, SMTT(30)
  <1>11. CASE BackLine("irq")
    <2>1. /\ pc["irq"] = "back_line"
          /\ Goto("irq", IF kprint_y = 0 THEN "row" ELSE "dec_y")
          /\ UNCHANGED <<kprint_x, kprint_y, video, offscreen, crtc_index, crtc, char,
                         reg, printed, split>>
      BY <1>11 DEF BackLine, At, MayStep, screen, cursor, progress, AtTop
    <2> QED
      BY <2>1, Goes, SMTT(30)
  <1>12. CASE DecY("irq")
    <2>1. /\ pc["irq"] = "dec_y" /\ Goto("irq", "store_dec_y")
          /\ Keep("irq", kprint_y)
          /\ UNCHANGED <<kprint_x, kprint_y, video, offscreen, crtc_index, crtc, char,
                         printed, split>>
      BY <1>12 DEF DecY, At, MayStep, screen, cursor, progress
    <2> QED
      BY <2>1, Goes, Keeps, SMTT(30)
  <1>13. CASE StoreDecY("irq")
    <2>1. /\ pc["irq"] = "store_dec_y" /\ Goto("irq", "line_end")
          /\ kprint_y' = reg["irq"] - 1
          /\ UNCHANGED <<kprint_x, video, offscreen, crtc_index, crtc, char, reg,
                         printed, split>>
      BY <1>13 DEF StoreDecY, At, MayStep, screen, cursor, progress
    <2> QED
      BY <2>1, Goes, SMTT(30)
  <1>14. CASE LineEnd("irq")
    <2>1. /\ pc["irq"] = "line_end" /\ Goto("irq", "row")
          /\ kprint_x' = W - 1
          /\ UNCHANGED <<kprint_y, video, offscreen, crtc_index, crtc, char, reg,
                         printed, split>>
      BY <1>14 DEF LineEnd, At, MayStep, screen, cursor, progress
    <2> QED
      BY <2>1, Goes, SMTT(30)
  <1>15. CASE Row("irq")
    <2>1. /\ pc["irq"] = "row" /\ Goto("irq", "store")
          /\ Keep("irq", kprint_y)
          /\ UNCHANGED <<kprint_x, kprint_y, video, offscreen, crtc_index, crtc, char,
                         printed, split>>
      BY <1>15 DEF Row, At, MayStep, screen, cursor, progress
    <2> QED
      BY <2>1, Goes, Keeps, SMTT(30)
  <1>16. CASE Store("irq")
    <2>1. /\ pc["irq"] = "store"
          /\ Goto("irq", IF char["irq"] = Backspace THEN "test_y" ELSE "read_x")
          /\ UNCHANGED <<kprint_x, kprint_y, crtc_index, crtc, char, reg, printed, split>>
      BY <1>16 DEF Store, At, MayStep, screen, cursor, progress
    <2>2. video' \in [0 .. W * H - 1 -> Glyphs \cup {Blank}] /\ offscreen' \in BOOLEAN
      BY <1>16, <2>1 DEF Store
    <2> QED
      BY <2>1, <2>2, Goes
  <1>17. CASE TestY("irq")
    <2>1. /\ pc["irq"] = "test_y"
          /\ Goto("irq", IF kprint_y >= H THEN "scroll" ELSE "cursor_row")
          /\ Keep("irq", 0)
          /\ UNCHANGED <<kprint_x, kprint_y, video, offscreen, crtc_index, crtc, char,
                         printed, split>>
      BY <1>17 DEF TestY, At, MayStep, screen, cursor, progress, PastBottom
    <2> QED
      BY <2>1, Goes, Keeps, SMTT(30)
  <1> QED
    BY ONLY kputchar("irq"), <1>2, <1>3, <1>4, <1>5, <1>6, <1>7, <1>8, <1>9, <1>10, <1>11,
       <1>12, <1>13, <1>14, <1>15, <1>16, <1>17 DEF kputchar

\* So does each of its scroll_screen.
LEMMA IrqScrolls ==
    ASSUME IInv, scroll_screen("irq")
    PROVE  IInv'
  <1>1. Types /\ Storable /\ Registers /\ Coordinates /\ CursorFollows
    BY DEF IInv
  <1> USE <1>1, ConsoleAssumption, LabelsAre DEF IInv, Types, Storable, Registers,
      Coordinates, CursorFollows, IrqIdle, MainX, MainY, IrqX, IrqY, Sends, Shown,
      SendsPosition, Position, Storing, Scrolling, Sending, Backward, Procs
  <1>2. CASE Scroll("irq")
    <2>1. /\ pc["irq"] = "scroll"
          /\ IF reg["irq"] = H - 1 THEN Goto("irq", "last_line") /\ UNCHANGED reg
             ELSE Keep("irq", reg["irq"] + 1) /\ UNCHANGED pc
          /\ UNCHANGED <<kprint_x, kprint_y, offscreen, crtc_index, crtc, char,
                         printed, split>>
      BY <1>2 DEF Scroll, At, MayStep, screen, cursor, progress
    <2>2. reg["irq"] \in 0 .. H - 1
      BY <2>1 DEF Procs
    <2>3. video' \in [0 .. W * H - 1 -> Glyphs \cup {Blank}]
      BY <1>2, <2>2, ScrollTyped, SMTT(30) DEF Scroll
    <2>4. CASE reg["irq"] = H - 1
      BY <2>1, <2>2, <2>3, <2>4, Goes
    <2>5. CASE reg["irq"] # H - 1
      BY <2>1, <2>2, <2>3, <2>5, Keeps, SMTT(30)
    <2> QED
      BY <2>4, <2>5
  <1>3. CASE LastLine("irq")
    <2>1. /\ pc["irq"] = "last_line" /\ Goto("irq", "cursor_row")
          /\ kprint_y' = H - 1
          /\ UNCHANGED <<kprint_x, video, offscreen, crtc_index, crtc, char, reg,
                         printed, split>>
      BY <1>3 DEF LastLine, At, MayStep, screen, cursor, progress
    <2> QED
      BY <2>1, Goes, SMTT(30)
  <1> QED
    BY ONLY scroll_screen("irq"), <1>2, <1>3 DEF scroll_screen

\* So does each of its update_hardware_cursor.
LEMMA IrqSends ==
    ASSUME IInv, update_hardware_cursor("irq")
    PROVE  IInv'
  <1>1. Types /\ Storable /\ Registers /\ Coordinates /\ CursorFollows
    BY DEF IInv
  <1> USE <1>1, ConsoleAssumption, LabelsAre DEF IInv, Types, Storable, Registers,
      Coordinates, CursorFollows, IrqIdle, MainX, MainY, IrqX, IrqY, Sends,
      SendsPosition, Storing, Scrolling, Sending, Backward, Procs
  <1>2. CASE CursorRow("irq")
    <2>1. /\ pc["irq"] = "cursor_row" /\ Goto("irq", "cursor_col")
          /\ Keep("irq", kprint_y)
          /\ UNCHANGED <<kprint_x, kprint_y, video, offscreen, crtc_index, crtc, char,
                         printed, split>>
      BY <1>2 DEF CursorRow, At, MayStep, screen, cursor, progress
    <2>2. Position' = Position
      BY <2>1 DEF Position
    <2> QED
      BY <2>1, Goes, <2>2, Keeps, PositionTyped, SMTT(30)
  <1>3. CASE CursorCol("irq")
    <2> DEFINE sent == reg["irq"] * W + kprint_x
    <2>1. /\ pc["irq"] = "cursor_col" /\ Goto("irq", "index_hi")
          /\ Keep("irq", sent)
          /\ UNCHANGED <<kprint_x, kprint_y, video, offscreen, crtc_index, crtc, char,
                         printed, split>>
      BY <1>3 DEF CursorCol, At, MayStep, screen, cursor, progress
    <2>2. Position' = Position
      BY <2>1 DEF Position
    <2>3. sent \in Int /\ (sent = Position)
      BY <2>1, SMTT(30) DEF Position
    <2> HIDE DEF sent
    <2>4. reg' \in [Procs -> Int] /\ (reg'["irq"] = Position) /\ reg'["main"] = reg["main"]
      BY <2>1, <2>3, Keeps
    <2> QED
      BY <2>1, <2>4, <2>2, Goes
  <1>4. CASE SelectByte("irq", "index_hi", "hi", "send_hi")
    <2>1. /\ pc["irq"] = "index_hi" /\ Goto("irq", "send_hi")
          /\ crtc_index' = "hi"
          /\ UNCHANGED <<kprint_x, kprint_y, video, offscreen, crtc, char, reg,
                         printed, split>>
      BY <1>4 DEF SelectByte, At, MayStep, screen, cursor, progress
    <2>2. Position' = Position
      BY ONLY <2>1 DEF Position
    <2> QED
      BY <2>1, Goes, <2>2, SMTT(30)
  <1>5. CASE SendByte("irq", "send_hi", reg["irq"] \div Byte, "index_lo")
    <2>1. /\ pc["irq"] = "send_hi" /\ Goto("irq", "index_lo")
          /\ crtc' = [crtc EXCEPT ![crtc_index] = reg["irq"] \div Byte]
          /\ UNCHANGED <<kprint_x, kprint_y, video, offscreen, crtc_index, char, reg,
                         printed, split>>
      BY <1>5 DEF SendByte, At, MayStep, screen, cursor, progress
    <2>2. Position' = Position
      BY <2>1 DEF Position
    <2>3. reg["irq"] \div Byte \in Int /\ (reg["irq"] = Position)
      BY <2>1, DivModInt
    <2>4. crtc' \in [{"hi", "lo"} -> Int] /\ (crtc'["hi"] = Position \div Byte)
      BY <2>1, <2>3, SMTT(30)
    <2> QED
      BY <2>1, <2>3, <2>4, <2>2, Goes, SMTT(30)
  <1>6. CASE SelectByte("irq", "index_lo", "lo", "send_lo")
    <2>1. /\ pc["irq"] = "index_lo" /\ Goto("irq", "send_lo")
          /\ crtc_index' = "lo"
          /\ UNCHANGED <<kprint_x, kprint_y, video, offscreen, crtc, char, reg,
                         printed, split>>
      BY <1>6 DEF SelectByte, At, MayStep, screen, cursor, progress
    <2>2. Position' = Position
      BY <2>1 DEF Position
    <2> QED
      BY <2>1, Goes, <2>2, SMTT(30)
  <1>7. CASE SendByte("irq", "send_lo", LowByte(reg["irq"]), "idle")
    <2>1. /\ pc["irq"] = "send_lo" /\ Goto("irq", "idle")
          /\ crtc' = [crtc EXCEPT ![crtc_index] = reg["irq"] % Byte]
          /\ UNCHANGED <<kprint_x, kprint_y, video, offscreen, crtc_index, char, reg,
                         printed, split>>
      BY <1>7 DEF SendByte, At, MayStep, screen, cursor, progress, LowByte
    <2>2. Position' = Position
      BY <2>1 DEF Position
    <2>3. reg["irq"] \in Int
      BY DEF Procs
    <2>4. /\ reg["irq"] % Byte \in Int /\ reg["irq"] \div Byte \in Int
          /\ reg["irq"] = Byte * (reg["irq"] \div Byte) + (reg["irq"] % Byte)
      BY ONLY <2>3, Halves, Zenon
    <2>5. reg["irq"] = Position /\ crtc["hi"] = Position \div Byte /\ crtc_index = "lo"
      BY <2>1
    <2>6. /\ crtc' \in [{"hi", "lo"} -> Int]
          /\ crtc'["hi"] = reg["irq"] \div Byte /\ crtc'["lo"] = reg["irq"] % Byte
      BY <2>1, <2>4, <2>5
    <2>7. Shown'
      <3> DEFINE q == reg["irq"] \div Byte
                 r == reg["irq"] % Byte
      <3>1. q \in Int /\ r \in Int /\ Byte \in Int /\ reg["irq"] = Byte * q + r
        BY <2>4, ConsoleAssumption
      <3>2. crtc'["hi"] = q /\ crtc'["lo"] = r /\ Position' = reg["irq"]
        BY <2>6, <2>2, <2>5
      <3> HIDE DEF q, r
      <3>3. q * Byte + r = reg["irq"]
        BY ONLY <3>1, SMTT(30)
      <3> QED
        BY ONLY <3>2, <3>3, Zenon DEF Shown
    <2> QED
      BY <2>1, <2>6, <2>7, <2>2, Goes, SMTT(30)
  <1> QED
    BY ONLY update_hardware_cursor("irq"), <1>2, <1>3, <1>4, <1>5, <1>6, <1>7
       DEF update_hardware_cursor

\* Each access of main's kputchar keeps the invariant; it prints no backspace.
LEMMA MainPutchar ==
    ASSUME IInv, kputchar("main")
    PROVE  IInv'
  <1>1. Types /\ Storable /\ Registers /\ Coordinates /\ CursorFollows
    BY DEF IInv
  <1> USE <1>1, ConsoleAssumption, LabelsAre DEF IInv, Types, Storable, Registers,
      Coordinates, CursorFollows, IrqIdle, MainX, MainY, IrqX, IrqY, Sends, Shown,
      SendsPosition, Position, Storing, Scrolling, Sending, Backward, Procs
  <1>2. CASE Home("main")
    <2>1. /\ pc["main"] = "home" /\ IrqIdle /\ Goto("main", "read_y")
          /\ kprint_x' = 0
          /\ UNCHANGED <<kprint_y, video, offscreen, crtc_index, crtc, char, reg,
                         printed, split>>
      BY <1>2 DEF Home, At, MayStep, screen, cursor, progress
    <2> QED
      BY <2>1, Goes, SMTT(30)
  <1>3. CASE ReadY("main")
    <2>1. /\ pc["main"] = "read_y" /\ IrqIdle /\ Goto("main", "write_y")
          /\ Keep("main", kprint_y)
          /\ UNCHANGED <<kprint_x, kprint_y, video, offscreen, crtc_index, crtc, char,
                         printed, split>>
      BY <1>3 DEF ReadY, At, MayStep, screen, cursor, progress
    <2> QED
      BY <2>1, Goes, Keeps, SMTT(30)
  <1>4. CASE WriteY("main")
    <2>1. /\ pc["main"] = "write_y" /\ IrqIdle /\ Goto("main", "test_y")
          /\ kprint_y' = reg["main"] + 1
          /\ UNCHANGED <<kprint_x, video, offscreen, crtc_index, crtc, char, reg,
                         printed, split>>
      BY <1>4 DEF WriteY, At, MayStep, screen, cursor, progress
    <2> QED
      BY <2>1, Goes, SMTT(30)
  <1>5. CASE ReadX("main")
    <2>1. /\ pc["main"] = "read_x" /\ IrqIdle /\ Goto("main", "write_x")
          /\ Keep("main", kprint_x)
          /\ UNCHANGED <<kprint_x, kprint_y, video, offscreen, crtc_index, crtc, char,
                         printed, split>>
      BY ONLY <1>5 DEF ReadX, At, MayStep, screen, cursor, progress
    <2> QED
      BY <2>1, Goes, Keeps, SMTT(30)
  <1>6. CASE WriteX("main")
    <2>1. /\ pc["main"] = "write_x" /\ IrqIdle /\ Goto("main", "test_x")
          /\ kprint_x' = reg["main"] + 1
          /\ UNCHANGED <<kprint_y, video, offscreen, crtc_index, crtc, char, reg,
                         printed, split>>
      BY <1>6 DEF WriteX, At, MayStep, screen, cursor, progress
    <2> QED
      BY <2>1, Goes, SMTT(30)
  <1>7. CASE TestX("main")
    <2>1. /\ pc["main"] = "test_x" /\ IrqIdle
          /\ Goto("main", IF kprint_x >= W THEN "home" ELSE "test_y")
          /\ UNCHANGED <<kprint_x, kprint_y, video, offscreen, crtc_index, crtc, char,
                         reg, printed, split>>
      BY ONLY <1>7, SMTT(30) DEF TestX, At, MayStep, screen, cursor, progress, LineFull
    <2> QED
      BY <2>1, Goes
  <1>8. CASE Row("main")
    <2>1. /\ pc["main"] = "row" /\ IrqIdle /\ Goto("main", "store")
          /\ Keep("main", kprint_y)
          /\ UNCHANGED <<kprint_x, kprint_y, video, offscreen, crtc_index, crtc, char,
                         printed, split>>
      BY <1>8 DEF Row, At, MayStep, screen, cursor, progress
    <2> QED
      BY <2>1, Goes, Keeps, SMTT(30)
  <1>9. CASE Store("main")
    <2>1. /\ pc["main"] = "store" /\ IrqIdle
          /\ Goto("main", IF char["main"] = Backspace THEN "test_y" ELSE "read_x")
          /\ UNCHANGED <<kprint_x, kprint_y, crtc_index, crtc, char, reg, printed, split>>
      BY <1>9 DEF Store, At, MayStep, screen, cursor, progress
    <2>2. video' \in [0 .. W * H - 1 -> Glyphs \cup {Blank}] /\ offscreen' \in BOOLEAN
      BY <1>9, <2>1 DEF Store
    <2> QED
      BY <2>1, <2>2, Goes
  <1>10. CASE TestY("main")
    <2>1. /\ pc["main"] = "test_y" /\ IrqIdle
          /\ Goto("main", IF kprint_y >= H THEN "scroll" ELSE "cursor_row")
          /\ Keep("main", 0)
          /\ UNCHANGED <<kprint_x, kprint_y, video, offscreen, crtc_index, crtc, char,
                         printed, split>>
      BY <1>10 DEF TestY, At, MayStep, screen, cursor, progress, PastBottom
    <2> QED
      BY <2>1, Goes, Keeps, SMTT(30)
  <1>11. CASE \/ Back("main") \/ DecX("main") \/ StoreDecX("main") \/ BackLine("main")
               \/ DecY("main") \/ StoreDecY("main") \/ LineEnd("main")
    BY <1>11 DEF Back, DecX, StoreDecX, BackLine, DecY, StoreDecY, LineEnd, At
  <1> QED
    BY ONLY kputchar("main"), <1>2, <1>3, <1>4, <1>5, <1>6, <1>7, <1>8, <1>9, <1>10, <1>11
       DEF kputchar

\* So does each of its scroll_screen.
LEMMA MainScrolls ==
    ASSUME IInv, scroll_screen("main")
    PROVE  IInv'
  <1>1. Types /\ Storable /\ Registers /\ Coordinates /\ CursorFollows
    BY DEF IInv
  <1> USE <1>1, ConsoleAssumption, LabelsAre DEF IInv, Types, Storable, Registers,
      Coordinates, CursorFollows, IrqIdle, MainX, MainY, IrqX, IrqY, Sends, Shown,
      SendsPosition, Position, Storing, Scrolling, Sending, Backward, Procs
  <1>2. CASE Scroll("main")
    <2>1. /\ pc["main"] = "scroll" /\ IrqIdle
          /\ IF reg["main"] = H - 1 THEN Goto("main", "last_line") /\ UNCHANGED reg
             ELSE Keep("main", reg["main"] + 1) /\ UNCHANGED pc
          /\ UNCHANGED <<kprint_x, kprint_y, offscreen, crtc_index, crtc, char,
                         printed, split>>
      BY <1>2 DEF Scroll, At, MayStep, screen, cursor, progress
    <2>2. reg["main"] \in 0 .. H - 1
      BY <2>1 DEF Procs
    <2>3. video' \in [0 .. W * H - 1 -> Glyphs \cup {Blank}]
      BY <1>2, <2>2, ScrollTyped, SMTT(30) DEF Scroll
    <2>4. CASE reg["main"] = H - 1
      BY <2>1, <2>2, <2>3, <2>4, Goes
    <2>5. CASE reg["main"] # H - 1
      BY <2>1, <2>2, <2>3, <2>5, Keeps, SMTT(30)
    <2> QED
      BY <2>4, <2>5
  <1>3. CASE LastLine("main")
    <2>1. /\ pc["main"] = "last_line" /\ IrqIdle /\ Goto("main", "cursor_row")
          /\ kprint_y' = H - 1
          /\ UNCHANGED <<kprint_x, video, offscreen, crtc_index, crtc, char, reg,
                         printed, split>>
      BY <1>3 DEF LastLine, At, MayStep, screen, cursor, progress
    <2> QED
      BY <2>1, Goes, SMTT(30)
  <1> QED
    BY ONLY scroll_screen("main"), <1>2, <1>3 DEF scroll_screen

\* So does each of its update_hardware_cursor.
LEMMA MainSends ==
    ASSUME IInv, update_hardware_cursor("main")
    PROVE  IInv'
  <1>1. Types /\ Storable /\ Registers /\ Coordinates /\ CursorFollows
    BY DEF IInv
  <1> USE <1>1, ConsoleAssumption, LabelsAre DEF IInv, Types, Storable, Registers,
      Coordinates, CursorFollows, IrqIdle, MainX, MainY, IrqX, IrqY, Sends,
      SendsPosition, Storing, Scrolling, Sending, Backward, Procs
  <1>2. CASE CursorRow("main")
    <2>1. /\ pc["main"] = "cursor_row" /\ IrqIdle /\ Goto("main", "cursor_col")
          /\ Keep("main", kprint_y)
          /\ UNCHANGED <<kprint_x, kprint_y, video, offscreen, crtc_index, crtc, char,
                         printed, split>>
      BY <1>2 DEF CursorRow, At, MayStep, screen, cursor, progress
    <2>2. Position' = Position
      BY <2>1 DEF Position
    <2> QED
      BY <2>1, Goes, <2>2, Keeps, PositionTyped, SMTT(30)
  <1>3. CASE CursorCol("main")
    <2> DEFINE sent == reg["main"] * W + kprint_x
    <2>1. /\ pc["main"] = "cursor_col" /\ IrqIdle /\ Goto("main", "index_hi")
          /\ Keep("main", sent)
          /\ UNCHANGED <<kprint_x, kprint_y, video, offscreen, crtc_index, crtc, char,
                         printed, split>>
      BY <1>3 DEF CursorCol, At, MayStep, screen, cursor, progress
    <2>2. Position' = Position
      BY <2>1 DEF Position
    <2>3. sent \in Int /\ (~split => sent = Position)
      BY <2>1, SMTT(30) DEF Position
    <2> HIDE DEF sent
    <2>4. /\ reg' \in [Procs -> Int]
          /\ ~split => reg'["main"] = Position
          /\ reg'["irq"] = reg["irq"]
      BY <2>1, <2>3, Keeps
    <2> QED
      BY <2>1, <2>4, <2>2, Goes, SMTT(30)
  <1>4. CASE SelectByte("main", "index_hi", "hi", "send_hi")
    <2>1. /\ pc["main"] = "index_hi" /\ IrqIdle /\ Goto("main", "send_hi")
          /\ crtc_index' = "hi"
          /\ UNCHANGED <<kprint_x, kprint_y, video, offscreen, crtc, char, reg,
                         printed, split>>
      BY <1>4 DEF SelectByte, At, MayStep, screen, cursor, progress
    <2>2. Position' = Position
      BY ONLY <2>1 DEF Position
    <2> QED
      BY <2>1, Goes, <2>2, SMTT(30)
  <1>5. CASE SendByte("main", "send_hi", reg["main"] \div Byte, "index_lo")
    <2>1. /\ pc["main"] = "send_hi" /\ IrqIdle /\ Goto("main", "index_lo")
          /\ crtc' = [crtc EXCEPT ![crtc_index] = reg["main"] \div Byte]
          /\ UNCHANGED <<kprint_x, kprint_y, video, offscreen, crtc_index, char, reg,
                         printed, split>>
      BY <1>5 DEF SendByte, At, MayStep, screen, cursor, progress
    <2>2. Position' = Position
      BY <2>1 DEF Position
    <2>3. reg["main"] \div Byte \in Int /\ (~split => reg["main"] = Position)
      BY <2>1, DivModInt
    <2>4. crtc' \in [{"hi", "lo"} -> Int] /\ (~split => crtc'["hi"] = Position \div Byte)
      BY <2>1, <2>3, SMTT(30)
    <2> QED
      BY <2>1, <2>3, <2>4, <2>2, Goes, SMTT(30)
  <1>6. CASE SelectByte("main", "index_lo", "lo", "send_lo")
    <2>1. /\ pc["main"] = "index_lo" /\ IrqIdle /\ Goto("main", "send_lo")
          /\ crtc_index' = "lo"
          /\ UNCHANGED <<kprint_x, kprint_y, video, offscreen, crtc, char, reg,
                         printed, split>>
      BY <1>6 DEF SelectByte, At, MayStep, screen, cursor, progress
    <2>2. Position' = Position
      BY <2>1 DEF Position
    <2> QED
      BY <2>1, Goes, <2>2, SMTT(30)
  <1>7. CASE SendByte("main", "send_lo", LowByte(reg["main"]), "idle")
    <2>1. /\ pc["main"] = "send_lo" /\ IrqIdle /\ Goto("main", "idle")
          /\ crtc' = [crtc EXCEPT ![crtc_index] = reg["main"] % Byte]
          /\ UNCHANGED <<kprint_x, kprint_y, video, offscreen, crtc_index, char, reg,
                         printed, split>>
      BY <1>7 DEF SendByte, At, MayStep, screen, cursor, progress, LowByte
    <2>2. Position' = Position
      BY <2>1 DEF Position
    <2>3. reg["main"] \in Int
      BY DEF Procs
    <2>4. /\ reg["main"] % Byte \in Int /\ reg["main"] \div Byte \in Int
          /\ reg["main"] = Byte * (reg["main"] \div Byte) + (reg["main"] % Byte)
      BY ONLY <2>3, Halves, Zenon
    <2>5. ~split => /\ reg["main"] = Position
                    /\ crtc["hi"] = Position \div Byte
                    /\ crtc_index = "lo"
      BY <2>1
    <2>6. /\ crtc' \in [{"hi", "lo"} -> Int]
          /\ ~split => /\ crtc'["hi"] = reg["main"] \div Byte
                       /\ crtc'["lo"] = reg["main"] % Byte
      BY <2>1, <2>4, <2>5
    <2>7. ~split => Shown'
      BY <2>4, <2>5, <2>6, <2>2 DEF Shown
    <2> QED
      BY <2>1, <2>6, <2>7, <2>2, Goes
  <1> QED
    BY ONLY update_hardware_cursor("main"), <1>2, <1>3, <1>4, <1>5, <1>6, <1>7
       DEF update_hardware_cursor

\* A step that changes nothing keeps the invariant.
LEMMA Stutters ==
    ASSUME IInv, UNCHANGED vars
    PROVE  IInv'
  <1>1. /\ UNCHANGED <<kprint_x, kprint_y, video, offscreen, crtc_index, crtc>>
        /\ UNCHANGED <<pc, char, reg, printed, split>>
    BY DEF vars
  <1>2. Types' /\ Storable' /\ Registers'
    BY <1>1 DEF IInv, Types, Storable, Registers
  <1>3. Coordinates'
    BY <1>1 DEF IInv, Coordinates, IrqIdle, MainX, MainY, IrqX, IrqY
  <1>4. CursorFollows'
    BY <1>1 DEF IInv, CursorFollows, Sends, Shown, Position, IrqIdle
  <1> QED
    BY <1>2, <1>3, <1>4 DEF IInv

\* The next character of the text: the hardware shows where it goes.
LEMMA MainBegins ==
    ASSUME IInv, RaceTexts, MainPrints
    PROVE  IInv'
  <1> DEFINE c == MainText[printed + 1]
  <1>1. Types /\ Storable /\ Registers /\ Coordinates /\ CursorFollows
    BY DEF IInv
  <1>2. c \in Glyphs \cup {Newline} /\ printed + 1 \in 0 .. Len(MainText)
    BY <1>1 DEF Types, RaceTexts, MainPrints
  <1> HIDE DEF c
  <1>3. /\ pc["main"] = "idle" /\ IrqIdle
        /\ Goto("main", FirstAccess(c)) /\ char' = [char EXCEPT !["main"] = c]
        /\ printed' = printed + 1 /\ split' = FALSE
        /\ UNCHANGED <<kprint_x, kprint_y, video, offscreen, crtc_index, crtc, reg>>
    BY DEF MainPrints, Begin, At, MayStep, IrqIdle, screen, cursor, c
  <1>4. c \in Chars /\ FirstAccess(c) = IF c = Newline THEN "home" ELSE "row"
    BY <1>2 DEF Chars, FirstAccess, Glyphs, Newline, Backspace, Clear
  <1>5. /\ pc' \in [Procs -> IrqLabels] /\ pc'["main"] \in MainLabels
        /\ pc'["irq"] = "idle" /\ pc'["main"] \in {"home", "row"}
        /\ pc'["main"] = "row" => c \in Glyphs
    BY <1>1, <1>2, <1>3, <1>4, Goes, LabelsAre DEF IrqIdle, Procs
  <1>6. /\ char' \in [Procs -> Chars]
        /\ char'["main"] = c /\ char'["irq"] = char["irq"]
    BY <1>1, <1>3, <1>4 DEF Types, Procs
  <1>7. Types'
    BY <1>1, <1>2, <1>3, <1>5, <1>6 DEF Types
  <1>8. Storable' /\ Registers'
    BY <1>1, <1>3, <1>5, <1>6 DEF Storable, Registers, Storing, Backward, Procs
  <1>9. Coordinates'
    BY <1>1, <1>3, <1>5, ConsoleAssumption DEF Coordinates, IrqIdle, MainX, MainY,
       Scrolling
  <1>10. CursorFollows'
    BY <1>5 DEF CursorFollows, IrqIdle, Sends
  <1> QED
    BY <1>7, <1>8, <1>9, <1>10 DEF IInv

\* A key is pressed: the interrupt prints whatever main was about to do.
LEMMA KeyBegins ==
    ASSUME IInv, RaceTexts, KeyPrints
    PROVE  IInv'
  <1>1. Types /\ Storable /\ Registers /\ Coordinates /\ CursorFollows
    BY DEF IInv
  <1>2. PICK c \in IrqChars : Begin("irq", c)
    BY DEF KeyPrints
  <1>3. /\ pc["irq"] = "idle" /\ IrqIdle
        /\ Goto("irq", FirstAccess(c)) /\ char' = [char EXCEPT !["irq"] = c]
        /\ split' = (pc["main"] \in SendsPosition)
        /\ UNCHANGED <<kprint_x, kprint_y, video, offscreen, crtc_index, crtc, reg,
                       printed>>
    BY <1>2 DEF KeyPrints, Begin, At, MayStep, IrqIdle, screen, cursor
  <1>4. /\ c \in Chars /\ FirstAccess(c) \in {"home", "back", "row"}
        /\ FirstAccess(c) = "row" => c \in Glyphs /\ c # Backspace
        /\ FirstAccess(c) = "back" => c = Backspace
    BY ConsoleAssumption
       DEF RaceTexts, Chars, FirstAccess, Glyphs, Newline, Backspace, Clear
  <1>5. /\ pc' \in [Procs -> IrqLabels] /\ pc'["main"] = pc["main"]
        /\ pc'["irq"] = FirstAccess(c)
    BY <1>1, <1>3, <1>4, Goes, LabelsAre DEF Types, Procs
  <1>6. /\ char' \in [Procs -> Chars]
        /\ char'["irq"] = c /\ char'["main"] = char["main"]
    BY <1>1, <1>3, <1>4 DEF Types, Procs
  <1>7. Types'
    BY <1>1, <1>3, <1>5, <1>6 DEF Types
  <1>8. Storable' /\ Registers'
    BY <1>1, <1>3, <1>4, <1>5, <1>6 DEF Storable, Registers, Storing, Backward, Procs
  <1>9. Coordinates'
    <2>1. kprint_x \in 0 .. W /\ kprint_y \in 0 .. H
      BY <1>1, <1>3, ConsoleAssumption DEF Coordinates, IrqIdle, MainX, MainY
    <2> QED
      BY <1>3, <1>4, <1>5, <1>6, <2>1, ConsoleAssumption DEF Coordinates, IrqIdle, IrqX,
         IrqY, Scrolling, Storing, Sending
  <1>10. CursorFollows'
    BY <1>3, <1>4, <1>5 DEF CursorFollows, IrqIdle, Sends, SendsPosition
  <1> QED
    BY <1>7, <1>8, <1>9, <1>10 DEF IInv

\* The boot messages leave the cursor where the next character goes.
LEMMA InitInv ==
    ASSUME Init
    PROVE  IInv
  <1>1. W \in Nat \ {0} /\ H \in Nat \ {0, 1} /\ Byte \in Nat \ {0}
    BY ConsoleAssumption
  <1>2. /\ kprint_x \in 0 .. W - 1 /\ kprint_y \in 0 .. H - 1
        /\ crtc = [hi |-> Position \div Byte, lo |-> Position % Byte]
        /\ pc = [self \in Procs |-> "idle"] /\ char = [self \in Procs |-> Newline]
        /\ reg = [self \in Procs |-> 0] /\ printed = 0 /\ ~split /\ split \in BOOLEAN
    BY DEF Init
  <1>3. video \in [0 .. W * H - 1 -> Glyphs \cup {Blank}]
    BY DEF Init
  <1>4. offscreen \in BOOLEAN /\ crtc_index \in {"hi", "lo"}
    BY DEF Init
  <1>5. Position \in Int
    BY <1>1, <1>2 DEF Position
  <1>6. /\ crtc["hi"] = Position \div Byte /\ crtc["lo"] = Position % Byte
        /\ crtc \in [{"hi", "lo"} -> Int]
    BY <1>2, <1>5, Halves
  <1>7. Shown
    BY <1>1, <1>5, <1>6, Halves DEF Shown
  <1>8. Len(MainText) \in Nat
    BY ConsoleAssumption
  <1>9. Types
    BY <1>1, <1>2, <1>3, <1>4, <1>6, <1>8, LabelsAre DEF Types, Chars, Procs
  <1>10. Coordinates /\ CursorFollows /\ Registers /\ Storable
    BY <1>1, <1>2, <1>7 DEF Coordinates, CursorFollows, Registers, Storable, IrqIdle,
       MainX, MainY, Sends, Storing, Scrolling, Backward, Procs
  <1> QED
    BY <1>9, <1>10 DEF IInv

\* The coordinates and the cursor are followed through every execution.
THEOREM InvHolds == ASSUME RaceTexts PROVE Spec => []IInv
  <1>1. Init => IInv
    BY InitInv
  <1>2. ASSUME IInv, [Next]_vars PROVE IInv'
    <2>1. CASE MainPrints
      BY <1>2, <2>1, MainBegins
    <2>2. CASE KeyPrints
      BY <1>2, <2>2, KeyBegins
    <2>3. CASE Step("main")
      BY <1>2, <2>3, MainPutchar, MainScrolls, MainSends DEF Step
    <2>4. CASE Step("irq")
      BY <1>2, <2>4, IrqPutchar, IrqScrolls, IrqSends DEF Step
    <2>5. CASE UNCHANGED vars
      BY <1>2, <2>5, Stutters
    <2> QED
      BY <1>2, <2>1, <2>2, <2>3, <2>4, <2>5 DEF Next, Procs
  <1> QED
    BY <1>1, <1>2, PTL DEF Spec

\* However the two printers interleave, the column never gets more than one
\* past the line's last increment and the row one past the scrolling one
\* (kprintf.c's kprint_x and kprint_y), and only printable characters and
\* blanks reach the screen.
THEOREM TypeCorrect == ASSUME RaceTexts PROVE Spec => []TypeOK
  <1>1. ASSUME IInv PROVE TypeOK
    <2>1. Types /\ Coordinates
      BY <1>1 DEF IInv
    <2>2. W \in Nat \ {0} /\ H \in Nat \ {0, 1}
      BY ConsoleAssumption
    <2>3. kprint_x \in 0 .. W + 1 /\ kprint_y \in 0 .. H + 1
      BY <2>1, <2>2 DEF Types, Coordinates, MainX, MainY, IrqX, IrqY
    <2> QED
      BY <2>1, <2>3 DEF Types, TypeOK
  <1> QED
    BY <1>1, InvHolds, PTL

\* A keyboard interrupt between any two accesses of kputchar, scroll_screen or
\* update_hardware_cursor leaves both coordinates on the screen once it and
\* main have finished their characters.
THEOREM Recovers == ASSUME RaceTexts PROVE Spec => []CursorRecovers
  <1>1. ASSUME IInv PROVE CursorRecovers
    BY <1>1 DEF IInv, Coordinates, CursorRecovers, Quiet, IrqIdle, MainX, MainY,
       Scrolling, Procs
  <1> QED
    BY <1>1, InvHolds, PTL

\* Between characters the hardware cursor stands where the next character
\* goes, unless a key came while main held a position it had already read for
\* update_hardware_cursor.
THEOREM Synced == ASSUME RaceTexts PROVE Spec => []CursorSyncedUnlessSplit
  <1>1. ASSUME IInv, ~split, Quiet PROVE crtc.hi * Byte + crtc.lo = Position
    BY <1>1 DEF IInv, CursorFollows, Quiet, IrqIdle, Shown, Procs
  <1>2. ASSUME IInv PROVE CursorSyncedUnlessSplit
    BY <1>1, <1>2 DEF CursorSyncedUnlessSplit, HardwareCursorSynced
  <1> QED
    BY <1>2, InvHolds, PTL

-----------------------------------------------------------------------------
(***************************************************************************)
(* ConsoleText: the screen is a window on what has been printed, for every *)
(* size of the screen and every text.                                      *)
(*                                                                         *)
(* The text is ahead of the screen: it has the whole effect of a character *)
(* as soon as that is printed, kputchar works it off access by access.     *)
(* The inductive invariant says, label by label, where kputchar will leave *)
(* the cursor (GoalX, GoalY) and what of the text the screen shows         *)
(* already: all but the one cell the character goes to (Pending), and from *)
(* a row higher up until the lines are scrolled (Shift).                   *)
(***************************************************************************)
ScreenRows == 0 .. H - 1
Columns == 0 .. W - 1
TextLabels == IrqLabels \cup {"clear", "clear_x", "clear_y", "set_x", "set_y"}
label == pc["irq"]
ch == char["irq"]
value == reg["irq"]

TextTypes ==
    /\ kprint_x \in Int /\ kprint_y \in Int
    /\ video \in [0 .. W * H - 1 -> Glyphs \cup {Blank}]
    /\ ~offscreen
    /\ crtc_index \in {"hi", "lo"} /\ crtc \in [{"hi", "lo"} -> Int]
    /\ pc \in [Procs -> TextLabels] /\ pc["main"] = "idle"
    /\ char \in [Procs -> Chars] /\ reg \in [Procs -> Int]
    /\ text \in [0 .. MaxRows - 1 -> [Columns -> Glyphs \cup {Blank}]]
    /\ top \in Int /\ text_x \in Int /\ text_y \in Int

\* What the coordinates and the register are at each label.
Placed ==
    /\ kprint_x \in 0 .. (IF label \in {"test_x", "home"} THEN W ELSE W - 1)
    /\ kprint_y \in 0 .. (IF label \in Scrolling THEN H ELSE H - 1)
    /\ label \in {"read_y", "write_y", "back_line", "dec_y", "store_dec_y", "clear_y"}
         => kprint_x = 0
    /\ label \in {"scroll", "last_line"} => kprint_y = H
    /\ label \in {"dec_x", "store_dec_x"} => kprint_x > 0
    /\ label \in {"dec_y", "store_dec_y"} => kprint_y > 0
    /\ label \in {"write_x", "store_dec_x"} => value = kprint_x
    /\ label \in {"write_y", "store_dec_y", "store"} => value = kprint_y
    /\ label = "scroll" => value \in ScreenRows
    /\ label \in {"set_x", "set_y"} => value \div W \in ScreenRows /\ value % W \in Columns
    /\ label = "set_y" => kprint_x = value % W
    /\ label \in Backward => ch = Backspace
    /\ label \in Storing => ch \in Glyphs \cup {Backspace}

\* Where the cursor will be after the character, before the screen scrolls.
Wrapping(x) == x + 1 = W
GoalX ==
    CASE label \in {"dec_x", "store_dec_x"} -> kprint_x - 1
      [] label = "back" /\ kprint_x > 0 -> kprint_x - 1
      [] label \in {"back", "back_line"} /\ kprint_x = 0
         -> IF kprint_y > 0 THEN W - 1 ELSE 0
      [] label \in {"dec_y", "store_dec_y", "line_end"} -> W - 1
      [] label \in {"read_x", "write_x"} \/ (label \in Storing /\ ch # Backspace) ->
             IF Wrapping(kprint_x) THEN 0 ELSE kprint_x + 1
      [] label = "test_x" /\ kprint_x = W -> 0
      [] label \in {"home", "read_y", "write_y", "clear", "clear_x", "clear_y"} -> 0
      [] label \in {"set_x", "set_y"} -> value % W
      [] OTHER -> kprint_x
GoalY ==
    CASE label \in {"back", "back_line"} /\ kprint_x = 0
         -> IF kprint_y > 0 THEN kprint_y - 1 ELSE 0
      [] label \in {"dec_y", "store_dec_y"} -> kprint_y - 1
      [] label \in {"read_x", "write_x"} \/ (label \in Storing /\ ch # Backspace) ->
             IF Wrapping(kprint_x) THEN kprint_y + 1 ELSE kprint_y
      [] label = "test_x" /\ kprint_x = W -> kprint_y + 1
      [] label \in {"home", "read_y", "write_y"} -> kprint_y + 1
      [] label \in {"clear", "clear_x", "clear_y"} -> 0
      [] label \in {"set_x", "set_y"} -> value \div W
      [] OTHER -> kprint_y

\* The text row in the first row of the screen, as long as nothing scrolls.
First == text_y - GoalY

Aimed ==
    /\ text_x = GoalX
    /\ First \in Nat
    /\ top = IF GoalY >= H THEN First + 1 ELSE First

\* The cell the character goes to, and what it stores there.
CellX == IF ch = Backspace THEN GoalX ELSE kprint_x
CellY == IF ch = Backspace THEN GoalY ELSE kprint_y
Stores == IF ch = Backspace THEN Blank ELSE ch
BeforeStore == label \in Backward \cup Storing
Pending(row, col) == BeforeStore /\ row = CellY /\ col = CellX

\* The lines scrolled already are one row further on.
Shift(row) == IF (label = "scroll" /\ row < value) \/ label = "last_line" THEN 1 ELSE 0
TextRow(row) == First + row + Shift(row)

Pictured ==
    /\ \A row \in ScreenRows, col \in Columns :
          label # "clear" /\ TextRow(row) < MaxRows /\ ~Pending(row, col) =>
              video[row * W + col] = text[TextRow(row)][col]
    /\ BeforeStore /\ First + CellY < MaxRows => text[First + CellY][CellX] = Stores
    /\ \A row \in 0 .. MaxRows - 1, col \in Columns :
          row >= First + H => text[row][col] = Blank
    /\ label = "clear" => text = EmptyText

CursorSent == Sends("irq") /\ (label = "idle" => Shown)

TextInv == TextTypes /\ Placed /\ Aimed /\ Pictured /\ CursorSent

-----------------------------------------------------------------------------
(***************************************************************************)
(* Cells of the screen and of the text.                                    *)
(***************************************************************************)
\* Every cell has its place in video memory, ...
LEMMA CellInVideo ==
    ASSUME NEW row \in ScreenRows, NEW col \in Columns
    PROVE  /\ row * W + col \in 0 .. W * H - 1
           /\ (row * W + col) \div W = row
  <1>1. W \in Nat \ {0} /\ H \in Nat \ {0, 1} /\ row \in 0 .. H - 1 /\ col \in 0 .. W - 1
    BY ConsoleAssumption DEF ScreenRows, Columns
  <1> DEFINE p == row * W + col
             q == p \div W
             s == p % W
  <1>2. p \in 0 .. W * H - 1
    <2>1. (row + 1) * W <= H * W
      BY <1>1
    <2> QED
      BY <1>1, <2>1
  <1>3. q \in Nat /\ s \in 0 .. W - 1 /\ p = W * q + s
    <2>1. p \in Nat
      BY <1>1, <1>2
    <2> HIDE DEF p
    <2> QED
      BY <1>1, <2>1, DivMod
  <1>4. W * row + col = W * q + s
    BY <1>1, <1>3
  <1>5. q = row
    <2> HIDE DEF q, s
    <2> QED
      BY <1>1, <1>3, <1>4, QuotientUnique
  <1> QED
    BY <1>2, <1>5

\* ... and no two the same.
LEMMA CellsDiffer ==
    ASSUME NEW row \in ScreenRows, NEW col \in Columns,
           NEW row2 \in ScreenRows, NEW col2 \in Columns,
           row * W + col = row2 * W + col2
    PROVE  row = row2 /\ col = col2
  <1>1. row = row2
    BY CellInVideo
  <1> QED
    BY <1>1, ConsoleAssumption DEF ScreenRows, Columns

\* A line scrolled has the cells of the line below, or blanks.
LEMMA ScrolledCell ==
    ASSUME video \in [0 .. W * H - 1 -> Glyphs \cup {Blank}],
           NEW line \in ScreenRows, NEW row \in ScreenRows, NEW col \in Columns
    PROVE  ScrollLine(line)[row * W + col] =
               IF row # line THEN video[row * W + col]
               ELSE IF line = H - 1 THEN Blank ELSE video[(row + 1) * W + col]
  <1>1. /\ row * W + col \in 0 .. W * H - 1
        /\ (row * W + col) \div W = row
    BY CellInVideo
  <1>2. row * W + col + W = (row + 1) * W + col
    BY ConsoleAssumption DEF ScreenRows, Columns
  <1> QED
    BY <1>1, <1>2 DEF ScrollLine

\* The text with one character of it written.
Written(y, x, g) == [text EXCEPT ![y][x] = g]

\* A character written in the text changes its cell alone.
LEMMA TextExcept ==
    ASSUME TextTypes, NEW y \in Int, NEW x \in Columns, NEW g \in Glyphs \cup {Blank},
           text' = Written(y, x, g)
    PROVE  /\ text' \in [0 .. MaxRows - 1 -> [Columns -> Glyphs \cup {Blank}]]
           /\ y \in 0 .. MaxRows - 1 => text'[y][x] = g
           /\ \A row \in 0 .. MaxRows - 1, col \in Columns :
                 row # y \/ col # x => text'[row][col] = text[row][col]
  BY DEF TextTypes, Written

\* The empty text is blank everywhere.
LEMMA EmptyTextBlank ==
    /\ EmptyText \in [0 .. MaxRows - 1 -> [Columns -> Glyphs \cup {Blank}]]
    /\ \A row \in 0 .. MaxRows - 1, col \in Columns : EmptyText[row][col] = Blank
  BY DEF EmptyText, Columns

\* A step that neither draws nor moves the goal keeps the picture.
LEMMA Moves ==
    ASSUME TextInv, TextTypes', Placed', CursorSent',
           UNCHANGED <<textVars, video, char>>, UNCHANGED <<GoalX, GoalY>>,
           "clear" \notin {label, label'}, BeforeStore' = BeforeStore,
           BeforeStore => UNCHANGED <<kprint_x, kprint_y>> \/ ch = Backspace,
           \A row \in ScreenRows : Shift(row)' = Shift(row)
    PROVE  TextInv'
  <1>1. UNCHANGED <<text, top, text_x, text_y>> /\ UNCHANGED First
    BY DEF textVars, First
  <1>2. Aimed'
    BY <1>1 DEF TextInv, Aimed
  <1>3. Pictured'
    <2>1. UNCHANGED ch
      BY DEF ch
    <2>2. BeforeStore => UNCHANGED <<CellX, CellY, Stores>>
      BY <2>1 DEF CellX, CellY, Stores
    <2>3. \A row \in ScreenRows : TextRow(row)' = TextRow(row)
      BY <1>1 DEF TextRow
    <2>4. \A row, col : Pending(row, col)' = Pending(row, col)
      BY <2>2 DEF Pending
    <2>5. UNCHANGED <<video, text>>
      BY <1>1
    <2> QED
      BY <1>1, <2>2, <2>3, <2>4, <2>5 DEF TextInv, Pictured
  <1> QED
    BY <1>2, <1>3 DEF TextInv

-----------------------------------------------------------------------------
(***************************************************************************)
(* The accesses that draw nothing.                                         *)
(***************************************************************************)
\* The labels, one by one.
LEMMA TextLabelsAre ==
    TextLabels = {"idle", "read_x", "write_x", "test_x", "home", "read_y", "write_y",
                  "row", "store", "test_y", "scroll", "last_line", "cursor_row",
                  "cursor_col", "index_hi", "send_hi", "index_lo", "send_lo", "back",
                  "dec_x", "store_dec_x", "back_line", "dec_y", "store_dec_y",
                  "line_end", "clear", "clear_x", "clear_y", "set_x", "set_y"}
  BY LabelsAre DEF TextLabels

\* The printer goes on to a label.
LEMMA TextGoes ==
    ASSUME TextTypes, NEW to \in TextLabels, Goto("irq", to)
    PROVE  pc' \in [Procs -> TextLabels] /\ pc'["main"] = "idle" /\ label' = to
  BY DEF TextTypes, Goto, Procs, label

\* The printer keeps a number.
LEMMA TextKeeps ==
    ASSUME TextTypes, NEW v \in Int, Keep("irq", v)
    PROVE  reg' \in [Procs -> Int] /\ value' = v
  BY DEF TextTypes, Keep, Procs, value

\* The position of the next character is a number.
LEMMA TextPositionTyped ==
    ASSUME TextTypes
    PROVE  Position \in Int
  BY ConsoleAssumption DEF TextTypes, Position

\* The accesses of kputchar but for the store keep the goal.
LEMMA CharacterMoves ==
    ASSUME TextInv, UNCHANGED textVars, kputchar("irq"), ~Store("irq")
    PROVE  TextInv'
  <1>1. TextTypes /\ Placed /\ Aimed /\ CursorSent
    BY DEF TextInv
  <1>2. label \in TextLabels /\ value \in Int
    BY <1>1 DEF TextTypes, label, value, Procs
  <1> USE <1>1, <1>2, ConsoleAssumption, TextLabelsAre DEF Placed, GoalX, GoalY,
      Wrapping, BeforeStore, Shift, Storing, Scrolling, Backward,
      ScreenRows, Columns
  <1>3. CASE Home("irq")
    <2>1. /\ label = "home" /\ Goto("irq", "read_y")
          /\ kprint_x' = 0
          /\ UNCHANGED <<kprint_y, video, offscreen, crtc_index, crtc, char, reg, textVars>>
      BY <1>3 DEF Home, At, screen, cursor, label, value
    <2>2. /\ pc' \in [Procs -> TextLabels] /\ pc'["main"] = "idle"
          /\ label' = "read_y"
          /\ reg' \in [Procs -> Int] /\ UNCHANGED value /\ UNCHANGED ch
      BY <2>1, TextGoes DEF ch, value, TextTypes
    <2>3. TextTypes'
      BY <2>1, <2>2 DEF TextTypes, textVars
    <2>4. Placed' /\ UNCHANGED <<GoalX, GoalY>>
      BY <2>1, <2>2
    <2>5. CursorSent'
      BY <2>1, <2>2 DEF CursorSent, Sends, label, value
    <2>6. /\ "clear" \notin {label, label'} /\ BeforeStore' = BeforeStore
          /\ \A row \in ScreenRows : Shift(row)' = Shift(row)
          /\ BeforeStore => UNCHANGED <<kprint_x, kprint_y>> \/ ch = Backspace
      BY <2>1, <2>2
    <2> QED
      BY ONLY TextInv, UNCHANGED textVars, <2>1, <2>2, <2>3, <2>4, <2>5, <2>6,
         Moves, Zenon
  <1>4. CASE ReadY("irq")
    <2>1. /\ label = "read_y" /\ Goto("irq", "write_y")
          /\ Keep("irq", kprint_y)
          /\ UNCHANGED <<kprint_x, kprint_y, video, offscreen, crtc_index, crtc, char,
                         textVars>>
      BY <1>4 DEF ReadY, At, screen, cursor, label, value
    <2>2. /\ pc' \in [Procs -> TextLabels] /\ pc'["main"] = "idle"
          /\ label' = "write_y"
          /\ reg' \in [Procs -> Int] /\ value' = kprint_y /\ UNCHANGED ch
      BY <2>1, TextGoes, TextKeeps DEF ch, TextTypes
    <2>3. TextTypes'
      BY <2>1, <2>2 DEF TextTypes, textVars
    <2>4. Placed' /\ UNCHANGED <<GoalX, GoalY>>
      BY <2>1, <2>2
    <2>5. CursorSent'
      BY <2>1, <2>2 DEF CursorSent, Sends, label, value
    <2>6. /\ "clear" \notin {label, label'} /\ BeforeStore' = BeforeStore
          /\ \A row \in ScreenRows : Shift(row)' = Shift(row)
          /\ BeforeStore => UNCHANGED <<kprint_x, kprint_y>> \/ ch = Backspace
      BY <2>1, <2>2
    <2> QED
      BY ONLY TextInv, UNCHANGED textVars, <2>1, <2>2, <2>3, <2>4, <2>5, <2>6,
         Moves, Zenon
  <1>5. CASE WriteY("irq")
    <2>1. /\ label = "write_y" /\ Goto("irq", "test_y")
          /\ kprint_y' = value + 1
          /\ UNCHANGED <<kprint_x, video, offscreen, crtc_index, crtc, char, reg, textVars>>
      BY <1>5 DEF WriteY, At, screen, cursor, label, value
    <2>2. /\ pc' \in [Procs -> TextLabels] /\ pc'["main"] = "idle"
          /\ label' = "test_y"
          /\ reg' \in [Procs -> Int] /\ UNCHANGED value /\ UNCHANGED ch
      BY <2>1, TextGoes DEF ch, value, TextTypes
    <2>3. TextTypes'
      BY <2>1, <2>2 DEF TextTypes, textVars
    <2>4. Placed' /\ UNCHANGED <<GoalX, GoalY>>
      BY <2>1, <2>2
    <2>5. CursorSent'
      BY <2>1, <2>2 DEF CursorSent, Sends, label, value
    <2>6. /\ "clear" \notin {label, label'} /\ BeforeStore' = BeforeStore
          /\ \A row \in ScreenRows : Shift(row)' = Shift(row)
          /\ BeforeStore => UNCHANGED <<kprint_x, kprint_y>> \/ ch = Backspace
      BY <2>1, <2>2
    <2> QED
      BY ONLY TextInv, UNCHANGED textVars, <2>1, <2>2, <2>3, <2>4, <2>5, <2>6,
         Moves, Zenon
  <1>6. CASE ReadX("irq")
    <2>1. /\ label = "read_x" /\ Goto("irq", "write_x")
          /\ Keep("irq", kprint_x)
          /\ UNCHANGED <<kprint_x, kprint_y, video, offscreen, crtc_index, crtc, char,
                         textVars>>
      BY <1>6 DEF ReadX, At, screen, cursor, label, value
    <2>2. /\ pc' \in [Procs -> TextLabels] /\ pc'["main"] = "idle"
          /\ label' = "write_x"
          /\ reg' \in [Procs -> Int] /\ value' = kprint_x /\ UNCHANGED ch
      BY <2>1, TextGoes, TextKeeps DEF ch, TextTypes
    <2>3. TextTypes'
      BY <2>1, <2>2 DEF TextTypes, textVars
    <2>4. Placed' /\ UNCHANGED <<GoalX, GoalY>>
      BY <2>1, <2>2
    <2>5. CursorSent'
      BY <2>1, <2>2 DEF CursorSent, Sends, label, value
    <2>6. /\ "clear" \notin {label, label'} /\ BeforeStore' = BeforeStore
          /\ \A row \in ScreenRows : Shift(row)' = Shift(row)
          /\ BeforeStore => UNCHANGED <<kprint_x, kprint_y>> \/ ch = Backspace
      BY <2>1, <2>2
    <2> QED
      BY ONLY TextInv, UNCHANGED textVars, <2>1, <2>2, <2>3, <2>4, <2>5, <2>6,
         Moves, Zenon
  <1>7. CASE WriteX("irq")
    <2>1. /\ label = "write_x" /\ Goto("irq", "test_x")
          /\ kprint_x' = value + 1
          /\ UNCHANGED <<kprint_y, video, offscreen, crtc_index, crtc, char, reg, textVars>>
      BY <1>7 DEF WriteX, At, screen, cursor, label, value
    <2>2. /\ pc' \in [Procs -> TextLabels] /\ pc'["main"] = "idle"
          /\ label' = "test_x"
          /\ reg' \in [Procs -> Int] /\ UNCHANGED value /\ UNCHANGED ch
      BY <2>1, TextGoes DEF ch, value, TextTypes
    <2>3. TextTypes'
      BY <2>1, <2>2 DEF TextTypes, textVars
    <2>4. Placed' /\ UNCHANGED <<GoalX, GoalY>>
      BY <2>1, <2>2, SMTT(30)
    <2>5. CursorSent'
      BY <2>1, <2>2 DEF CursorSent, Sends, label, value
    <2>6. /\ "clear" \notin {label, label'} /\ BeforeStore' = BeforeStore
          /\ \A row \in ScreenRows : Shift(row)' = Shift(row)
          /\ BeforeStore => UNCHANGED <<kprint_x, kprint_y>> \/ ch = Backspace
      BY <2>1, <2>2
    <2> QED
      BY ONLY TextInv, UNCHANGED textVars, <2>1, <2>2, <2>3, <2>4, <2>5, <2>6,
         Moves, Zenon
  <1>8. CASE TestX("irq")
    <2>1. /\ label = "test_x" /\ Goto("irq", IF kprint_x >= W THEN "home" ELSE "test_y")
          /\ UNCHANGED <<kprint_x, kprint_y, video, offscreen, crtc_index, crtc, char,
                         reg, textVars>>
      BY <1>8 DEF TestX, At, screen, cursor, label, value, LineFull
    <2>2. /\ pc' \in [Procs -> TextLabels] /\ pc'["main"] = "idle"
          /\ label' = IF kprint_x >= W THEN "home" ELSE "test_y"
          /\ reg' \in [Procs -> Int] /\ UNCHANGED value /\ UNCHANGED ch
      BY <2>1, TextGoes DEF ch, value, TextTypes
    <2>3. TextTypes'
      BY <2>1, <2>2 DEF TextTypes, textVars
    <2>4. Placed' /\ UNCHANGED <<GoalX, GoalY>>
      BY <2>1, <2>2
    <2>5. CursorSent'
      BY <2>1, <2>2 DEF CursorSent, Sends, label, value
    <2>6. /\ "clear" \notin {label, label'} /\ BeforeStore' = BeforeStore
          /\ \A row \in ScreenRows : Shift(row)' = Shift(row)
          /\ BeforeStore => UNCHANGED <<kprint_x, kprint_y>> \/ ch = Backspace
      BY <2>1, <2>2
    <2> QED
      BY ONLY TextInv, UNCHANGED textVars, <2>1, <2>2, <2>3, <2>4, <2>5, <2>6,
         Moves, Zenon
  <1>9. CASE Back("irq")
    <2>1. /\ label = "back" /\ Goto("irq", IF kprint_x > 0 THEN "dec_x" ELSE "back_line")
          /\ UNCHANGED <<kprint_x, kprint_y, video, offscreen, crtc_index, crtc, char,
                         reg, textVars>>
      BY <1>9 DEF Back, At, screen, cursor, label, value
    <2>2. /\ pc' \in [Procs -> TextLabels] /\ pc'["main"] = "idle"
          /\ label' = IF kprint_x > 0 THEN "dec_x" ELSE "back_line"
          /\ reg' \in [Procs -> Int] /\ UNCHANGED value /\ UNCHANGED ch
      BY <2>1, TextGoes DEF ch, value, TextTypes
    <2>3. TextTypes'
      BY <2>1, <2>2 DEF TextTypes, textVars
    <2>4. Placed' /\ UNCHANGED <<GoalX, GoalY>>
      BY <2>1, <2>2
    <2>5. CursorSent'
      BY <2>1, <2>2 DEF CursorSent, Sends, label, value
    <2>6. /\ "clear" \notin {label, label'} /\ BeforeStore' = BeforeStore
          /\ \A row \in ScreenRows : Shift(row)' = Shift(row)
          /\ BeforeStore => UNCHANGED <<kprint_x, kprint_y>> \/ ch = Backspace
      BY <2>1, <2>2
    <2> QED
      BY ONLY TextInv, UNCHANGED textVars, <2>1, <2>2, <2>3, <2>4, <2>5, <2>6,
         Moves, Zenon
  <1>10. CASE DecX("irq")
    <2>1. /\ label = "dec_x" /\ Goto("irq", "store_dec_x")
          /\ Keep("irq", kprint_x)
          /\ UNCHANGED <<kprint_x, kprint_y, video, offscreen, crtc_index, crtc, char,
                         textVars>>
      BY <1>10 DEF DecX, At, screen, cursor, label, value
    <2>2. /\ pc' \in [Procs -> TextLabels] /\ pc'["main"] = "idle"
          /\ label' = "store_dec_x"
          /\ reg' \in [Procs -> Int] /\ value' = kprint_x /\ UNCHANGED ch
      BY <2>1, TextGoes, TextKeeps DEF ch, TextTypes
    <2>3. TextTypes'
      BY <2>1, <2>2 DEF TextTypes, textVars
    <2>4. Placed' /\ UNCHANGED <<GoalX, GoalY>>
      BY <2>1, <2>2
    <2>5. CursorSent'
      BY <2>1, <2>2 DEF CursorSent, Sends, label, value
    <2>6. /\ "clear" \notin {label, label'} /\ BeforeStore' = BeforeStore
          /\ \A row \in ScreenRows : Shift(row)' = Shift(row)
          /\ BeforeStore => UNCHANGED <<kprint_x, kprint_y>> \/ ch = Backspace
      BY <2>1, <2>2
    <2> QED
      BY ONLY TextInv, UNCHANGED textVars, <2>1, <2>2, <2>3, <2>4, <2>5, <2>6,
         Moves, Zenon
  <1>11. CASE StoreDecX("irq")
    <2>1. /\ label = "store_dec_x" /\ Goto("irq", "row")
          /\ kprint_x' = value - 1
          /\ UNCHANGED <<kprint_y, video, offscreen, crtc_index, crtc, char, reg, textVars>>
      BY <1>11 DEF StoreDecX, At, screen, cursor, label, value
    <2>2. /\ pc' \in [Procs -> TextLabels] /\ pc'["main"] = "idle"
          /\ label' = "row"
          /\ reg' \in [Procs -> Int] /\ UNCHANGED value /\ UNCHANGED ch
      BY <2>1, TextGoes DEF ch, value, TextTypes
    <2>3. TextTypes'
      BY <2>1, <2>2 DEF TextTypes, textVars
    <2>4. Placed' /\ UNCHANGED <<GoalX, GoalY>>
      BY <2>1, <2>2
    <2>5. CursorSent'
      BY <2>1, <2>2 DEF CursorSent, Sends, label, value
    <2>6. /\ "clear" \notin {label, label'} /\ BeforeStore' = BeforeStore
          /\ \A row \in ScreenRows : Shift(row)' = Shift(row)
          /\ BeforeStore => UNCHANGED <<kprint_x, kprint_y>> \/ ch = Backspace
      BY <2>1, <2>2
    <2> QED
      BY ONLY TextInv, UNCHANGED textVars, <2>1, <2>2, <2>3, <2>4, <2>5, <2>6,
         Moves, Zenon
  <1>12. CASE BackLine("irq")
    <2>1. /\ label = "back_line" /\ Goto("irq", IF kprint_y = 0 THEN "row" ELSE "dec_y")
          /\ UNCHANGED <<kprint_x, kprint_y, video, offscreen, crtc_index, crtc, char,
                         reg, textVars>>
      BY <1>12 DEF BackLine, At, screen, cursor, label, value, AtTop
    <2>2. /\ pc' \in [Procs -> TextLabels] /\ pc'["main"] = "idle"
          /\ label' = IF kprint_y = 0 THEN "row" ELSE "dec_y"
          /\ reg' \in [Procs -> Int] /\ UNCHANGED value /\ UNCHANGED ch
      BY <2>1, TextGoes DEF ch, value, TextTypes
    <2>3. TextTypes'
      BY <2>1, <2>2 DEF TextTypes, textVars
    <2>4. Placed' /\ UNCHANGED <<GoalX, GoalY>>
      BY <2>1, <2>2
    <2>5. CursorSent'
      BY <2>1, <2>2 DEF CursorSent, Sends, label, value
    <2>6. /\ "clear" \notin {label, label'} /\ BeforeStore' = BeforeStore
          /\ \A row \in ScreenRows : Shift(row)' = Shift(row)
          /\ BeforeStore => UNCHANGED <<kprint_x, kprint_y>> \/ ch = Backspace
      BY <2>1, <2>2
    <2> QED
      BY ONLY TextInv, UNCHANGED textVars, <2>1, <2>2, <2>3, <2>4, <2>5, <2>6,
         Moves, Zenon
  <1>13. CASE DecY("irq")
    <2>1. /\ label = "dec_y" /\ Goto("irq", "store_dec_y")
          /\ Keep("irq", kprint_y)
          /\ UNCHANGED <<kprint_x, kprint_y, video, offscreen, crtc_index, crtc, char,
                         textVars>>
      BY <1>13 DEF DecY, At, screen, cursor, label, value
    <2>2. /\ pc' \in [Procs -> TextLabels] /\ pc'["main"] = "idle"
          /\ label' = "store_dec_y"
          /\ reg' \in [Procs -> Int] /\ value' = kprint_y /\ UNCHANGED ch
      BY <2>1, TextGoes, TextKeeps DEF ch, TextTypes
    <2>3. TextTypes'
      BY <2>1, <2>2 DEF TextTypes, textVars
    <2>4. Placed' /\ UNCHANGED <<GoalX, GoalY>>
      BY <2>1, <2>2
    <2>5. CursorSent'
      BY <2>1, <2>2 DEF CursorSent, Sends, label, value
    <2>6. /\ "clear" \notin {label, label'} /\ BeforeStore' = BeforeStore
          /\ \A row \in ScreenRows : Shift(row)' = Shift(row)
          /\ BeforeStore => UNCHANGED <<kprint_x, kprint_y>> \/ ch = Backspace
      BY <2>1, <2>2
    <2> QED
      BY ONLY TextInv, UNCHANGED textVars, <2>1, <2>2, <2>3, <2>4, <2>5, <2>6,
         Moves, Zenon
  <1>14. CASE StoreDecY("irq")
    <2>1. /\ label = "store_dec_y" /\ Goto("irq", "line_end")
          /\ kprint_y' = value - 1
          /\ UNCHANGED <<kprint_x, video, offscreen, crtc_index, crtc, char, reg, textVars>>
      BY <1>14 DEF StoreDecY, At, screen, cursor, label, value
    <2>2. /\ pc' \in [Procs -> TextLabels] /\ pc'["main"] = "idle"
          /\ label' = "line_end"
          /\ reg' \in [Procs -> Int] /\ UNCHANGED value /\ UNCHANGED ch
      BY <2>1, TextGoes DEF ch, value, TextTypes
    <2>3. TextTypes'
      BY <2>1, <2>2 DEF TextTypes, textVars
    <2>4. Placed' /\ UNCHANGED <<GoalX, GoalY>>
      BY <2>1, <2>2
    <2>5. CursorSent'
      BY <2>1, <2>2 DEF CursorSent, Sends, label, value
    <2>6. /\ "clear" \notin {label, label'} /\ BeforeStore' = BeforeStore
          /\ \A row \in ScreenRows : Shift(row)' = Shift(row)
          /\ BeforeStore => UNCHANGED <<kprint_x, kprint_y>> \/ ch = Backspace
      BY <2>1, <2>2
    <2> QED
      BY ONLY TextInv, UNCHANGED textVars, <2>1, <2>2, <2>3, <2>4, <2>5, <2>6,
         Moves, Zenon
  <1>15. CASE LineEnd("irq")
    <2>1. /\ label = "line_end" /\ Goto("irq", "row")
          /\ kprint_x' = W - 1
          /\ UNCHANGED <<kprint_y, video, offscreen, crtc_index, crtc, char, reg, textVars>>
      BY <1>15 DEF LineEnd, At, screen, cursor, label, value
    <2>2. /\ pc' \in [Procs -> TextLabels] /\ pc'["main"] = "idle"
          /\ label' = "row"
          /\ reg' \in [Procs -> Int] /\ UNCHANGED value /\ UNCHANGED ch
      BY <2>1, TextGoes DEF ch, value, TextTypes
    <2>3. TextTypes'
      BY <2>1, <2>2 DEF TextTypes, textVars
    <2>4. Placed' /\ UNCHANGED <<GoalX, GoalY>>
      BY <2>1, <2>2, SMTT(30)
    <2>5. CursorSent'
      BY <2>1, <2>2 DEF CursorSent, Sends, label, value
    <2>6. /\ "clear" \notin {label, label'} /\ BeforeStore' = BeforeStore
          /\ \A row \in ScreenRows : Shift(row)' = Shift(row)
          /\ BeforeStore => UNCHANGED <<kprint_x, kprint_y>> \/ ch = Backspace
      BY <2>1, <2>2
    <2> QED
      BY ONLY TextInv, UNCHANGED textVars, <2>1, <2>2, <2>3, <2>4, <2>5, <2>6,
         Moves, Zenon
  <1>16. CASE Row("irq")
    <2>1. /\ label = "row" /\ Goto("irq", "store")
          /\ Keep("irq", kprint_y)
          /\ UNCHANGED <<kprint_x, kprint_y, video, offscreen, crtc_index, crtc, char,
                         textVars>>
      BY <1>16 DEF Row, At, screen, cursor, label, value
    <2>2. /\ pc' \in [Procs -> TextLabels] /\ pc'["main"] = "idle"
          /\ label' = "store"
          /\ reg' \in [Procs -> Int] /\ value' = kprint_y /\ UNCHANGED ch
      BY <2>1, TextGoes, TextKeeps DEF ch, TextTypes
    <2>3. TextTypes'
      BY <2>1, <2>2 DEF TextTypes, textVars
    <2>4. Placed' /\ UNCHANGED <<GoalX, GoalY>>
      BY <2>1, <2>2
    <2>5. CursorSent'
      BY <2>1, <2>2 DEF CursorSent, Sends, label, value
    <2>6. /\ "clear" \notin {label, label'} /\ BeforeStore' = BeforeStore
          /\ \A row \in ScreenRows : Shift(row)' = Shift(row)
          /\ BeforeStore => UNCHANGED <<kprint_x, kprint_y>> \/ ch = Backspace
      BY <2>1, <2>2
    <2> QED
      BY ONLY TextInv, UNCHANGED textVars, <2>1, <2>2, <2>3, <2>4, <2>5, <2>6,
         Moves, Zenon
  <1>17. CASE TestY("irq")
    <2>1. /\ label = "test_y"
          /\ Goto("irq", IF kprint_y >= H THEN "scroll" ELSE "cursor_row")
          /\ Keep("irq", 0)
          /\ UNCHANGED <<kprint_x, kprint_y, video, offscreen, crtc_index, crtc, char,
                         textVars>>
      BY <1>17 DEF TestY, At, screen, cursor, label, value, PastBottom
    <2>2. /\ pc' \in [Procs -> TextLabels] /\ pc'["main"] = "idle"
          /\ label' = IF kprint_y >= H THEN "scroll" ELSE "cursor_row"
          /\ reg' \in [Procs -> Int] /\ value' = 0 /\ UNCHANGED ch
      BY <2>1, TextGoes, TextKeeps DEF ch, TextTypes
    <2>3. TextTypes'
      BY <2>1, <2>2 DEF TextTypes, textVars
    <2>4. Placed' /\ UNCHANGED <<GoalX, GoalY>>
      BY <2>1, <2>2
    <2>5. CursorSent'
      BY <2>1, <2>2 DEF CursorSent, Sends, label, value
    <2>6. /\ "clear" \notin {label, label'} /\ BeforeStore' = BeforeStore
          /\ \A row \in ScreenRows : Shift(row)' = Shift(row)
          /\ BeforeStore => UNCHANGED <<kprint_x, kprint_y>> \/ ch = Backspace
      BY <2>1, <2>2
    <2> QED
      BY ONLY TextInv, UNCHANGED textVars, <2>1, <2>2, <2>3, <2>4, <2>5, <2>6,
         Moves, Zenon
  <1> QED
    BY <1>3, <1>4, <1>5, <1>6, <1>7, <1>8, <1>9, <1>10, <1>11,
       <1>12, <1>13, <1>14, <1>15, <1>16, <1>17
       DEF kputchar

\* Those of update_hardware_cursor send the position.
LEMMA CursorMoves ==
    ASSUME TextInv, UNCHANGED textVars, update_hardware_cursor("irq")
    PROVE  TextInv'
  <1>1. TextTypes /\ Placed /\ Aimed /\ CursorSent
    BY DEF TextInv
  <1>2. label \in TextLabels /\ value \in Int
    BY <1>1 DEF TextTypes, label, value, Procs
  <1>3. /\ kprint_x \in Int /\ kprint_y \in Int /\ crtc \in [{"hi", "lo"} -> Int]
        /\ label = "cursor_col" => value = kprint_y
        /\ label \in {"index_hi", "send_hi", "index_lo", "send_lo"} => value = Position
        /\ label = "send_hi" => crtc_index = "hi"
        /\ label = "send_lo" => crtc_index = "lo"
        /\ label \in {"index_lo", "send_lo"} => crtc["hi"] = Position \div Byte
    BY <1>1 DEF TextTypes, CursorSent, Sends, label, value
  <1> USE <1>1, <1>2, <1>3, ConsoleAssumption, TextLabelsAre DEF Placed, GoalX, GoalY,
      Wrapping, BeforeStore, Shift, Storing, Scrolling, Backward,
      ScreenRows, Columns
  <1>4. CASE CursorRow("irq")
    <2>1. /\ label = "cursor_row" /\ Goto("irq", "cursor_col")
          /\ Keep("irq", kprint_y)
          /\ UNCHANGED <<kprint_x, kprint_y, video, offscreen, crtc_index, crtc, char,
                         textVars>>
      BY <1>4 DEF CursorRow, At, screen, cursor, label, value
    <2>2. UNCHANGED Position
      BY <2>1 DEF Position
    <2>3. /\ pc' \in [Procs -> TextLabels] /\ pc'["main"] = "idle"
          /\ label' = "cursor_col"
          /\ reg' \in [Procs -> Int] /\ value' = kprint_y /\ UNCHANGED ch
      BY <2>1, <2>2, TextGoes, TextKeeps DEF ch, TextTypes
    <2>4. TextTypes'
      BY <2>1, <2>2, <2>3 DEF TextTypes, textVars
    <2>5. Placed' /\ UNCHANGED <<GoalX, GoalY>>
      BY <2>1, <2>2, <2>3
    <2>6. CursorSent'
      BY <2>1, <2>2, <2>3 DEF CursorSent, Sends, label, value
    <2>7. /\ "clear" \notin {label, label'} /\ BeforeStore' = BeforeStore
          /\ \A row \in ScreenRows : Shift(row)' = Shift(row)
          /\ BeforeStore => UNCHANGED <<kprint_x, kprint_y>> \/ ch = Backspace
      BY <2>1, <2>2, <2>3
    <2> QED
      BY ONLY TextInv, UNCHANGED textVars, <2>1, <2>3, <2>4, <2>5, <2>6, <2>7,
         Moves, Zenon
  <1>5. CASE CursorCol("irq")
    <2> DEFINE sent == value * W + kprint_x
    <2>1. /\ label = "cursor_col" /\ Goto("irq", "index_hi")
          /\ Keep("irq", sent)
          /\ UNCHANGED <<kprint_x, kprint_y, video, offscreen, crtc_index, crtc, char,
                         textVars>>
      BY <1>5 DEF CursorCol, At, screen, cursor, label, value
    <2>2. UNCHANGED Position
      BY <2>1 DEF Position
    <2>3. sent \in Int /\ sent = Position
      BY <2>1 DEF Position
    <2> HIDE DEF sent
    <2>4. /\ pc' \in [Procs -> TextLabels] /\ pc'["main"] = "idle"
          /\ label' = "index_hi"
          /\ reg' \in [Procs -> Int] /\ value' = sent /\ UNCHANGED ch
      BY <2>1, <2>2, <2>3, TextGoes, TextKeeps DEF ch, TextTypes
    <2>5. TextTypes'
      BY <2>1, <2>2, <2>3, <2>4 DEF TextTypes, textVars
    <2>6. Placed' /\ UNCHANGED <<GoalX, GoalY>>
      BY <2>1, <2>2, <2>3, <2>4
    <2>7. CursorSent'
      BY <2>1, <2>2, <2>3, <2>4 DEF CursorSent, Sends, label, value
    <2>8. /\ "clear" \notin {label, label'} /\ BeforeStore' = BeforeStore
          /\ \A row \in ScreenRows : Shift(row)' = Shift(row)
          /\ BeforeStore => UNCHANGED <<kprint_x, kprint_y>> \/ ch = Backspace
      BY <2>1, <2>2, <2>3, <2>4
    <2> QED
      BY ONLY TextInv, UNCHANGED textVars, <2>1, <2>4, <2>5, <2>6, <2>7, <2>8,
         Moves, Zenon
  <1>6. CASE SelectByte("irq", "index_hi", "hi", "send_hi")
    <2>1. /\ label = "index_hi" /\ Goto("irq", "send_hi")
          /\ crtc_index' = "hi"
          /\ UNCHANGED <<kprint_x, kprint_y, video, offscreen, crtc, char, reg, textVars>>
      BY <1>6 DEF SelectByte, At, screen, cursor, label, value
    <2>2. UNCHANGED Position
      BY <2>1 DEF Position
    <2>3. /\ pc' \in [Procs -> TextLabels] /\ pc'["main"] = "idle"
          /\ label' = "send_hi"
          /\ reg' \in [Procs -> Int] /\ UNCHANGED value /\ UNCHANGED ch
      BY <2>1, <2>2, TextGoes DEF ch, value, TextTypes
    <2>4. TextTypes'
      BY <2>1, <2>2, <2>3 DEF TextTypes, textVars
    <2>5. Placed' /\ UNCHANGED <<GoalX, GoalY>>
      BY <2>1, <2>2, <2>3
    <2>6. CursorSent'
      BY <2>1, <2>2, <2>3 DEF CursorSent, Sends, label, value
    <2>7. /\ "clear" \notin {label, label'} /\ BeforeStore' = BeforeStore
          /\ \A row \in ScreenRows : Shift(row)' = Shift(row)
          /\ BeforeStore => UNCHANGED <<kprint_x, kprint_y>> \/ ch = Backspace
      BY <2>1, <2>2, <2>3
    <2> QED
      BY ONLY TextInv, UNCHANGED textVars, <2>1, <2>3, <2>4, <2>5, <2>6, <2>7,
         Moves, Zenon
  <1>7. CASE SendByte("irq", "send_hi", reg["irq"] \div Byte, "index_lo")
    <2>1. /\ label = "send_hi" /\ Goto("irq", "index_lo")
          /\ crtc' = [crtc EXCEPT ![crtc_index] = value \div Byte]
          /\ UNCHANGED <<kprint_x, kprint_y, video, offscreen, crtc_index, char, reg,
                         textVars>>
      BY <1>7 DEF SendByte, At, screen, cursor, label, value
    <2>2. UNCHANGED Position
      BY <2>1 DEF Position
    <2>3. value \div Byte \in Int
      BY Halves
    <2>4. crtc' \in [{"hi", "lo"} -> Int] /\ crtc'["hi"] = Position \div Byte
      BY <2>1, <2>2, <2>3
    <2>5. /\ pc' \in [Procs -> TextLabels] /\ pc'["main"] = "idle"
          /\ label' = "index_lo"
          /\ reg' \in [Procs -> Int] /\ UNCHANGED value /\ UNCHANGED ch
      BY <2>1, <2>2, <2>3, <2>4, TextGoes DEF ch, value, TextTypes
    <2>6. TextTypes'
      BY <2>1, <2>2, <2>3, <2>4, <2>5 DEF TextTypes, textVars
    <2>7. Placed' /\ UNCHANGED <<GoalX, GoalY>>
      BY <2>1, <2>2, <2>3, <2>4, <2>5
    <2>8. CursorSent'
      BY <2>1, <2>2, <2>3, <2>4, <2>5 DEF CursorSent, Sends, label, value
    <2>9. /\ "clear" \notin {label, label'} /\ BeforeStore' = BeforeStore
          /\ \A row \in ScreenRows : Shift(row)' = Shift(row)
          /\ BeforeStore => UNCHANGED <<kprint_x, kprint_y>> \/ ch = Backspace
      BY <2>1, <2>2, <2>3, <2>4, <2>5
    <2> QED
      BY ONLY TextInv, UNCHANGED textVars, <2>1, <2>5, <2>6, <2>7, <2>8, <2>9,
         Moves, Zenon
  <1>8. CASE SelectByte("irq", "index_lo", "lo", "send_lo")
    <2>1. /\ label = "index_lo" /\ Goto("irq", "send_lo")
          /\ crtc_index' = "lo"
          /\ UNCHANGED <<kprint_x, kprint_y, video, offscreen, crtc, char, reg, textVars>>
      BY <1>8 DEF SelectByte, At, screen, cursor, label, value
    <2>2. UNCHANGED Position
      BY <2>1 DEF Position
    <2>3. /\ pc' \in [Procs -> TextLabels] /\ pc'["main"] = "idle"
          /\ label' = "send_lo"
          /\ reg' \in [Procs -> Int] /\ UNCHANGED value /\ UNCHANGED ch
      BY <2>1, <2>2, TextGoes DEF ch, value, TextTypes
    <2>4. TextTypes'
      BY <2>1, <2>2, <2>3 DEF TextTypes, textVars
    <2>5. Placed' /\ UNCHANGED <<GoalX, GoalY>>
      BY <2>1, <2>2, <2>3
    <2>6. CursorSent'
      BY <2>1, <2>2, <2>3 DEF CursorSent, Sends, label, value
    <2>7. /\ "clear" \notin {label, label'} /\ BeforeStore' = BeforeStore
          /\ \A row \in ScreenRows : Shift(row)' = Shift(row)
          /\ BeforeStore => UNCHANGED <<kprint_x, kprint_y>> \/ ch = Backspace
      BY <2>1, <2>2, <2>3
    <2> QED
      BY ONLY TextInv, UNCHANGED textVars, <2>1, <2>3, <2>4, <2>5, <2>6, <2>7,
         Moves, Zenon
  <1>9. CASE SendByte("irq", "send_lo", LowByte(reg["irq"]), "idle")
    <2>1. /\ label = "send_lo" /\ Goto("irq", "idle")
          /\ crtc' = [crtc EXCEPT ![crtc_index] = value % Byte]
          /\ UNCHANGED <<kprint_x, kprint_y, video, offscreen, crtc_index, char, reg,
                         textVars>>
      BY <1>9 DEF SendByte, At, screen, cursor, label, value, LowByte
    <2>2. UNCHANGED Position
      BY <2>1 DEF Position
    <2>3. value = Position /\ crtc["hi"] = Position \div Byte /\ crtc_index = "lo"
      BY <2>1
    <2>4. value \in Int
      OBVIOUS
    <2>5. /\ value % Byte \in Int /\ value \div Byte \in Int
          /\ value = Byte * (value \div Byte) + (value % Byte)
      BY ONLY <2>4, Halves, Zenon
    <2>6. /\ crtc' \in [{"hi", "lo"} -> Int]
          /\ crtc'["hi"] = value \div Byte /\ crtc'["lo"] = value % Byte
      BY <2>1, <2>2, <2>3, <2>4, <2>5
    <2>7. Shown'
      <3> DEFINE q == value \div Byte
                 r == value % Byte
      <3>1. q \in Int /\ r \in Int /\ Byte \in Int /\ value = Byte * q + r
        BY <2>5, ConsoleAssumption
      <3>2. crtc'["hi"] = q /\ crtc'["lo"] = r /\ Position' = value
        BY <2>6, <2>2, <2>3
      <3> HIDE DEF q, r
      <3>3. q * Byte + r = value
        BY ONLY <3>1
      <3> QED
        BY ONLY <3>2, <3>3, Zenon DEF Shown
    <2>8. /\ pc' \in [Procs -> TextLabels] /\ pc'["main"] = "idle"
          /\ label' = "idle"
          /\ reg' \in [Procs -> Int] /\ UNCHANGED value /\ UNCHANGED ch
      BY <2>1, <2>2, <2>3, <2>4, <2>5, <2>6, <2>7, TextGoes DEF ch, value, TextTypes
    <2>9. TextTypes'
      BY <2>1, <2>2, <2>3, <2>4, <2>5, <2>6, <2>7, <2>8 DEF TextTypes, textVars
    <2>10. Placed' /\ UNCHANGED <<GoalX, GoalY>>
      BY <2>1, <2>2, <2>3, <2>4, <2>5, <2>6, <2>7, <2>8
    <2>11. CursorSent'
      BY <2>1, <2>2, <2>3, <2>4, <2>5, <2>6, <2>7, <2>8 DEF CursorSent, Sends, label, value
    <2>12. /\ "clear" \notin {label, label'} /\ BeforeStore' = BeforeStore
          /\ \A row \in ScreenRows : Shift(row)' = Shift(row)
          /\ BeforeStore => UNCHANGED <<kprint_x, kprint_y>> \/ ch = Backspace
      BY <2>1, <2>2, <2>3, <2>4, <2>5, <2>6, <2>7, <2>8
    <2> QED
      BY ONLY TextInv, UNCHANGED textVars, <2>1, <2>8, <2>9, <2>10, <2>11, <2>12,
         Moves, Zenon
  <1> QED
    BY <1>4, <1>5, <1>6, <1>7, <1>8, <1>9 DEF update_hardware_cursor

\* So do those of kclear_screen and kset_cursor_position to the coordinates.
LEMMA CoordinatesMove ==
    ASSUME TextInv, UNCHANGED textVars,
           ClearX("irq") \/ ClearY("irq") \/ kset_cursor_position("irq")
    PROVE  TextInv'
  <1>1. TextTypes /\ Placed /\ Aimed /\ CursorSent
    BY DEF TextInv
  <1>2. label \in TextLabels /\ value \in Int
    BY <1>1 DEF TextTypes, label, value, Procs
  <1> USE <1>1, <1>2, ConsoleAssumption, TextLabelsAre DEF Placed, GoalX, GoalY,
      Wrapping, BeforeStore, Shift, Storing, Scrolling, Backward,
      ScreenRows, Columns
  <1>3. CASE ClearX("irq")
    <2>1. /\ label = "clear_x" /\ Goto("irq", "clear_y")
          /\ kprint_x' = 0
          /\ UNCHANGED <<kprint_y, video, offscreen, crtc_index, crtc, char, reg, textVars>>
      BY <1>3 DEF ClearX, At, screen, cursor, label, value
    <2>2. /\ pc' \in [Procs -> TextLabels] /\ pc'["main"] = "idle"
          /\ label' = "clear_y"
          /\ reg' \in [Procs -> Int] /\ UNCHANGED value /\ UNCHANGED ch
      BY <2>1, TextGoes DEF ch, value, TextTypes
    <2>3. TextTypes'
      BY <2>1, <2>2 DEF TextTypes, textVars
    <2>4. Placed' /\ UNCHANGED <<GoalX, GoalY>>
      BY <2>1, <2>2
    <2>5. CursorSent'
      BY <2>1, <2>2 DEF CursorSent, Sends, label, value
    <2>6. /\ "clear" \notin {label, label'} /\ BeforeStore' = BeforeStore
          /\ \A row \in ScreenRows : Shift(row)' = Shift(row)
          /\ BeforeStore => UNCHANGED <<kprint_x, kprint_y>> \/ ch = Backspace
      BY <2>1, <2>2
    <2> QED
      BY ONLY TextInv, UNCHANGED textVars, <2>1, <2>2, <2>3, <2>4, <2>5, <2>6,
         Moves, Zenon
  <1>4. CASE ClearY("irq")
    <2>1. /\ label = "clear_y" /\ Goto("irq", "cursor_row")
          /\ kprint_y' = 0
          /\ UNCHANGED <<kprint_x, video, offscreen, crtc_index, crtc, char, reg, textVars>>
      BY <1>4 DEF ClearY, At, screen, cursor, label, value
    <2>2. /\ pc' \in [Procs -> TextLabels] /\ pc'["main"] = "idle"
          /\ label' = "cursor_row"
          /\ reg' \in [Procs -> Int] /\ UNCHANGED value /\ UNCHANGED ch
      BY <2>1, TextGoes DEF ch, value, TextTypes
    <2>3. TextTypes'
      BY <2>1, <2>2 DEF TextTypes, textVars
    <2>4. Placed' /\ UNCHANGED <<GoalX, GoalY>>
      BY <2>1, <2>2
    <2>5. CursorSent'
      BY <2>1, <2>2 DEF CursorSent, Sends, label, value
    <2>6. /\ "clear" \notin {label, label'} /\ BeforeStore' = BeforeStore
          /\ \A row \in ScreenRows : Shift(row)' = Shift(row)
          /\ BeforeStore => UNCHANGED <<kprint_x, kprint_y>> \/ ch = Backspace
      BY <2>1, <2>2
    <2> QED
      BY ONLY TextInv, UNCHANGED textVars, <2>1, <2>2, <2>3, <2>4, <2>5, <2>6,
         Moves, Zenon
  <1>5. CASE SetX("irq")
    <2>1. /\ label = "set_x" /\ Goto("irq", "set_y")
          /\ kprint_x' = value % W
          /\ UNCHANGED <<kprint_y, video, offscreen, crtc_index, crtc, char, reg, textVars>>
      BY <1>5 DEF SetX, At, screen, cursor, label, value
    <2>2. /\ pc' \in [Procs -> TextLabels] /\ pc'["main"] = "idle"
          /\ label' = "set_y"
          /\ reg' \in [Procs -> Int] /\ UNCHANGED value /\ UNCHANGED ch
      BY <2>1, TextGoes DEF ch, value, TextTypes
    <2>3. TextTypes'
      BY <2>1, <2>2 DEF TextTypes, textVars
    <2>4. Placed' /\ UNCHANGED <<GoalX, GoalY>>
      BY <2>1, <2>2
    <2>5. CursorSent'
      BY <2>1, <2>2 DEF CursorSent, Sends, label, value
    <2>6. /\ "clear" \notin {label, label'} /\ BeforeStore' = BeforeStore
          /\ \A row \in ScreenRows : Shift(row)' = Shift(row)
          /\ BeforeStore => UNCHANGED <<kprint_x, kprint_y>> \/ ch = Backspace
      BY <2>1, <2>2
    <2> QED
      BY ONLY TextInv, UNCHANGED textVars, <2>1, <2>2, <2>3, <2>4, <2>5, <2>6,
         Moves, Zenon
  <1>6. CASE SetY("irq")
    <2>1. /\ label = "set_y" /\ Goto("irq", "cursor_row")
          /\ kprint_y' = value \div W
          /\ UNCHANGED <<kprint_x, video, offscreen, crtc_index, crtc, char, reg, textVars>>
      BY <1>6 DEF SetY, At, screen, cursor, label, value
    <2>2. /\ pc' \in [Procs -> TextLabels] /\ pc'["main"] = "idle"
          /\ label' = "cursor_row"
          /\ reg' \in [Procs -> Int] /\ UNCHANGED value /\ UNCHANGED ch
      BY <2>1, TextGoes DEF ch, value, TextTypes
    <2>3. TextTypes'
      BY <2>1, <2>2 DEF TextTypes, textVars
    <2>4. Placed' /\ UNCHANGED <<GoalX, GoalY>>
      BY <2>1, <2>2
    <2>5. CursorSent'
      BY <2>1, <2>2 DEF CursorSent, Sends, label, value
    <2>6. /\ "clear" \notin {label, label'} /\ BeforeStore' = BeforeStore
          /\ \A row \in ScreenRows : Shift(row)' = Shift(row)
          /\ BeforeStore => UNCHANGED <<kprint_x, kprint_y>> \/ ch = Backspace
      BY <2>1, <2>2
    <2> QED
      BY ONLY TextInv, UNCHANGED textVars, <2>1, <2>2, <2>3, <2>4, <2>5, <2>6,
         Moves, Zenon
  <1> QED
    BY <1>3, <1>4, <1>5, <1>6 DEF kset_cursor_position

-----------------------------------------------------------------------------
(***************************************************************************)
(* The accesses that draw.                                                 *)
(***************************************************************************)
\* The store puts the character where the text has it.
LEMMA StoreDraws ==
    ASSUME TextInv, UNCHANGED textVars, Store("irq")
    PROVE  TextInv'
  <1>1. TextTypes /\ Placed /\ Aimed /\ Pictured /\ CursorSent
    BY DEF TextInv
  <1>2. W \in Nat \ {0} /\ H \in Nat \ {0, 1} /\ MaxRows \in Nat
    BY ConsoleAssumption, TextAssumption
  <1>3. label = "store"
    BY DEF Store, At, label
  <1>4. /\ kprint_x \in Columns /\ kprint_y \in ScreenRows
        /\ value = kprint_y /\ ch \in Glyphs \cup {Backspace}
    BY <1>1, <1>2, <1>3 DEF Placed, Scrolling, Storing, Columns, ScreenRows
  <1> DEFINE next == IF ch = Backspace THEN "test_y" ELSE "read_x"
  <1>5. /\ Goto("irq", next) /\ video' = [video EXCEPT ![kprint_y * W + kprint_x] = Stores]
        /\ UNCHANGED <<kprint_x, kprint_y, offscreen, crtc_index, crtc, char, reg>>
        /\ UNCHANGED <<text, top, text_x, text_y>>
    <2>1. reg["irq"] * W + kprint_x \in DOMAIN video
      BY <1>1, <1>4, CellInVideo DEF TextTypes, value
    <2> QED
      BY <1>4, <2>1 DEF Store, cursor, textVars, value, ch, Stores
  <1>6. next \in TextLabels
    BY TextLabelsAre
  <1>7. /\ pc' \in [Procs -> TextLabels] /\ pc'["main"] = "idle" /\ label' = next
        /\ UNCHANGED <<value, ch>>
    BY <1>1, <1>5, <1>6, TextGoes DEF value, ch
  <1>8. TextTypes'
    <2>1. Stores \in Glyphs \cup {Blank}
      BY <1>4 DEF Stores
    <2>2. video' \in [0 .. W * H - 1 -> Glyphs \cup {Blank}]
      BY <1>1, <1>5, <2>1 DEF TextTypes
    <2> QED
      BY <1>1, <1>5, <1>7, <2>2 DEF TextTypes
  <1>9. Placed'
    BY <1>1, <1>2, <1>3, <1>4, <1>5, <1>7 DEF Placed, Scrolling, Storing, Backward,
       Columns, ScreenRows
  <1>10. UNCHANGED <<GoalX, GoalY>> /\ UNCHANGED First
    BY <1>2, <1>3, <1>4, <1>5, <1>7 DEF GoalX, GoalY, First, Storing, Columns, ScreenRows
  <1>11. Aimed'
    BY <1>1, <1>5, <1>10 DEF Aimed
  <1>12. CursorSent'
    BY <1>3, <1>7 DEF CursorSent, Sends, label
  <1>13. Pictured'
    <2>1. /\ CellX = kprint_x /\ CellY = kprint_y
          /\ BeforeStore /\ ~BeforeStore'
      BY <1>2, <1>3, <1>4, <1>7 DEF CellX, CellY, GoalX, GoalY, BeforeStore, Storing,
         Backward, Columns, ScreenRows
    <2>2. \A row \in ScreenRows : TextRow(row) = First + row /\ TextRow(row)' = First + row
      BY <1>1, <1>3, <1>7, <1>10 DEF TextRow, Shift, Aimed, ScreenRows
    <2>3. ASSUME NEW row \in ScreenRows, NEW col \in Columns, First + row < MaxRows
          PROVE  video'[row * W + col] = text[First + row][col]
      <3>1. row * W + col \in DOMAIN video
        BY <1>1, CellInVideo DEF TextTypes
      <3>2. CASE row = kprint_y /\ col = kprint_x
        BY <1>1, <1>5, <2>1, <2>3, <3>1, <3>2 DEF Pictured
      <3>3. CASE ~(row = kprint_y /\ col = kprint_x)
        <4>1. row * W + col # kprint_y * W + kprint_x
          BY <1>4, <3>3, CellsDiffer
        <4>2. video'[row * W + col] = video[row * W + col]
          BY <1>5, <3>1, <4>1
        <4>3. ~Pending(row, col) /\ label # "clear" /\ TextRow(row) < MaxRows
          BY <1>3, <2>1, <2>2, <2>3, <3>3 DEF Pending
        <4> QED
          BY <1>1, <2>2, <4>2, <4>3 DEF Pictured
      <3> QED
        BY <3>2, <3>3
    <2>4. label' # "clear"
      BY <1>7
    <2> QED
      BY <1>1, <1>5, <1>10, <2>1, <2>2, <2>3, <2>4 DEF Pictured
  <1> QED
    BY <1>8, <1>9, <1>11, <1>12, <1>13 DEF TextInv

\* Each line scrolled is a row further on in the text; the row after the ones
\* shown is blank.
LEMMA ScrollDraws ==
    ASSUME TextInv, UNCHANGED textVars, Scroll("irq")
    PROVE  TextInv'
  <1>1. TextTypes /\ Placed /\ Aimed /\ Pictured /\ CursorSent
    BY DEF TextInv
  <1>2. W \in Nat \ {0} /\ H \in Nat \ {0, 1} /\ MaxRows \in Nat
    BY ConsoleAssumption, TextAssumption
  <1>3. label = "scroll" /\ value \in ScreenRows /\ kprint_y = H /\ kprint_x \in Columns
    BY <1>1 DEF Scroll, At, label, Placed, Columns
  <1>4. /\ video' = ScrollLine(value)
        /\ IF value = H - 1 THEN Goto("irq", "last_line") /\ UNCHANGED reg
           ELSE Keep("irq", value + 1) /\ UNCHANGED pc
        /\ UNCHANGED <<kprint_x, kprint_y, offscreen, crtc_index, crtc, char>>
        /\ UNCHANGED <<text, top, text_x, text_y>>
    BY DEF Scroll, cursor, textVars, value
  <1>5. /\ pc' \in [Procs -> TextLabels] /\ pc'["main"] = "idle"
        /\ label' = IF value = H - 1 THEN "last_line" ELSE "scroll"
        /\ reg' \in [Procs -> Int]
        /\ value' = IF value = H - 1 THEN value ELSE value + 1
        /\ UNCHANGED ch
    <2>1. CASE value = H - 1
      BY <1>1, <1>4, <2>1, TextGoes, TextLabelsAre DEF value, ch, TextTypes
    <2>2. CASE value # H - 1
      BY <1>1, <1>2, <1>3, <1>4, <2>2, TextKeeps DEF label, ch, TextTypes, ScreenRows
    <2> QED
      BY <2>1, <2>2
  <1>6. TextTypes'
    <2>1. video' \in [0 .. W * H - 1 -> Glyphs \cup {Blank}]
      BY <1>1, <1>3, <1>4, ScrollTyped DEF TextTypes, ScreenRows
    <2> QED
      BY <1>1, <1>4, <1>5, <2>1 DEF TextTypes
  <1>7. Placed' /\ UNCHANGED <<GoalX, GoalY>> /\ GoalY = H
    BY <1>2, <1>3, <1>4, <1>5 DEF Placed, GoalX, GoalY, Scrolling, Storing, Backward,
       Columns, ScreenRows
  <1>8. Aimed' /\ UNCHANGED First /\ First \in Nat
    BY <1>1, <1>4, <1>7 DEF Aimed, First
  <1>9. CursorSent'
    BY <1>2, <1>5 DEF CursorSent, Sends, label
  <1>10. Pictured'
    <2>1. ~BeforeStore /\ ~BeforeStore' /\ "clear" \notin {label, label'}
      BY <1>3, <1>5 DEF BeforeStore, Storing, Backward
    <2>2. ASSUME NEW row \in ScreenRows
          PROVE  /\ TextRow(row) = First + row + (IF row < value THEN 1 ELSE 0)
                 /\ TextRow(row)' = First + row + (IF row <= value THEN 1 ELSE 0)
      BY <1>2, <1>3, <1>5, <1>8 DEF TextRow, Shift, ScreenRows
    <2>3. \A row \in ScreenRows, col \in Columns :
             TextRow(row) < MaxRows => video[row * W + col] = text[TextRow(row)][col]
      BY <1>1, <2>1 DEF Pictured, Pending
    <2>4. ASSUME NEW row \in ScreenRows, NEW col \in Columns, TextRow(row)' < MaxRows
          PROVE  video'[row * W + col] = text[TextRow(row)'][col]
      <3>1. video \in [0 .. W * H - 1 -> Glyphs \cup {Blank}]
        BY <1>1 DEF TextTypes
      <3>2. video'[row * W + col] =
               IF row # value THEN video[row * W + col]
               ELSE IF value = H - 1 THEN Blank ELSE video[(row + 1) * W + col]
        BY <1>3, <1>4, <3>1, ScrolledCell
      <3>3. CASE row # value
        <4>1. TextRow(row)' = TextRow(row)
          BY <1>3, <2>2, <3>3 DEF ScreenRows
        <4> QED
          BY <2>3, <2>4, <3>2, <3>3, <4>1
      <3>4. CASE row = value /\ value = H - 1
        <4>1. TextRow(row)' = First + H
          BY <1>2, <1>8, <2>2, <3>4
        <4>2. First + H \in 0 .. MaxRows - 1
          BY <1>2, <1>8, <2>4, <4>1
        <4>3. text[First + H][col] = Blank
          BY <1>1, <1>2, <1>8, <4>2 DEF Pictured
        <4> QED
          BY <3>2, <3>4, <4>1, <4>3
      <3>5. CASE row = value /\ value # H - 1
        <4>1. row + 1 \in ScreenRows
          BY <1>2, <1>3, <3>5 DEF ScreenRows
        <4>2. TextRow(row + 1) = TextRow(row)'
          BY <1>3, <1>8, <2>2, <3>5, <4>1 DEF ScreenRows
        <4> QED
          BY <2>3, <2>4, <3>2, <3>5, <4>1, <4>2
      <3> QED
        BY <3>3, <3>4, <3>5
    <2> QED
      BY <1>1, <1>4, <1>8, <2>1, <2>4 DEF Pictured
  <1> QED
    BY <1>6, <1>7, <1>8, <1>9, <1>10 DEF TextInv

\* With all lines scrolled the screen starts a row further on.
LEMMA LastLineMoves ==
    ASSUME TextInv, UNCHANGED textVars, LastLine("irq")
    PROVE  TextInv'
  <1>1. TextTypes /\ Placed /\ Aimed /\ Pictured /\ CursorSent
    BY DEF TextInv
  <1>2. W \in Nat \ {0} /\ H \in Nat \ {0, 1} /\ MaxRows \in Nat
    BY ConsoleAssumption, TextAssumption
  <1>3. label = "last_line" /\ kprint_y = H /\ kprint_x \in Columns
    BY <1>1 DEF LastLine, At, label, Placed, Columns
  <1>4. /\ Goto("irq", "cursor_row") /\ kprint_y' = H - 1
        /\ UNCHANGED <<kprint_x, video, offscreen, crtc_index, crtc, char, reg>>
        /\ UNCHANGED <<text, top, text_x, text_y>>
    BY DEF LastLine, cursor, screen, textVars
  <1>5. /\ pc' \in [Procs -> TextLabels] /\ pc'["main"] = "idle" /\ label' = "cursor_row"
        /\ UNCHANGED <<value, ch>>
    BY <1>1, <1>4, TextGoes, TextLabelsAre DEF value, ch
  <1>6. TextTypes'
    BY <1>1, <1>2, <1>4, <1>5 DEF TextTypes
  <1>7. /\ Placed'
        /\ UNCHANGED GoalX /\ GoalY = H /\ GoalY' = H - 1
    BY <1>2, <1>3, <1>4, <1>5
       DEF Placed, GoalX, GoalY, Scrolling, Storing, Backward, Columns
  <1>8. First \in Nat /\ First' = First + 1 /\ Aimed'
    BY <1>1, <1>2, <1>4, <1>7 DEF Aimed, First, TextTypes
  <1>9. CursorSent'
    BY <1>5 DEF CursorSent, Sends, label
  <1>10. Pictured'
    <2>1. ~BeforeStore /\ ~BeforeStore' /\ "clear" \notin {label, label'}
      BY <1>3, <1>5 DEF BeforeStore, Storing, Backward
    <2>2. \A row \in ScreenRows : TextRow(row)' = TextRow(row)
      BY <1>2, <1>3, <1>5, <1>8 DEF TextRow, Shift, ScreenRows
    <2>3. \A row \in 0 .. MaxRows - 1, col \in Columns :
             row >= First' + H => text[row][col] = Blank
      BY <1>1, <1>2, <1>8 DEF Pictured
    <2> QED
      BY <1>1, <1>4, <2>1, <2>2, <2>3 DEF Pictured, Pending
  <1> QED
    BY <1>6, <1>7, <1>8, <1>9, <1>10 DEF TextInv

\* A screen of blanks is a window on the empty text.
LEMMA ClearDraws ==
    ASSUME TextInv, UNCHANGED textVars, ClearVideo("irq")
    PROVE  TextInv'
  <1>1. TextTypes /\ Placed /\ Aimed /\ Pictured /\ CursorSent
    BY DEF TextInv
  <1>2. W \in Nat \ {0} /\ H \in Nat \ {0, 1} /\ MaxRows \in Nat
    BY ConsoleAssumption, TextAssumption
  <1>3. label = "clear" /\ kprint_y \in 0 .. H - 1 /\ kprint_x \in Columns
    BY <1>1 DEF ClearVideo, At, label, Placed, Columns, Scrolling
  <1>4. /\ Goto("irq", "clear_x") /\ video' = [p \in DOMAIN video |-> Blank]
        /\ UNCHANGED <<kprint_x, kprint_y, offscreen, crtc_index, crtc, char, reg>>
        /\ UNCHANGED <<text, top, text_x, text_y>>
    BY DEF ClearVideo, cursor, textVars
  <1>5. /\ pc' \in [Procs -> TextLabels] /\ pc'["main"] = "idle" /\ label' = "clear_x"
        /\ UNCHANGED <<value, ch>>
    BY <1>1, <1>4, TextGoes, TextLabelsAre DEF value, ch
  <1>6. TextTypes'
    BY <1>1, <1>4, <1>5 DEF TextTypes
  <1>7. Placed' /\ UNCHANGED <<GoalX, GoalY>>
    BY <1>2, <1>3, <1>4, <1>5
       DEF Placed, GoalX, GoalY, Scrolling, Storing, Backward, Columns
  <1>8. Aimed' /\ UNCHANGED First /\ First \in Nat
    BY <1>1, <1>4, <1>7 DEF Aimed, First
  <1>9. CursorSent'
    BY <1>5 DEF CursorSent, Sends, label
  <1>10. Pictured'
    <2>1. text = EmptyText
      BY <1>1, <1>3 DEF Pictured
    <2>2. \A row \in 0 .. MaxRows - 1, col \in Columns : text[row][col] = Blank
      BY <2>1, EmptyTextBlank
    <2>3. ASSUME NEW row \in ScreenRows, NEW col \in Columns, TextRow(row)' < MaxRows
          PROVE  video'[row * W + col] = text[TextRow(row)'][col]
      <3>1. TextRow(row)' = First + row
        BY <1>5, <1>8 DEF TextRow, Shift, ScreenRows
      <3>2. TextRow(row)' \in 0 .. MaxRows - 1
        BY <1>2, <1>8, <2>3, <3>1 DEF ScreenRows
      <3>3. row * W + col \in DOMAIN video
        BY <1>1, CellInVideo DEF TextTypes
      <3> QED
        BY <1>4, <2>2, <3>2, <3>3
    <2>4. ~BeforeStore' /\ label' # "clear"
      BY <1>5 DEF BeforeStore, Storing, Backward
    <2> QED
      BY <1>1, <1>4, <1>8, <2>3, <2>4 DEF Pictured
  <1> QED
    BY <1>6, <1>7, <1>8, <1>9, <1>10 DEF TextInv

-----------------------------------------------------------------------------
(***************************************************************************)
(* Characters and moves of the cursor.                                     *)
(***************************************************************************)
\* Between characters the screen shows the text and the goal is the cursor.
LEMMA IdleFacts ==
    ASSUME TextInv, label = "idle"
    PROVE  /\ W \in Nat \ {0} /\ H \in Nat \ {0, 1} /\ MaxRows \in Nat
           /\ kprint_x \in Columns /\ kprint_y \in ScreenRows
           /\ text_x = kprint_x /\ text_y = top + kprint_y /\ top \in Nat /\ First = top
           /\ \A row \in ScreenRows, col \in Columns :
                 top + row < MaxRows => video[row * W + col] = text[top + row][col]
           /\ \A row \in 0 .. MaxRows - 1, col \in Columns :
                 row >= top + H => text[row][col] = Blank
           /\ Shown
  <1>1. TextTypes /\ Placed /\ Aimed /\ Pictured /\ CursorSent
    BY DEF TextInv
  <1>2. W \in Nat \ {0} /\ H \in Nat \ {0, 1} /\ MaxRows \in Nat
    BY ConsoleAssumption, TextAssumption
  <1>3. kprint_x \in Columns /\ kprint_y \in ScreenRows
    BY <1>1, <1>2 DEF Placed, Scrolling, Columns, ScreenRows
  <1>4. GoalX = kprint_x /\ GoalY = kprint_y
    BY DEF GoalX, GoalY, Storing
  <1>5. text_x = kprint_x /\ text_y = top + kprint_y /\ top \in Nat /\ First = top
    BY <1>1, <1>2, <1>3, <1>4 DEF Aimed, First, TextTypes, ScreenRows
  <1>6. \A row \in ScreenRows : TextRow(row) = top + row
    BY <1>5 DEF TextRow, Shift, ScreenRows
  <1>7. ~BeforeStore
    BY DEF BeforeStore, Storing, Backward
  <1>8. /\ \A row \in ScreenRows, col \in Columns :
              top + row < MaxRows => video[row * W + col] = text[top + row][col]
        /\ \A row \in 0 .. MaxRows - 1, col \in Columns :
              row >= top + H => text[row][col] = Blank
    BY <1>1, <1>5, <1>6, <1>7 DEF Pictured, Pending
  <1> QED
    BY <1>1, <1>2, <1>3, <1>5, <1>8 DEF CursorSent

\* What the start of a character leaves alone.
LEMMA KeyEffect ==
    ASSUME TextInv, KeyPrintsText
    PROVE  /\ label = "idle" /\ ch' \in Chars /\ label' = FirstAccess(ch')
           /\ TextStep(ch')
           /\ UNCHANGED <<kprint_x, kprint_y, video, offscreen, crtc_index, crtc, reg>>
           /\ char' \in [Procs -> Chars]
           /\ pc' \in [Procs -> TextLabels] /\ pc'["main"] = "idle"
  <1>1. TextTypes
    BY DEF TextInv
  <1>2. PICK g \in IrqChars : Begin("irq", g)
    BY DEF KeyPrintsText, KeyPrints
  <1>3. g \in Chars
    BY ConsoleAssumption
  <1>4. /\ label = "idle" /\ char' = [char EXCEPT !["irq"] = g]
        /\ Goto("irq", FirstAccess(g))
        /\ UNCHANGED <<kprint_x, kprint_y, video, offscreen, crtc_index, crtc, reg>>
    BY <1>2 DEF Begin, At, screen, cursor, label
  <1>5. ch' = g /\ char' \in [Procs -> Chars]
    BY <1>1, <1>3, <1>4 DEF TextTypes, Procs, ch
  <1>6. FirstAccess(g) \in TextLabels
    BY TextLabelsAre DEF FirstAccess
  <1> QED
    BY <1>1, <1>3, <1>4, <1>5, <1>6, TextGoes DEF KeyPrintsText, ch

\* A line feed: kputchar will go to the start of the next row.
LEMMA FeedBegins ==
    ASSUME TextInv, KeyPrintsText, ch' = Newline
    PROVE  TextInv'
  <1>1. TextTypes /\ Placed /\ label = "idle"
    BY KeyEffect DEF TextInv
  <1>2. /\ label' = "home" /\ NextRow /\ UNCHANGED text
        /\ UNCHANGED <<kprint_x, kprint_y, video, offscreen, crtc_index, crtc, reg>>
        /\ char' \in [Procs -> Chars]
        /\ pc' \in [Procs -> TextLabels] /\ pc'["main"] = "idle"
    BY KeyEffect DEF FirstAccess, TextStep, TextFeed, Newline, Backspace, Clear
  <1>3. TextTypes'
    BY <1>1, <1>2 DEF TextTypes, NextRow
  <1>4. Placed' /\ GoalX' = 0 /\ GoalY' = kprint_y + 1
    BY <1>1, <1>2, IdleFacts DEF Placed, GoalX, GoalY, Storing, Scrolling, Backward,
       Columns, ScreenRows
  <1>5. First' = top /\ Aimed'
    BY <1>1, <1>2, <1>4, IdleFacts DEF First, Aimed, NextRow, ScreenRows
  <1>6. CursorSent'
    BY <1>2 DEF CursorSent, Sends, label
  <1>7. \A row \in ScreenRows : TextRow(row)' = top + row
    BY <1>1, <1>2, <1>5, IdleFacts DEF TextRow, Shift, ScreenRows
  <1>8. ~BeforeStore' /\ label' # "clear"
    BY <1>2 DEF BeforeStore, Storing, Backward
  <1>9. Pictured'
    BY <1>1, <1>2, <1>5, <1>7, <1>8, IdleFacts DEF Pictured
  <1> QED
    BY <1>3, <1>4, <1>5, <1>6, <1>9 DEF TextInv

\* A clear: the text is empty, the screen not yet.
LEMMA ClearBegins ==
    ASSUME TextInv, KeyPrintsText, ch' = Clear
    PROVE  TextInv'
  <1>1. TextTypes /\ Placed /\ label = "idle"
    BY KeyEffect DEF TextInv
  <1>2. /\ label' = "clear" /\ TextClear
        /\ UNCHANGED <<kprint_x, kprint_y, video, offscreen, crtc_index, crtc, reg>>
        /\ char' \in [Procs -> Chars]
        /\ pc' \in [Procs -> TextLabels] /\ pc'["main"] = "idle"
    BY KeyEffect DEF FirstAccess, TextStep, Newline, Backspace, Clear
  <1>3. TextTypes'
    BY <1>1, <1>2, EmptyTextBlank DEF TextTypes, TextClear
  <1>4. Placed' /\ GoalX' = 0 /\ GoalY' = 0
    BY <1>1, <1>2, IdleFacts DEF Placed, GoalX, GoalY, Storing, Scrolling, Backward,
       Columns, ScreenRows
  <1>5. First' = 0 /\ Aimed'
    BY <1>1, <1>2, <1>4, IdleFacts DEF First, Aimed, TextClear
  <1>6. CursorSent'
    BY <1>2 DEF CursorSent, Sends, label
  <1>7. ~BeforeStore'
    BY <1>2 DEF BeforeStore, Storing, Backward
  <1>8. Pictured'
    BY <1>2, <1>7, EmptyTextBlank DEF Pictured, TextClear
  <1> QED
    BY <1>3, <1>4, <1>5, <1>6, <1>8 DEF TextInv

\* A backspace: the cell before the cursor will be blanked.
LEMMA BackBegins ==
    ASSUME TextInv, KeyPrintsText, ch' = Backspace
    PROVE  TextInv'
  <1>1. TextTypes /\ Placed /\ label = "idle"
    BY KeyEffect DEF TextInv
  <1>2. /\ label' = "back" /\ TextBack
        /\ UNCHANGED <<kprint_x, kprint_y, video, offscreen, crtc_index, crtc, reg>>
        /\ char' \in [Procs -> Chars]
        /\ pc' \in [Procs -> TextLabels] /\ pc'["main"] = "idle"
    BY KeyEffect DEF FirstAccess, TextStep, Newline, Backspace, Clear
  <1>3. Placed'
    BY <1>1, <1>2, IdleFacts DEF Placed, Storing, Scrolling, Backward, Columns, ScreenRows
  <1>4. /\ text_x' = GoalX' /\ text_y' = top + GoalY' /\ top' = top
        /\ GoalX' \in Columns /\ GoalY' \in ScreenRows
    BY <1>1, <1>2, IdleFacts DEF GoalX, GoalY, TextBack, Storing, Columns, ScreenRows
  <1>5. text' = Written(text_y', text_x', Blank)
    BY <1>2 DEF TextBack, Written
  <1>6. text_y' \in Int /\ text_x' \in Columns
    BY <1>1, <1>4, IdleFacts DEF ScreenRows
  <1>7. /\ text' \in [0 .. MaxRows - 1 -> [Columns -> Glyphs \cup {Blank}]]
        /\ text_y' \in 0 .. MaxRows - 1 => text'[text_y'][text_x'] = Blank
        /\ \A row \in 0 .. MaxRows - 1, col \in Columns :
              row # text_y' \/ col # text_x' => text'[row][col] = text[row][col]
    <2>1. TextTypes /\ Blank \in Glyphs \cup {Blank}
      BY <1>1
    <2> QED
      BY ONLY <1>5, <1>6, <2>1, TextExcept
  <1>8. TextTypes'
    BY <1>1, <1>2, <1>4, <1>6, <1>7 DEF TextTypes, Columns
  <1>9. First' = top /\ Aimed'
    BY <1>1, <1>4, IdleFacts DEF First, Aimed, ScreenRows
  <1>10. CursorSent'
    BY <1>2 DEF CursorSent, Sends, label
  <1>11. Pictured'
    <2>1. /\ CellX' = text_x'
          /\ First' + CellY' = text_y'
          /\ Stores' = Blank
          /\ label' # "clear"
      BY <1>2, <1>4, <1>9 DEF CellX, CellY, Stores
    <2>2. BeforeStore'
      BY <1>2 DEF BeforeStore, Backward
    <2>3. \A row \in ScreenRows : TextRow(row)' = top + row
      BY <1>1, <1>2, <1>9, IdleFacts DEF TextRow, Shift, ScreenRows
    <2>4. ASSUME NEW row \in ScreenRows, NEW col \in Columns,
                 top + row < MaxRows, ~Pending(row, col)'
          PROVE  video'[row * W + col] = text'[top + row][col]
      <3>1. top + row \in 0 .. MaxRows - 1
        BY <1>1, <2>4, IdleFacts DEF ScreenRows
      <3>2. top + row # text_y' \/ col # text_x'
        BY <1>1, <1>4, <1>9, <2>1, <2>2, <2>4, IdleFacts DEF Pending, CellY, ScreenRows
      <3> QED
        BY <1>1, <1>2, <1>7, <2>4, <3>1, <3>2, IdleFacts
    <2>5. ASSUME NEW row \in 0 .. MaxRows - 1, NEW col \in Columns, row >= top + H
          PROVE  text'[row][col] = Blank
      <3>1. row # text_y'
        BY <1>1, <1>4, <2>5, IdleFacts DEF ScreenRows
      <3> QED
        BY <1>1, <1>7, <2>5, <3>1, IdleFacts
    <2>6. text_y' < MaxRows => text_y' \in 0 .. MaxRows - 1
      BY <1>1, <1>4, IdleFacts DEF ScreenRows
    <2> QED
      BY <1>1, <1>7, <1>9, <2>1, <2>2, <2>3, <2>4, <2>5, <2>6 DEF Pictured
  <1> QED
    BY <1>3, <1>8, <1>9, <1>10, <1>11 DEF TextInv

\* A printable character: its cell will be stored, and the cursor moves on.
LEMMA GlyphBegins ==
    ASSUME TextInv, KeyPrintsText, ch' \in Glyphs
    PROVE  TextInv'
  <1>1. TextTypes /\ Placed /\ label = "idle"
    BY KeyEffect DEF TextInv
  <1>2. ch' \notin {Newline, Backspace, Clear}
    BY DEF Glyphs, Newline, Backspace, Clear
  <1>3. /\ label' = "row" /\ TextGlyph(ch')
        /\ UNCHANGED <<kprint_x, kprint_y, video, offscreen, crtc_index, crtc, reg>>
        /\ char' \in [Procs -> Chars]
        /\ pc' \in [Procs -> TextLabels] /\ pc'["main"] = "idle"
    BY <1>2, KeyEffect DEF FirstAccess, TextStep
  <1>4. Placed'
    BY <1>1, <1>3, IdleFacts DEF Placed, Storing, Scrolling, Backward, Columns, ScreenRows
  <1>5. /\ GoalX' = IF kprint_x + 1 = W THEN 0 ELSE kprint_x + 1
        /\ GoalY' = IF kprint_x + 1 = W THEN kprint_y + 1 ELSE kprint_y
    BY <1>2, <1>3 DEF GoalX, GoalY, Wrapping, Storing
  <1>6. text_x' = GoalX' /\ text_y' = top + GoalY'
    BY <1>1, <1>3, <1>5, IdleFacts DEF TextGlyph, NextRow, ScreenRows
  <1>7. top' = IF GoalY' >= H THEN top + 1 ELSE top
    BY <1>1, <1>3, <1>5, <1>6, IdleFacts DEF TextGlyph, NextRow, ScreenRows
  <1>8. text' = Written(text_y, text_x, ch')
    BY <1>3 DEF TextGlyph, Written
  <1>9. text_y \in Int /\ text_x \in Columns
    BY <1>1, IdleFacts DEF TextTypes
  <1>10. /\ text' \in [0 .. MaxRows - 1 -> [Columns -> Glyphs \cup {Blank}]]
         /\ text_y \in 0 .. MaxRows - 1 => text'[text_y][text_x] = ch'
         /\ \A row \in 0 .. MaxRows - 1, col \in Columns :
               row # text_y \/ col # text_x => text'[row][col] = text[row][col]
    <2>1. TextTypes /\ ch' \in Glyphs \cup {Blank}
      BY <1>1
    <2> QED
      BY ONLY <1>8, <1>9, <2>1, TextExcept
  <1>11. TextTypes'
    BY ONLY <1>1, <1>3, <1>5, <1>6, <1>7, <1>10, IdleFacts DEF TextTypes, Columns, ScreenRows
  <1>12. First' = top /\ Aimed'
    BY <1>1, <1>5, <1>6, <1>7, IdleFacts DEF First, Aimed, ScreenRows
  <1>13. CursorSent'
    BY <1>3 DEF CursorSent, Sends, label
  <1>14. Pictured'
    <2>1. /\ CellX' = text_x /\ CellY' = kprint_y /\ First' + CellY' = text_y
          /\ Stores' = ch' /\ label' # "clear" /\ BeforeStore'
      BY <1>1, <1>2, <1>3, <1>12, IdleFacts DEF CellX, CellY, Stores, BeforeStore, Storing
    <2>2. \A row \in ScreenRows : TextRow(row)' = top + row
      BY <1>1, <1>3, <1>12, IdleFacts DEF TextRow, Shift, ScreenRows
    <2>3. ASSUME NEW row \in ScreenRows, NEW col \in Columns,
                 top + row < MaxRows, ~Pending(row, col)'
          PROVE  video'[row * W + col] = text'[top + row][col]
      <3>1. top + row \in 0 .. MaxRows - 1
        BY <1>1, <2>3, IdleFacts DEF ScreenRows
      <3>2. top + row # text_y \/ col # text_x
        BY <1>1, <2>1, <2>3, IdleFacts DEF Pending, ScreenRows
      <3> QED
        BY <1>1, <1>3, <1>10, <2>3, <3>1, <3>2, IdleFacts
    <2>4. ASSUME NEW row \in 0 .. MaxRows - 1, NEW col \in Columns, row >= top + H
          PROVE  text'[row][col] = Blank
      <3>1. row # text_y
        BY <1>1, <2>4, IdleFacts DEF ScreenRows
      <3> QED
        BY <1>1, <1>10, <2>4, <3>1, IdleFacts
    <2>5. text_y < MaxRows => text_y \in 0 .. MaxRows - 1
      BY <1>1, IdleFacts DEF ScreenRows
    <2> QED
      BY <1>1, <1>10, <1>12, <2>1, <2>2, <2>3, <2>4, <2>5 DEF Pictured
  <1> QED
    BY <1>4, <1>11, <1>12, <1>13, <1>14 DEF TextInv

\* A move of the cursor: the position holds both coordinates.
LEMMA MoveBegins ==
    ASSUME TextInv, NEW x \in Int, NEW y \in Int, MoveCursor(x, y)
    PROVE  TextInv'
  <1>1. TextTypes /\ Placed /\ label = "idle"
    BY DEF TextInv, MoveCursor, SetCursor, At, label
  <1>2. /\ x \in Columns /\ y \in ScreenRows
        /\ Keep("irq", y * W + x) /\ Goto("irq", "set_x")
        /\ UNCHANGED <<kprint_x, kprint_y, video, offscreen, crtc_index, crtc, char>>
        /\ text_x' = x /\ text_y' = top + y /\ UNCHANGED <<text, top>>
    BY DEF MoveCursor, SetCursor, screen, cursor, Columns, ScreenRows
  <1>3. W \in Nat \ {0} /\ H \in Nat \ {0, 1}
    BY ConsoleAssumption
  <1> DEFINE position == y * W + x
  <1>4. position \in Nat /\ position \div W = y /\ position % W = x
    <2>1. position \in Nat /\ position \div W = y
      BY <1>2, CellInVideo
    <2>2. position = W * (position \div W) + (position % W) /\ position % W \in 0 .. W - 1
      BY <1>3, <2>1, DivMod
    <2>3. position = W * y + x /\ W * y \in Int
      BY <1>2, <1>3 DEF Columns, ScreenRows
    <2> HIDE DEF position
    <2> QED
      BY <1>2, <1>3, <2>1, <2>2, <2>3 DEF Columns
  <1> HIDE DEF position
  <1>5. /\ pc' \in [Procs -> TextLabels] /\ pc'["main"] = "idle" /\ label' = "set_x"
        /\ reg' \in [Procs -> Int] /\ value' = position /\ UNCHANGED ch
    BY <1>1, <1>2, <1>4, TextGoes, TextKeeps, TextLabelsAre DEF ch, position
  <1>6. TextTypes'
    BY <1>1, <1>2, <1>3, <1>5 DEF TextTypes
  <1>7. Placed' /\ GoalX' = x /\ GoalY' = y
    BY <1>1, <1>2, <1>4, <1>5, IdleFacts DEF Placed, GoalX, GoalY, Storing, Scrolling,
       Backward, Columns, ScreenRows
  <1>8. First' = top /\ Aimed'
    BY <1>1, <1>2, <1>7, IdleFacts DEF First, Aimed, ScreenRows
  <1>9. CursorSent'
    BY <1>5 DEF CursorSent, Sends, label
  <1>10. \A row \in ScreenRows : TextRow(row)' = top + row
    BY <1>1, <1>5, <1>8, IdleFacts DEF TextRow, Shift, ScreenRows
  <1>11. ~BeforeStore' /\ label' # "clear"
    BY <1>5 DEF BeforeStore, Storing, Backward
  <1>12. Pictured'
    BY <1>1, <1>2, <1>8, <1>10, <1>11, IdleFacts DEF Pictured
  <1> QED
    BY <1>6, <1>7, <1>8, <1>9, <1>12 DEF TextInv

-----------------------------------------------------------------------------
(***************************************************************************)
(* The screen shows the text.                                              *)
(***************************************************************************)
\* The screen starts blank, and so does the text.
LEMMA TextInitInv ==
    ASSUME TextInit
    PROVE  TextInv
  <1>1. W \in Nat \ {0} /\ H \in Nat \ {0, 1} /\ Byte \in Nat \ {0} /\ MaxRows \in Nat
    BY ConsoleAssumption, TextAssumption
  <1>2. /\ kprint_x \in 0 .. W - 1 /\ kprint_y \in 0 .. H - 1
        /\ video = [p \in 0 .. W * H - 1 |-> Blank] /\ ~offscreen /\ crtc_index = "lo"
        /\ crtc = [hi |-> Position \div Byte, lo |-> Position % Byte]
        /\ pc = [self \in Procs |-> "idle"] /\ char = [self \in Procs |-> Newline]
        /\ reg = [self \in Procs |-> 0]
        /\ text = EmptyText /\ top = 0 /\ text_x = kprint_x /\ text_y = kprint_y
    BY DEF TextInit, Init
  <1>3. label = "idle" /\ pc["main"] = "idle"
    BY <1>2 DEF label, Procs
  <1>4. crtc \in [{"hi", "lo"} -> Int] /\ Shown
    <2>1. Position \in Int
      BY <1>1, <1>2 DEF Position
    <2>2. /\ crtc["hi"] = Position \div Byte /\ crtc["lo"] = Position % Byte
          /\ crtc \in [{"hi", "lo"} -> Int]
      BY <1>2, <2>1, Halves
    <2> QED
      BY <1>1, <2>1, <2>2, Halves DEF Shown
  <1>5. TextTypes
    <2>1. pc \in [Procs -> TextLabels]
      BY <1>2, TextLabelsAre
    <2>2. char \in [Procs -> Chars] /\ reg \in [Procs -> Int]
      BY <1>2 DEF Chars
    <2>3. video \in [0 .. W * H - 1 -> Glyphs \cup {Blank}]
      BY <1>2
    <2>4. text \in [0 .. MaxRows - 1 -> [Columns -> Glyphs \cup {Blank}]]
      BY <1>2, EmptyTextBlank
    <2> QED
      BY <1>1, <1>2, <1>3, <1>4, <2>1, <2>2, <2>3, <2>4 DEF TextTypes
  <1>6. Placed
    BY <1>1, <1>2, <1>3 DEF Placed, Storing, Scrolling, Backward
  <1>7. First = 0 /\ Aimed
    BY <1>1, <1>2, <1>3 DEF First, Aimed, GoalX, GoalY, Storing
  <1>8. CursorSent
    BY <1>3, <1>4 DEF CursorSent, Sends, label
  <1>9. Pictured
    <2>1. ~BeforeStore
      BY <1>3 DEF BeforeStore, Storing, Backward
    <2>2. \A row \in ScreenRows : TextRow(row) = row
      BY <1>3, <1>7 DEF TextRow, Shift, ScreenRows
    <2>3. ASSUME NEW row \in ScreenRows, NEW col \in Columns, row < MaxRows
          PROVE  video[row * W + col] = text[row][col]
      <3>1. row \in 0 .. MaxRows - 1
        BY <1>1, <2>3 DEF ScreenRows
      <3> QED
        BY <1>2, <3>1, CellInVideo, EmptyTextBlank
    <2> QED
      BY <1>2, <2>1, <2>2, <2>3, EmptyTextBlank DEF Pictured
  <1> QED
    BY <1>5, <1>6, <1>7, <1>8, <1>9 DEF TextInv

\* A step that changes nothing keeps the picture.
LEMMA TextStutters ==
    ASSUME TextInv, UNCHANGED <<vars, textVars>>
    PROVE  TextInv'
  <1>1. /\ UNCHANGED <<kprint_x, kprint_y, video, offscreen, crtc_index, crtc>>
        /\ UNCHANGED <<pc, char, reg>> /\ UNCHANGED <<text, top, text_x, text_y>>
    BY DEF vars, textVars
  <1>2. UNCHANGED <<label, ch, value>>
    BY <1>1 DEF label, ch, value
  <1>3. UNCHANGED <<GoalX, GoalY>>
    BY <1>1, <1>2 DEF GoalX, GoalY
  <1>4. UNCHANGED First
    BY <1>1, <1>3 DEF First
  <1>5. TextTypes' /\ Placed' /\ Aimed'
    BY <1>1, <1>2, <1>3, <1>4 DEF TextInv, TextTypes, Placed, Aimed
  <1>6. CursorSent'
    BY <1>1, <1>2 DEF TextInv, CursorSent, Sends, Shown, Position
  <1>7. BeforeStore' = BeforeStore /\ UNCHANGED <<CellX, CellY, Stores>>
    BY <1>1, <1>2, <1>3 DEF BeforeStore, CellX, CellY, Stores
  <1>8. \A row : TextRow(row)' = TextRow(row)
    BY <1>2, <1>4 DEF TextRow, Shift
  <1>9. \A row, col : Pending(row, col)' = Pending(row, col)
    BY <1>7 DEF Pending
  <1>10. Pictured'
    BY <1>1, <1>2, <1>4, <1>7, <1>8, <1>9 DEF TextInv, Pictured
  <1> QED
    BY <1>5, <1>6, <1>10 DEF TextInv

\* The picture is kept through every execution of the one printer.
THEOREM TextInvHolds == TextSpec => []TextInv
  <1>1. TextInit => TextInv
    BY TextInitInv
  <1>2. ASSUME TextInv, [TextNext]_<<vars, textVars>> PROVE TextInv'
    <2>1. CASE KeyPrintsText
      <3>1. ch' \in Glyphs \cup {Newline, Backspace, Clear}
        BY <1>2, <2>1, KeyEffect DEF Chars
      <3> QED
        BY <1>2, <2>1, <3>1, FeedBegins, BackBegins, ClearBegins, GlyphBegins
    <2>2. CASE \E x \in -1 .. W, y \in -1 .. H : MoveCursor(x, y)
      <3>1. PICK x \in -1 .. W, y \in -1 .. H : MoveCursor(x, y)
        BY <2>2
      <3>2. x \in Int /\ y \in Int
        BY ConsoleAssumption
      <3> QED
        BY <1>2, <3>1, <3>2, MoveBegins
    <2>3. CASE Step("irq") /\ UNCHANGED textVars
      <3>1. CASE kputchar("irq")
        BY <1>2, <2>3, <3>1, CharacterMoves, StoreDraws
      <3>2. CASE scroll_screen("irq")
        BY <1>2, <2>3, <3>2, ScrollDraws, LastLineMoves DEF scroll_screen
      <3>3. CASE update_hardware_cursor("irq")
        BY <1>2, <2>3, <3>3, CursorMoves
      <3> QED
        BY <2>3, <3>1, <3>2, <3>3 DEF Step
    <2>4. CASE kclear_screen("irq") /\ UNCHANGED textVars
      BY <1>2, <2>4, ClearDraws, CoordinatesMove DEF kclear_screen
    <2>5. CASE kset_cursor_position("irq") /\ UNCHANGED textVars
      BY <1>2, <2>5, CoordinatesMove
    <2>6. CASE UNCHANGED <<vars, textVars>>
      BY <1>2, <2>6, TextStutters
    <2> QED
      BY <1>2, <2>1, <2>2, <2>3, <2>4, <2>5, <2>6 DEF TextNext
  <1> QED
    BY <1>1, <1>2, PTL DEF TextSpec

\* Between characters the screen is the window of the text that follows the
\* cursor, cell by cell, both cursors stand where the text goes on, and nothing
\* was stored off the screen.
THEOREM TextShown == TextSpec => []ScreenShowsText
  <1>1. ASSUME TextInv PROVE ScreenShowsText
    <2>1. NeverOffScreen
      BY <1>1 DEF TextInv, TextTypes, NeverOffScreen
    <2>2. ASSUME Quiet PROVE label = "idle"
      BY <2>2 DEF Quiet, label, Procs
    <2>3. WindowShowsText
      <3> SUFFICES ASSUME Quiet
                   PROVE  /\ \A row \in 0 .. H - 1, col \in 0 .. W - 1 :
                                top + row < MaxRows =>
                                    video[row * W + col] = text[top + row][col]
                          /\ kprint_x = text_x
                          /\ kprint_y = text_y - top
        BY DEF WindowShowsText
      <3> QED
        BY <1>1, <2>2, IdleFacts DEF Columns, ScreenRows
    <2>4. HardwareCursorSynced
      BY <1>1, <2>2, IdleFacts DEF HardwareCursorSynced, Shown
    <2> QED
      BY <2>1, <2>3, <2>4 DEF ScreenShowsText
  <1> QED
    BY <1>1, TextInvHolds, PTL
=============================================================================
