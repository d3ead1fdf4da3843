------------------------------ MODULE Console -------------------------------
(***************************************************************************)
(* The text console of src/src/lib/kprintf.c.  kputchar and its callers    *)
(* share kprint_x, kprint_y, the video memory and the cursor registers of  *)
(* the CRT controller with the keyboard interrupt, which calls kputchar    *)
(* too; nothing is locked and interrupts are on from kernel.c:50.          *)
(*                                                                         *)
(* "main" is kernel_main printing MainText after the sti; "irq" is the     *)
(* keyboard handler, which preempts main between any two memory or port    *)
(* accesses and runs to its end.  Every step below is one such access, as  *)
(* the unoptimised build makes them; reg is the register a value waits in. *)
(***************************************************************************)
EXTENDS Integers, Sequences

CONSTANTS
    W, H,           \* VGA_WIDTH, VGA_HEIGHT (80 and 25)
    Byte,           \* 2^8: what one cursor register holds
    MainText,       \* what main prints with interrupts on
    IrqChars        \* what the keyboard handler may print

Newline == "LF"
Backspace == "BS"
Clear == "CLEAR"            \* not a character: a call of kclear_screen
Blank == " "
Glyphs == {"a", "b"}        \* printable characters
Chars == Glyphs \cup {Newline, Backspace, Clear}

ASSUME ConsoleAssumption ==
    /\ W \in Nat \ {0} /\ H \in Nat \ {0, 1} /\ Byte \in Nat \ {0}
    /\ W * H <= Byte * Byte
    /\ MainText \in Seq(Chars)
    /\ IrqChars \subseteq Chars

Procs == {"main", "irq"}

VARIABLES
    kprint_x, kprint_y,
    video,          \* the characters of the screen
    offscreen,      \* a character was stored outside the screen
    crtc_index,     \* the register port 0x3D5 stands for
    crtc,           \* the registers 0x0E and 0x0F: high and low byte
    pc,             \* the next access of each process, "idle" when it is in none
    char,           \* the argument of its kputchar
    reg,            \* the value it holds in a register
    printed,        \* how much of MainText main has printed
    split           \* history: the interrupt came while main sent a position it
                    \* had read before

vars == <<kprint_x, kprint_y, video, offscreen, crtc_index, crtc, pc, char, reg,
          printed, split>>
progress == <<printed, split>>
screen == <<video, offscreen>>
cursor == <<crtc_index, crtc>>

\* The interrupt runs to its end before main goes on.
MayStep(self) == self = "irq" \/ pc["irq"] = "idle"

At(self, label) == pc[self] = label /\ MayStep(self)
Goto(self, label) == pc' = [pc EXCEPT ![self] = label]
Keep(self, value) == reg' = [reg EXCEPT ![self] = value]
Position == kprint_y * W + kprint_x

FirstAccess(c) ==
    CASE c = Newline -> "home"
      [] c = Backspace -> "back"
      [] c = Clear -> "clear"
      [] OTHER -> "row"

Begin(self, c) ==
    /\ At(self, "idle")
    /\ char' = [char EXCEPT ![self] = c]
    /\ Goto(self, FirstAccess(c))
    /\ UNCHANGED <<kprint_x, kprint_y, screen, cursor, reg>>

MainPrints ==
    /\ printed < Len(MainText)
    /\ Begin("main", MainText[printed + 1])
    /\ printed' = printed + 1
    /\ split' = FALSE

\* Where main is between reading the coordinates for the cursor and its last
\* port write.
SendsPosition == {"cursor_col", "index_hi", "send_hi", "index_lo", "send_lo"}

KeyPrints ==
    /\ \E c \in IrqChars : Begin("irq", c)
    /\ split' = (pc["main"] \in SendsPosition)
    /\ UNCHANGED printed

-----------------------------------------------------------------------------
(***************************************************************************)
(* kputchar, access by access.                                             *)
(***************************************************************************)
Home(self) ==
    /\ At(self, "home")
    /\ kprint_x' = 0
    /\ Goto(self, "read_y")
    /\ UNCHANGED <<kprint_y, screen, cursor, char, reg, progress>>

\* kprint_y++ and kprint_x++ read, and then write.
ReadY(self) ==
    /\ At(self, "read_y")
    /\ Keep(self, kprint_y)
    /\ Goto(self, "write_y")
    /\ UNCHANGED <<kprint_x, kprint_y, screen, cursor, char, progress>>

WriteY(self) ==
    /\ At(self, "write_y")
    /\ kprint_y' = reg[self] + 1
    /\ Goto(self, "test_y")
    /\ UNCHANGED <<kprint_x, screen, cursor, char, reg, progress>>

ReadX(self) ==
    /\ At(self, "read_x")
    /\ Keep(self, kprint_x)
    /\ Goto(self, "write_x")
    /\ UNCHANGED <<kprint_x, kprint_y, screen, cursor, char, progress>>

WriteX(self) ==
    /\ At(self, "write_x")
    /\ kprint_x' = reg[self] + 1
    /\ Goto(self, "test_x")
    /\ UNCHANGED <<kprint_y, screen, cursor, char, reg, progress>>

\* if (kprint_x >= VGA_WIDTH) the line is full.
LineFull_TooLate == kprint_x > W                                    \* mutant
LineFull == kprint_x >= W

TestX(self) ==
    /\ At(self, "test_x")
    /\ Goto(self, IF LineFull THEN "home" ELSE "test_y")
    /\ UNCHANGED <<kprint_x, kprint_y, screen, cursor, char, reg, progress>>

\* A backspace reads kprint_x and, at the start of a line, kprint_y.
Back(self) ==
    /\ At(self, "back")
    /\ Goto(self, IF kprint_x > 0 THEN "dec_x" ELSE "back_line")
    /\ UNCHANGED <<kprint_x, kprint_y, screen, cursor, char, reg, progress>>

DecX(self) ==
    /\ At(self, "dec_x")
    /\ Keep(self, kprint_x)
    /\ Goto(self, "store_dec_x")
    /\ UNCHANGED <<kprint_x, kprint_y, screen, cursor, char, progress>>

StoreDecX(self) ==
    /\ At(self, "store_dec_x")
    /\ kprint_x' = reg[self] - 1
    /\ Goto(self, "row")
    /\ UNCHANGED <<kprint_y, screen, cursor, char, reg, progress>>

AtTop == kprint_y = 0

BackLine(self) ==
    /\ At(self, "back_line")
    /\ Goto(self, IF AtTop THEN "row" ELSE "dec_y")
    /\ UNCHANGED <<kprint_x, kprint_y, screen, cursor, char, reg, progress>>

DecY(self) ==
    /\ At(self, "dec_y")
    /\ Keep(self, kprint_y)
    /\ Goto(self, "store_dec_y")
    /\ UNCHANGED <<kprint_x, kprint_y, screen, cursor, char, progress>>

StoreDecY(self) ==
    /\ At(self, "store_dec_y")
    /\ kprint_y' = reg[self] - 1
    /\ Goto(self, "line_end")
    /\ UNCHANGED <<kprint_x, screen, cursor, char, reg, progress>>

LineEnd(self) ==
    /\ At(self, "line_end")
    /\ kprint_x' = W - 1
    /\ Goto(self, "row")
    /\ UNCHANGED <<kprint_y, screen, cursor, char, reg, progress>>

\* The position of the character is computed from one read of each
\* coordinate, and the character (a blank for a backspace) stored there.  The
\* read of kprint_x and the store are one step: what the interrupt prints
\* between them changes where the character lands, not the coordinates.
Row(self) ==
    /\ At(self, "row")
    /\ Keep(self, kprint_y)
    /\ Goto(self, "store")
    /\ UNCHANGED <<kprint_x, kprint_y, screen, cursor, char, progress>>

Store(self) ==
    LET pos == reg[self] * W + kprint_x
        ch == IF char[self] = Backspace THEN Blank ELSE char[self]
    IN  /\ At(self, "store")
        /\ IF pos \in DOMAIN video
           THEN video' = [video EXCEPT ![pos] = ch] /\ UNCHANGED offscreen
           ELSE offscreen' = TRUE /\ UNCHANGED video
        /\ Goto(self, IF char[self] = Backspace THEN "test_y" ELSE "read_x")
        /\ UNCHANGED <<kprint_x, kprint_y, cursor, char, reg, progress>>

\* if (kprint_y >= VGA_HEIGHT) the screen scrolls.
PastBottom_TooLate == kprint_y > H                                  \* mutant
PastBottom == kprint_y >= H

TestY(self) ==
    /\ At(self, "test_y")
    /\ Keep(self, 0)
    /\ Goto(self, IF PastBottom THEN "scroll" ELSE "cursor_row")
    /\ UNCHANGED <<kprint_x, kprint_y, screen, cursor, char, progress>>

\* scroll_screen, line by line: line reg becomes the line below it, and the
\* last line is cleared.
ScrollLine_LastKept(line) ==                                        \* mutant
    [p \in DOMAIN video |->
        IF p \div W = line /\ line < H - 1 THEN video[p + W] ELSE video[p]]
ScrollLine(line) ==
    [p \in DOMAIN video |->
        IF p \div W # line THEN video[p]
        ELSE IF line = H - 1 THEN Blank ELSE video[p + W]]

Scroll(self) ==
    /\ At(self, "scroll")
    /\ video' = ScrollLine(reg[self])
    /\ IF reg[self] = H - 1
       THEN Goto(self, "last_line") /\ UNCHANGED reg
       ELSE Keep(self, reg[self] + 1) /\ UNCHANGED pc
    /\ UNCHANGED <<kprint_x, kprint_y, offscreen, cursor, char, progress>>

LastLine(self) ==
    /\ At(self, "last_line")
    /\ kprint_y' = H - 1
    /\ Goto(self, "cursor_row")
    /\ UNCHANGED <<kprint_x, screen, cursor, char, reg, progress>>

\* update_hardware_cursor: the position, and then four port writes.
CursorRow(self) ==
    /\ At(self, "cursor_row")
    /\ Keep(self, kprint_y)
    /\ Goto(self, "cursor_col")
    /\ UNCHANGED <<kprint_x, kprint_y, screen, cursor, char, progress>>

CursorCol(self) ==
    /\ At(self, "cursor_col")
    /\ Keep(self, reg[self] * W + kprint_x)
    /\ Goto(self, "index_hi")
    /\ UNCHANGED <<kprint_x, kprint_y, screen, cursor, char, progress>>

SelectByte(self, from, byte, to) ==
    /\ At(self, from)
    /\ crtc_index' = byte
    /\ Goto(self, to)
    /\ UNCHANGED <<kprint_x, kprint_y, screen, crtc, char, reg, progress>>

LowByte_Truncated(position) == position % (Byte \div 2)             \* mutant
LowByte(position) == position % Byte

SendByte(self, from, value, to) ==
    /\ At(self, from)
    /\ crtc' = [crtc EXCEPT ![crtc_index] = value]
    /\ Goto(self, to)
    /\ UNCHANGED <<kprint_x, kprint_y, screen, crtc_index, char, reg, progress>>

update_hardware_cursor(self) ==
    \/ CursorRow(self)
    \/ CursorCol(self)
    \/ SelectByte(self, "index_hi", "hi", "send_hi")
    \/ SendByte(self, "send_hi", reg[self] \div Byte, "index_lo")
    \/ SelectByte(self, "index_lo", "lo", "send_lo")
    \/ SendByte(self, "send_lo", LowByte(reg[self]), "idle")

\* kclear_screen: blanks everywhere, then the cursor at the top left.  It is
\* called before interrupts are enabled and by the exception handler, so it is
\* no part of the race.
ClearVideo(self) ==
    /\ At(self, "clear")
    /\ video' = [p \in DOMAIN video |-> Blank]
    /\ Goto(self, "clear_x")
    /\ UNCHANGED <<kprint_x, kprint_y, offscreen, cursor, char, reg, progress>>

ClearX(self) ==
    /\ At(self, "clear_x")
    /\ kprint_x' = 0
    /\ Goto(self, "clear_y")
    /\ UNCHANGED <<kprint_y, screen, cursor, char, reg, progress>>

ClearY(self) ==
    /\ At(self, "clear_y")
    /\ kprint_y' = 0
    /\ Goto(self, "cursor_row")
    /\ UNCHANGED <<kprint_x, screen, cursor, char, reg, progress>>

\* kset_cursor_position: coordinates off the screen are ignored, others are
\* stored and sent to the hardware.  Nothing in the kernel calls it yet, and
\* it is no part of the race either.
SetCursor(self, x, y) ==
    /\ At(self, "idle")
    /\ x \in 0 .. W - 1 /\ y \in 0 .. H - 1
    /\ Keep(self, y * W + x)
    /\ Goto(self, "set_x")
    /\ UNCHANGED <<kprint_x, kprint_y, screen, cursor, char, progress>>

SetX(self) ==
    /\ At(self, "set_x")
    /\ kprint_x' = reg[self] % W
    /\ Goto(self, "set_y")
    /\ UNCHANGED <<kprint_y, screen, cursor, char, reg, progress>>

SetY(self) ==
    /\ At(self, "set_y")
    /\ kprint_y' = reg[self] \div W
    /\ Goto(self, "cursor_row")
    /\ UNCHANGED <<kprint_x, screen, cursor, char, reg, progress>>

scroll_screen(self) == Scroll(self) \/ LastLine(self)
kclear_screen(self) == ClearVideo(self) \/ ClearX(self) \/ ClearY(self)
kset_cursor_position(self) == SetX(self) \/ SetY(self)
kputchar(self) ==
    \/ Home(self) \/ ReadY(self) \/ WriteY(self)
    \/ ReadX(self) \/ WriteX(self) \/ TestX(self)
    \/ Back(self) \/ DecX(self) \/ StoreDecX(self)
    \/ BackLine(self) \/ DecY(self) \/ StoreDecY(self) \/ LineEnd(self)
    \/ Row(self) \/ Store(self) \/ TestY(self)

Step(self) == kputchar(self) \/ scroll_screen(self) \/ update_hardware_cursor(self)

-----------------------------------------------------------------------------
\* The screen as the boot messages leave it.
Init ==
    /\ kprint_x \in 0 .. W - 1
    /\ kprint_y \in 0 .. H - 1
    /\ video = [p \in 0 .. W * H - 1 |-> Blank]
    /\ offscreen = FALSE
    /\ crtc_index = "lo"
    /\ crtc = [hi |-> Position \div Byte, lo |-> Position % Byte]
    /\ pc = [self \in Procs |-> "idle"]
    /\ char = [self \in Procs |-> Newline]
    /\ reg = [self \in Procs |-> 0]
    /\ printed = 0
    /\ split = FALSE

Next == MainPrints \/ KeyPrints \/ \E self \in Procs : Step(self)

Spec == Init /\ [][Next]_vars

Quiet == \A self \in Procs : pc[self] = "idle"

TypeOK ==
    /\ kprint_x \in 0 .. W + 1
    /\ kprint_y \in 0 .. H + 1
    /\ video \in [0 .. W * H - 1 -> Glyphs \cup {Blank}]
    /\ offscreen \in BOOLEAN
    /\ crtc_index \in {"hi", "lo"}
    /\ crtc \in [{"hi", "lo"} -> Int]
    /\ printed \in 0 .. Len(MainText)
    /\ split \in BOOLEAN

\* Whatever the interrupt does between two accesses of main, both coordinates
\* are back on the screen when nobody prints: the races never wedge the
\* console.
CursorRecovers ==
    Quiet => kprint_x \in 0 .. W - 1 /\ kprint_y \in 0 .. H - 1

\* README.md:47 "Hardware cursor synchronization": between characters the
\* cursor the hardware shows is the position of the next character.
HardwareCursorSynced == Quiet => crtc.hi * Byte + crtc.lo = Position

\* With interrupts on that is so unless the interrupt came between main's read
\* of kprint_y for the cursor and its last port write: no other interleaving
\* of the two printers, in the coordinates, the scroll or the registers,
\* leaves the hardware cursor elsewhere, and the next character repairs it.
CursorSyncedUnlessSplit == ~split => HardwareCursorSynced

\* README.md:48 "Automatic screen scrolling when text exceeds screen
\* boundaries": no character is stored outside the screen.
NeverOffScreen == ~offscreen
=============================================================================
