-------------------------------- MODULE Vga ---------------------------------
(***************************************************************************)
(* Switching between text and graphics: src/src/drivers/vga.c and the two  *)
(* real-mode excursions of src/src/drivers/vesa_bios.asm.                  *)
(*                                                                         *)
(* A mode stands for its number, its geometry and its linear frame buffer. *)
(* vesa_mode_info is the buffer the BIOS fills: it holds the information   *)
(* of one mode.  The BIOS is external: each of its calls may fail.         *)
(***************************************************************************)
EXTENDS Integers, Sequences, FiniteSets, FiniteSetsExt

CONSTANTS
    ModeList,       \* the modes the BIOS lists, in its order
    Wanted,         \* those of 1024x768, 32 bits, with a linear frame buffer
    Mode117,        \* the mode the fallback sets, of 1024x768 and 16 bits
    Mode118,        \* the mode the fallback records
    Geometry,       \* of each mode, with the bytes from one line to the next
    NoMode,
    Text            \* mode 3

ListedModes == {ModeList[i] : i \in 1 .. Len(ModeList)}
Modes == ListedModes \cup {Mode117}

ASSUME VgaAssumption ==
    /\ ModeList \in Seq(ListedModes)
    /\ Wanted \subseteq ListedModes
    /\ {NoMode, Text} \cap Modes = {}
    /\ Geometry \in [Modes -> [width : Nat, height : Nat, pitch : Nat, bpp : {8, 16, 24, 32}]]
    /\ \A m \in Modes : Geometry[m].pitch >= Geometry[m].width * (Geometry[m].bpp \div 8)
    /\ \A m \in Wanted \cup {Mode117} :
          /\ Geometry[m].width = 1024 /\ Geometry[m].height = 768
          /\ Geometry[m].bpp = IF m = Mode117 THEN 16 ELSE 32

VARIABLES
    hw_mode,            \* the mode the adapter is in
    current_mode,       \* the driver's idea: 0 text, 1 graphics
    vesa_found_mode,
    vesa_mode_info,     \* the mode whose information the buffer holds
    vesa_lfb_address,   \* the mode whose frame buffer address was kept
    vesa_success,
    result,             \* what the last excursion returned to its caller
    drawn,              \* the frame buffer last drawn to, and the geometry used
    bios_ok             \* history: every call of the BIOS has done its work

modeVars == <<hw_mode, vesa_found_mode, vesa_mode_info, vesa_lfb_address,
              vesa_success, result>>
vgaVars == <<modeVars, current_mode, drawn, bios_ok>>

VgaInit ==
    /\ hw_mode = Text
    /\ current_mode = 0
    /\ vesa_found_mode = NoMode
    /\ vesa_mode_info = NoMode
    /\ vesa_lfb_address = NoMode
    /\ vesa_success = 0
    /\ result = 0
    /\ drawn = [lfb |-> NoMode, info |-> NoMode]
    /\ bios_ok = TRUE

\* What the calls of one excursion meet: does the controller answer, of which
\* listed modes is there information, can the first choice be set, and does
\* the fallback get its information and its mode.
BiosAnswers ==
    [controller : BOOLEAN, informs : SUBSET ListedModes, sets : BOOLEAN,
     fallback_informs : BOOLEAN, fallback_sets : BOOLEAN]
AllWell == [controller |-> TRUE, informs |-> ListedModes, sets |-> TRUE,
            fallback_informs |-> TRUE, fallback_sets |-> TRUE]

\* The places of the list the search loop gets information for, and the one
\* it stops at.
Informed(bios) == {i \in 1 .. Len(ModeList) : bios.controller /\ ModeList[i] \in bios.informs}
Suitable(bios) == {i \in Informed(bios) : ModeList[i] \in Wanted}
FoundMode(bios) ==
    IF Suitable(bios) = {} THEN NoMode ELSE ModeList[Min(Suitable(bios))]

\* The buffer after the search: the found mode, or else the last one read.
InfoAfterSearch_Index(bios) ==                                      \* mutant
    IF FoundMode(bios) # NoMode THEN Min(Suitable(bios)) ELSE vesa_mode_info
InfoAfterSearch(bios) ==
    IF FoundMode(bios) # NoMode THEN FoundMode(bios)
    ELSE IF Informed(bios) = {} THEN vesa_mode_info
    ELSE ModeList[Max(Informed(bios))]

FirstChoiceSet(bios) == FoundMode(bios) # NoMode /\ bios.sets
FallbackRead(bios) == ~FirstChoiceSet(bios) /\ bios.fallback_informs
FallbackSet(bios) == FallbackRead(bios) /\ bios.fallback_sets

\* The frame buffer address: of the found mode, and then of the fallback.
LfbAfter_FallbackKept(bios) ==                                      \* mutant
    IF FoundMode(bios) # NoMode THEN FoundMode(bios)
    ELSE IF FallbackRead(bios) THEN Mode117 ELSE vesa_lfb_address
LfbAfter(bios) ==
    IF FallbackRead(bios) THEN Mode117
    ELSE IF FoundMode(bios) # NoMode THEN FoundMode(bios) ELSE vesa_lfb_address

\* popad restores EAX, so the caller sees what EAX held before the call: 0
\* left by kprintf in vga_set_vesa_mode_1024x768, and the tested flag
\* vesa_mode_active, 1, on the way to vesa_set_text_mode_80x25.
EaxBeforeSetMode == 0
EaxBeforeTextMode == 1

vesa_set_mode_1024x768(bios) ==
    /\ hw_mode' = IF FirstChoiceSet(bios) THEN FoundMode(bios)
                  ELSE IF FallbackSet(bios) THEN Mode117 ELSE hw_mode
    /\ vesa_found_mode' = IF FallbackSet(bios) THEN Mode118
                          ELSE IF FoundMode(bios) # NoMode THEN FoundMode(bios)
                          ELSE vesa_found_mode
    /\ vesa_mode_info' = IF FallbackRead(bios) THEN Mode117 ELSE InfoAfterSearch(bios)
    /\ vesa_lfb_address' = LfbAfter(bios)
    /\ vesa_success' = IF FirstChoiceSet(bios) \/ FallbackSet(bios) THEN 1 ELSE 0
    /\ result' = EaxBeforeSetMode
    /\ bios_ok' = (bios_ok /\ bios = AllWell)

vesa_set_text_mode_80x25 ==
    /\ hw_mode' = Text
    /\ result' = EaxBeforeTextMode
    /\ UNCHANGED <<vesa_found_mode, vesa_mode_info, vesa_lfb_address, vesa_success, bios_ok>>

\* vga_clear_screen_: the pages it maps and the bytes it then stores, for the
\* information in the buffer.  A buffer never filled reads as zero.  The pixels
\* are stored one behind the other: nobody calls vesa_get_pitch.
PAGE_SIZE == 4096
Info(m) == IF m = NoMode THEN [width |-> 0, height |-> 0, pitch |-> 0, bpp |-> 0]
           ELSE Geometry[m]
Pixels(g) == IF g.width = 0 \/ g.height = 0 THEN 1024 * 768 ELSE g.width * g.height

BytesMapped(m) ==
    LET fb_size == Pixels(Info(m)) * ((Info(m).bpp + 7) \div 8)
        pages_needed == (fb_size + PAGE_SIZE - 1) \div PAGE_SIZE
    IN  pages_needed * PAGE_SIZE

StoreSize_Wide(bpp) == IF bpp \in {16, 24, 32} THEN 4 ELSE 0          \* mutant
StoreSize(bpp) == IF bpp = 16 THEN 2 ELSE IF bpp \in {24, 32} THEN 4 ELSE 0
BytesStored(m) == Pixels(Info(m)) * StoreSize(Info(m).bpp)

\* A zero result makes the driver believe in the mode and draw: it maps and
\* fills the frame buffer at the kept address (NoMode stands for the common
\* address it falls back to) with the geometry of the buffer.  The return when
\* map_page fails (vga.c:94-97) is left out: it fails only without a page
\* directory, and paging_init has made all of them.
vga_set_vesa_mode_1024x768 ==
    /\ \E bios \in BiosAnswers : vesa_set_mode_1024x768(bios)
    /\ IF result' = 0
       THEN /\ current_mode' = 1
            /\ drawn' = [lfb |-> vesa_lfb_address', info |-> vesa_mode_info']
       ELSE UNCHANGED <<current_mode, drawn>>

vga_set_text_mode_80x25 ==
    /\ vesa_set_text_mode_80x25
    /\ current_mode' = IF result' = 0 THEN 0 ELSE current_mode
    /\ UNCHANGED drawn
=============================================================================
