------------------------------ MODULE Keyboard ------------------------------
(***************************************************************************)
(* The keyboard driver of src/src/drivers/keyboard.c: modifier state, the  *)
(* translation of scan codes, and Alt+G, which toggles the display mode.   *)
(*                                                                         *)
(* A scan code is the key it names in the tables and a direction.  Each     *)
(* code raises one interrupt, so keyboard_handler is one action.  A key     *)
(* that has its own code sends one; a key added to the keyboard later sends *)
(* 0xE0 and the code of an older key, and print screen sends a shift code   *)
(* of its own around that when no shift is down.                            *)
(***************************************************************************)
EXTENDS Vga

CONSTANT Keys       \* the keys of the keyboard

LeftShift == "LSHIFT"       \* 0x2A
RightShift == "RSHIFT"      \* 0x36
Alt == "ALT"                \* 0x38
Caps == "CAPS"              \* 0x3A
Escape == "ESC"             \* 0x01
G == "G"                    \* 0x22, a letter
Letter == "A"               \* any other letter
Star == "STAR"              \* 0x37
Enter == "ENTER"
Rubout == "BACKSPACE"
Tab == "TAB"
FunctionKey == "F1"         \* a zero entry of the tables
RightAlt == "RALT"          \* 0xE0 0x38
KeypadEnter == "KPENTER"    \* 0xE0 0x1C
PrintScreen == "PRTSC"      \* 0xE0 0x37
Plain == {LeftShift, RightShift, Alt, Caps, Escape, G, Letter, Star, Enter, Rubout,
          Tab, FunctionKey}
KnownKeys == Plain \cup {RightAlt, KeypadEnter, PrintScreen}
Shifts == {LeftShift, RightShift}

\* The keys that send make and break codes of a shift, and of Alt.
ShiftSources == Shifts \cup {PrintScreen}
AltSources == {Alt, RightAlt}

ASSUME KeyboardAssumption == Keys \subseteq KnownKeys

VARIABLES
    shift_pressed, caps_lock, alt_pressed,
    vesa_mode_active,
    codes,          \* scan codes sent and not handled yet
    held,           \* history: the sources of a modifier that are down
    shared,         \* history: two sources of one flag have been down together
    typed           \* what the last scan code printed, debug messages apart

keyVars == <<shift_pressed, caps_lock, alt_pressed>>
keyboardVars == <<held, shared>>
vars == <<vgaVars, keyVars, vesa_mode_active, codes, keyboardVars, typed>>

\* keyboard_init
Init ==
    /\ VgaInit
    /\ shift_pressed = FALSE
    /\ caps_lock = FALSE
    /\ alt_pressed = FALSE
    /\ vesa_mode_active = FALSE
    /\ codes = << >>
    /\ held = {}
    /\ shared = FALSE
    /\ typed = << >>

\* scancode_to_ascii and scancode_to_ascii_shift with the caps lock rule, and
\* what is printed for the character.
Upper_CapsOnly == caps_lock                                         \* mutant
Upper == shift_pressed \/ caps_lock

Characters(key) ==
    CASE key \in {G, Letter} -> << IF Upper THEN "upper" ELSE "lower" >>
      [] key = Star -> << "*" >>
      [] key = Enter -> << "LF" >>
      [] key = Rubout -> << "BS" >>
      [] key = Tab -> << "SP", "SP", "SP", "SP" >>
      [] OTHER -> << >>

\* A release: only modifiers matter, and one flag stands for both shifts.
AltAfterRelease_Sticky(key) == alt_pressed                          \* mutant
AltAfterRelease(key) == alt_pressed /\ key # Alt
ShiftAfterRelease_RightOnly(key) == shift_pressed /\ key # RightShift  \* mutant
ShiftAfterRelease(key) == shift_pressed /\ key \notin Shifts

Released(key) ==
    /\ shift_pressed' = ShiftAfterRelease(key)
    /\ alt_pressed' = AltAfterRelease(key)
    /\ typed' = << >>
    /\ UNCHANGED <<caps_lock, vesa_mode_active, vgaVars>>

PressedModifier(key) ==
    /\ key \in Shifts \cup {Alt, Caps}
    /\ shift_pressed' = (shift_pressed \/ key \in Shifts)
    /\ alt_pressed' = (alt_pressed \/ key = Alt)
    /\ caps_lock' = (caps_lock # (key = Caps))
    /\ typed' = << >>
    /\ UNCHANGED <<vesa_mode_active, vgaVars>>

PressedEscape(key) ==
    /\ key = Escape
    /\ typed' = IF alt_pressed THEN << >> ELSE << "ESC" >>
    /\ UNCHANGED <<keyVars, vesa_mode_active, vgaVars>>

\* Alt+G: the flag of the keyboard driver, not current_mode, says which way;
\* going back to text clears it whatever the driver answers.
ActiveAfterText_IfReported == vesa_mode_active /\ current_mode' = 1 \* mutant
ActiveAfterText == FALSE

PressedAltG(key) ==
    /\ key = G /\ alt_pressed
    /\ typed' = << >>
    /\ IF vesa_mode_active
       THEN /\ vga_set_text_mode_80x25
            /\ vesa_mode_active' = ActiveAfterText
       ELSE /\ vga_set_vesa_mode_1024x768
            /\ vesa_mode_active' = (result' = 0)
    /\ UNCHANGED keyVars

PressedOther(key) ==
    /\ key \notin Shifts \cup {Alt, Caps, Escape}
    /\ ~(key = G /\ alt_pressed)
    /\ typed' = IF alt_pressed THEN << >> ELSE Characters(key)
    /\ UNCHANGED <<keyVars, vesa_mode_active, vgaVars>>

Pressed(key) ==
    PressedModifier(key) \/ PressedEscape(key) \/ PressedAltG(key) \/ PressedOther(key)

\* The handler knows nothing of the prefix: its high bit makes it a release,
\* of code 0x60, which is no modifier.
Prefix == [key |-> "0x60", up |-> TRUE]

keyboard_handler ==
    /\ codes # << >>
    /\ codes' = Tail(codes)
    /\ IF Head(codes).up THEN Released(Head(codes).key) ELSE Pressed(Head(codes).key)
    /\ UNCHANGED keyboardVars

\* What the keyboard sends for a key.  A later key has only its own codes, and
\* the handler takes them for those of the older key.
OldKey(key) == CASE key = RightAlt -> Alt
                 [] key = KeypadEnter -> Enter
                 [] key = PrintScreen -> Star
                 [] OTHER -> key
Code(key, up) == LET code == [key |-> OldKey(key), up |-> up]
                 IN  IF key \in Plain THEN <<code>> ELSE <<Prefix, code>>

\* Print screen sends the codes of a shift key around its own.  (So do the grey
\* cursor keys, which are not among the keys here.)
FakeShift(key, up) == IF key = PrintScreen /\ Shifts \cap held = {}
                      THEN <<Prefix, [key |-> LeftShift, up |-> up]>> ELSE << >>

AnyTwo(keys) == \E j, k \in keys : j # k
SharedBy(keys) ==
    keys # {} /\ (shared \/ AnyTwo(keys \cap ShiftSources) \/ AnyTwo(keys \cap AltSources))

\* A key goes down, or repeats while it is down; a key comes up.  The queue is
\* empty then: the codes arrive in the order they were sent in any case.
Event(keys) ==
    /\ codes = << >>
    /\ held' = keys
    /\ shared' = SharedBy(keys)
    /\ typed' = << >>
    /\ UNCHANGED <<vgaVars, keyVars, vesa_mode_active>>

Modifiers == ShiftSources \cup AltSources
Press(key) ==
    /\ Event(held \cup ({key} \cap Modifiers))
    /\ codes' = FakeShift(key, FALSE) \o Code(key, FALSE)
Release(key) ==
    /\ key \in Modifiers => key \in held
    /\ Event(held \ {key})
    /\ codes' = Code(key, TRUE) \o FakeShift(key, TRUE)

Next ==
    \/ keyboard_handler
    \/ \E key \in Keys : Press(key) \/ Release(key)

Spec == Init /\ [][Next]_vars

-----------------------------------------------------------------------------
TypeOK ==
    /\ {shift_pressed, caps_lock, alt_pressed, vesa_mode_active} \subseteq BOOLEAN
    /\ held \subseteq Keys \cap Modifiers
    /\ {shared} \subseteq BOOLEAN
    /\ Len(codes) <= 4
    /\ current_mode \in 0 .. 1
    /\ hw_mode \in Modes \cup {Text}
    /\ {vesa_mode_info, vesa_lfb_address} \subseteq Modes \cup {NoMode}
    /\ vesa_found_mode \in Modes \cup {NoMode, Mode118}
    /\ bios_ok \in BOOLEAN

\* Once the codes sent are handled, a modifier's flag is set exactly while a
\* key that sends its codes is down, repeats, prefixes and mode switches in
\* between notwithstanding; provided no two such keys have been down together
\* since the last time all were up, for they share the one flag.
ModifiersTrackKeys ==
    codes = << >> /\ ~shared =>
        /\ shift_pressed <=> ShiftSources \cap held # {}
        /\ alt_pressed <=> AltSources \cap held # {}

\* However the sources of a flag overlapped, and whatever shift codes print
\* screen added: no flag stays set once all keys are up.
NothingSticks == codes = << >> /\ held = {} => ~shift_pressed /\ ~alt_pressed

\* A letter is printed in upper case exactly when a shift key is down or caps
\* lock is on, and nothing at all is printed while Alt is down, prefixes and the
\* shift codes of print screen in between notwithstanding.
TypedAsHeld ==
    [][~shared =>
          /\ typed' = << "upper" >> => ShiftSources \cap held # {} \/ caps_lock
          /\ typed' = << "lower" >> => ShiftSources \cap held = {} /\ ~caps_lock
          /\ typed' # << >> => AltSources \cap held = {}]_vars

\* As long as the BIOS does what it is asked, Alt+G never loses track of the
\* display: the keyboard's flag is set exactly when the adapter shows
\* graphics, although the results the excursions return are not theirs.
FlagMatchesDisplay == bios_ok => (vesa_mode_active <=> hw_mode # Text)

\* Whatever BIOS calls fail, a graphics mode that was set is drawn with the
\* address and geometry of that mode, never those of one probed before.
DrawsIntoItsMode ==
    hw_mode # Text => drawn.lfb = hw_mode /\ drawn.info = hw_mode

\* The bytes of a line that show pixels, and the end of the last of them.
LineBytes(m) == Geometry[m].width * (Geometry[m].bpp \div 8)
ScreenEnd(m) == (Geometry[m].height - 1) * Geometry[m].pitch + LineBytes(m)
Padding(m) == (Geometry[m].height - 1) * (Geometry[m].pitch - LineBytes(m))

\* What the fill of a graphics mode reaches: no byte beyond the pages mapped for
\* it, although the fill of a 24-bit mode stores a third more than it maps, and
\* the screen up to its end less the padding between its lines, because it never
\* asks for the pitch (vesa_get_pitch, vga.c:16): of a mode without padding every
\* byte is white and none behind it, of another the end is not.
FillExact ==
    hw_mode # Text =>
        /\ BytesStored(drawn.info) <= BytesMapped(drawn.info)
        /\ ScreenEnd(hw_mode) - BytesStored(drawn.info) = Padding(hw_mode)

-----------------------------------------------------------------------------
\* vesa_bios.asm:83 and :380 "Returns: EAX (0 = success, -1 = failure)".
ResultTruthful ==
    [][hw_mode' # hw_mode => result' = 0]_vars
=============================================================================
