---------------------------- MODULE ConsoleText -----------------------------
(***************************************************************************)
(* What the console promises when nobody interrupts it: the screen is a    *)
(* window on the text printed so far.  The text is a history of rows; the  *)
(* window shows H of them and follows the cursor down, never back up.      *)
(* The history advances when a character is handed to kputchar and is      *)
(* compared with the screen when kputchar has returned.  The one printer   *)
(* is the process "irq".                                                   *)
(***************************************************************************)
EXTENDS Console

CONSTANT MaxRows        \* bound: rows of text printed between two clears

ASSUME TextAssumption == MaxRows \in Nat

VARIABLES text, top, text_x, text_y

textVars == <<text, top, text_x, text_y>>

EmptyText == [row \in 0 .. MaxRows - 1 |-> [col \in 0 .. W - 1 |-> Blank]]

TextInit ==
    /\ Init
    /\ text = EmptyText
    /\ top = 0
    /\ text_x = kprint_x
    /\ text_y = kprint_y

NextRow ==
    /\ text_x' = 0
    /\ text_y' = text_y + 1
    /\ top' = IF text_y' - top >= H THEN top + 1 ELSE top

TextFeed ==
    /\ NextRow
    /\ UNCHANGED text

TextBack ==
    /\ IF text_x > 0
       THEN text_x' = text_x - 1 /\ UNCHANGED text_y
       ELSE IF text_y > top
            THEN text_x' = W - 1 /\ text_y' = text_y - 1
            ELSE UNCHANGED <<text_x, text_y>>
    /\ text' = [text EXCEPT ![text_y'][text_x'] = Blank]
    /\ UNCHANGED top

TextClear ==
    /\ text' = EmptyText
    /\ top' = 0
    /\ text_x' = 0
    /\ text_y' = 0

TextGlyph(c) ==
    /\ text' = [text EXCEPT ![text_y][text_x] = c]
    /\ IF text_x + 1 = W THEN NextRow
       ELSE text_x' = text_x + 1 /\ UNCHANGED <<text_y, top>>

TextStep(c) ==
    CASE c = Newline -> TextFeed
      [] c = Backspace -> TextBack
      [] c = Clear -> TextClear
      [] OTHER -> TextGlyph(c)

KeyPrintsText ==
    /\ KeyPrints
    /\ text_y + 1 < MaxRows \/ char'["irq"] \in {Backspace, Clear}
    /\ TextStep(char'["irq"])

\* The cursor is moved within the window; the text stays.
MoveCursor(x, y) ==
    /\ SetCursor("irq", x, y)
    /\ text_x' = x
    /\ text_y' = top + y
    /\ UNCHANGED <<text, top>>

TextNext ==
    \/ KeyPrintsText
    \/ \E x \in -1 .. W, y \in -1 .. H : MoveCursor(x, y)
    \/ Step("irq") /\ UNCHANGED textVars
    \/ kclear_screen("irq") /\ UNCHANGED textVars
    \/ kset_cursor_position("irq") /\ UNCHANGED textVars

TextSpec == TextInit /\ [][TextNext]_<<vars, textVars>>

-----------------------------------------------------------------------------
WindowShowsText ==
    Quiet =>
        /\ \A row \in 0 .. H - 1, col \in 0 .. W - 1 :
              top + row < MaxRows => video[row * W + col] = text[top + row][col]
        /\ kprint_x = text_x
        /\ kprint_y = text_y - top

\* Between characters the screen is the window [top, top + H) of the text, the
\* cursor, the hardware's included, is where the text goes on, and nothing was
\* stored off the screen: line feeds, wrapping, scrolling line by line,
\* backspaces over line ends and moves of the cursor never lose or misplace a
\* character.
ScreenShowsText == WindowShowsText /\ HardwareCursorSynced /\ NeverOffScreen
=============================================================================
