--------------------------- MODULE KeyboardProofs ---------------------------
(***************************************************************************)
(* Proofs about Keyboard, for every keyboard and every list of modes.      *)
(*                                                                         *)
(* The properties of the modifier flags hold when no scan code is waiting. *)
(* What makes them inductive is a claim about the codes in between: each   *)
(* flag, as it will be once the waiting codes are handled, is the one the  *)
(* keys call for (FlagsSettle), and no event of one key queues two codes   *)
(* that set the same flag, or a letter together with anything else         *)
(* (CodesShape).                                                           *)
(***************************************************************************)
EXTENDS Keyboard, ProofLemmas, SequenceTheorems, TLAPS

ScanCodes == [key : Plain \cup {"0x60"}, up : BOOLEAN]

AtMostOne(keys) ==
    \A i, j \in 1 .. Len(codes) :
        codes[i].key \in keys /\ codes[j].key \in keys => i = j

CodesShape ==
    /\ codes \in Seq(ScanCodes)
    /\ Len(codes) <= 4
    /\ AtMostOne(Shifts)
    /\ AtMostOne({Alt})
    /\ \A i \in 1 .. Len(codes) : codes[i].key \in {G, Letter} => Len(codes) = 1
    /\ \A i, j \in 1 .. Len(codes) :
          codes[i].key = Alt => codes[j].key \in {Alt, Prefix.key}

\* The value of a flag once the waiting codes are handled, keys being those
\* whose codes set and clear it.
Waiting(keys) == \E i \in 1 .. Len(codes) : codes[i].key \in keys
WaitingDown(keys) == \E i \in 1 .. Len(codes) : codes[i].key \in keys /\ ~codes[i].up
Settled(flag, keys) == IF Waiting(keys) THEN WaitingDown(keys) ELSE flag

FlagSettles(flag, keys, sources) ==
    /\ sources \cap held = {} => ~Settled(flag, keys)
    /\ ~shared => /\ ~AnyTwo(held \cap sources)
                  /\ Settled(flag, keys) <=> sources \cap held # {}
FlagsSettle ==
    /\ FlagSettles(shift_pressed, Shifts, ShiftSources)
    /\ FlagSettles(alt_pressed, {Alt}, AltSources)

\* The display: the keyboard's flag may be set although text is shown, after a
\* call of the BIOS failed, but it is never clear while graphics is shown.
DisplayTracked ==
    /\ hw_mode \in Wanted \cup {Mode117, Text}
    /\ ~vesa_mode_active => hw_mode = Text
    /\ FlagMatchesDisplay
    /\ DrawsIntoItsMode

IInv == TypeOK /\ CodesShape /\ FlagsSettle /\ DisplayTracked

-----------------------------------------------------------------------------
(***************************************************************************)
(* The display.                                                            *)
(***************************************************************************)
\* The search finds a wanted mode or none; none only if it got information on
\* no wanted mode.  What is left in the buffer is the found mode, or else a
\* listed one or what was there.
LEMMA FoundModeFacts ==
    ASSUME NEW bios \in BiosAnswers
    PROVE  /\ FoundMode(bios) \in Wanted \cup {NoMode}
           /\ FoundMode(bios) # NoMode => InfoAfterSearch(bios) = FoundMode(bios)
           /\ InfoAfterSearch(bios) \in Modes \cup {vesa_mode_info}
  <1> USE VgaAssumption
  <1>1. Len(ModeList) \in Nat /\ Suitable(bios) \subseteq Informed(bios)
        /\ Informed(bios) \subseteq 1 .. Len(ModeList)
    BY DEF Suitable, Informed
  <1>2. ASSUME Suitable(bios) # {}
        PROVE  ModeList[Min(Suitable(bios))] \in Wanted
    <2>1. Suitable(bios) \in SUBSET Nat
      BY <1>1
    <2>2. Min(Suitable(bios)) \in Suitable(bios)
      BY ONLY <1>2, <2>1, MinExists
    <2> QED
      BY <2>2 DEF Suitable
  <1>3. ASSUME Informed(bios) # {}
        PROVE  ModeList[Max(Informed(bios))] \in Modes
    <2>1. Informed(bios) \in SUBSET (0 .. Len(ModeList))
      BY <1>1
    <2>2. Max(Informed(bios)) \in Informed(bios)
      BY ONLY <1>1, <1>3, <2>1, MaxExists
    <2> QED
      BY ONLY <1>1, <2>2 DEF Modes, ListedModes
  <1>4. Wanted \subseteq Modes /\ NoMode \notin Wanted
    BY DEF Modes
  <1> QED
    BY <1>2, <1>3, <1>4 DEF FoundMode, InfoAfterSearch

\* The excursion into graphics leaves the adapter as it was or in a mode whose
\* address and information the driver then holds; if every call of the BIOS
\* works, in a graphics mode.
LEMMA SetModeFacts ==
    ASSUME NEW bios \in BiosAnswers, vesa_set_mode_1024x768(bios),
           {vesa_mode_info, vesa_lfb_address} \subseteq Modes \cup {NoMode},
           vesa_found_mode \in Modes \cup {NoMode, Mode118},
           hw_mode = Text, bios_ok \in BOOLEAN
    PROVE  /\ {vesa_mode_info', vesa_lfb_address'} \subseteq Modes \cup {NoMode}
           /\ vesa_found_mode' \in Modes \cup {NoMode, Mode118}
           /\ hw_mode' \in Wanted \cup {Mode117, Text}
           /\ hw_mode' # Text => vesa_mode_info' = hw_mode' /\ vesa_lfb_address' = hw_mode'
           /\ bios_ok' \in BOOLEAN
           /\ bios_ok' => hw_mode' # Text
  <1> DEFINE found == FoundMode(bios)
             info == InfoAfterSearch(bios)
  <1>1. /\ found \in Wanted \cup {NoMode}
        /\ found # NoMode => info = found
        /\ info \in Modes \cup {vesa_mode_info}
    BY FoundModeFacts
  <1>2. /\ Wanted \subseteq Modes /\ Mode117 \in Modes
        /\ Text \notin Modes /\ NoMode \notin Modes
    BY VgaAssumption, SMTT(30) DEF Modes
  <1>3. FirstChoiceSet(bios) => found # NoMode /\ ~FallbackRead(bios)
    BY DEF FirstChoiceSet, FallbackRead
  <1>4. FallbackSet(bios) => ~FirstChoiceSet(bios) /\ FallbackRead(bios)
    BY DEF FallbackSet, FallbackRead
  <1>5. FirstChoiceSet(bios) \/ FallbackSet(bios) \/ bios # AllWell
    BY DEF AllWell, FirstChoiceSet, FallbackSet, FallbackRead
  <1>6. LfbAfter(bios) =
          IF FallbackRead(bios) THEN Mode117
          ELSE IF found # NoMode THEN found ELSE vesa_lfb_address
    BY DEF LfbAfter
  <1>7. /\ hw_mode' = IF FirstChoiceSet(bios) THEN found
                      ELSE IF FallbackSet(bios) THEN Mode117 ELSE Text
        /\ vesa_found_mode' = IF FallbackSet(bios) THEN Mode118
                              ELSE IF found # NoMode THEN found ELSE vesa_found_mode
        /\ vesa_mode_info' = IF FallbackRead(bios) THEN Mode117 ELSE info
        /\ vesa_lfb_address' = LfbAfter(bios)
    BY DEF vesa_set_mode_1024x768
  <1>8. bios_ok' \in BOOLEAN /\ (bios_ok' => bios = AllWell)
    BY Zenon DEF vesa_set_mode_1024x768
  <1> HIDE DEF found, info
  <1>9. {vesa_mode_info', vesa_lfb_address'} \subseteq Modes \cup {NoMode}
    BY <1>1, <1>2, <1>6, <1>7
  <1>10. hw_mode' # Text => vesa_mode_info' = hw_mode' /\ vesa_lfb_address' = hw_mode'
    BY <1>1, <1>3, <1>4, <1>6, <1>7
  <1>11. bios_ok' => hw_mode' # Text
    BY <1>1, <1>2, <1>3, <1>4, <1>5, <1>7, <1>8
  <1>12. /\ vesa_found_mode' \in Modes \cup {NoMode, Mode118}
         /\ hw_mode' \in Wanted \cup {Mode117, Text}
    BY <1>1, <1>2, <1>3, <1>7
  <1> QED
    BY <1>8, <1>9, <1>10, <1>11, <1>12

\* Alt+G keeps the driver's idea of the display.
LEMMA AltGKeepsDisplay ==
    ASSUME TypeOK, DisplayTracked, NEW key, PressedAltG(key)
    PROVE  /\ DisplayTracked'
           /\ current_mode' \in 0 .. 1
           /\ vesa_mode_active' \in BOOLEAN
           /\ {vesa_mode_info', vesa_lfb_address'} \subseteq Modes \cup {NoMode}
           /\ vesa_found_mode' \in Modes \cup {NoMode, Mode118}
           /\ bios_ok' \in BOOLEAN
  <1>1. CASE vesa_mode_active
    <2>1. vga_set_text_mode_80x25 /\ vesa_mode_active' = FALSE
      BY <1>1 DEF PressedAltG, ActiveAfterText
    <2>2. /\ hw_mode' = Text
          /\ current_mode' = IF result' = 0 THEN 0 ELSE current_mode
          /\ UNCHANGED <<vesa_found_mode, vesa_mode_info, vesa_lfb_address, bios_ok, drawn>>
      BY <2>1 DEF vga_set_text_mode_80x25, vesa_set_text_mode_80x25
    <2>3. DisplayTracked'
      BY <2>1, <2>2, Zenon DEF DisplayTracked, FlagMatchesDisplay, DrawsIntoItsMode
    <2>4. /\ current_mode \in 0 .. 1
          /\ {vesa_mode_info, vesa_lfb_address} \subseteq Modes \cup {NoMode}
          /\ vesa_found_mode \in Modes \cup {NoMode, Mode118}
          /\ bios_ok \in BOOLEAN
      BY DEF TypeOK
    <2>5. current_mode' \in 0 .. 1
      BY <2>2, <2>4
    <2> QED
      BY <2>1, <2>2, <2>3, <2>4, <2>5
  <1>2. CASE ~vesa_mode_active
    <2>1. vga_set_vesa_mode_1024x768 /\ vesa_mode_active' = (result' = 0)
      BY <1>2 DEF PressedAltG
    <2>2. PICK bios \in BiosAnswers : vesa_set_mode_1024x768(bios)
      BY <2>1 DEF vga_set_vesa_mode_1024x768
    <2>3. result' = 0
      BY <2>2 DEF vesa_set_mode_1024x768, EaxBeforeSetMode
    <2>4. /\ current_mode' = 1
          /\ drawn' = [lfb |-> vesa_lfb_address', info |-> vesa_mode_info']
      BY <2>1, <2>3 DEF vga_set_vesa_mode_1024x768
    <2>5. hw_mode = Text
      BY <1>2 DEF DisplayTracked
    <2>6. vesa_mode_active' = TRUE
      BY <2>1, <2>3
    <2>7. /\ {vesa_mode_info, vesa_lfb_address} \subseteq Modes \cup {NoMode}
          /\ vesa_found_mode \in Modes \cup {NoMode, Mode118}
          /\ bios_ok \in BOOLEAN
      BY DEF TypeOK
    <2>8. /\ {vesa_mode_info', vesa_lfb_address'} \subseteq Modes \cup {NoMode}
          /\ vesa_found_mode' \in Modes \cup {NoMode, Mode118}
          /\ hw_mode' \in Wanted \cup {Mode117, Text}
          /\ hw_mode' # Text => vesa_mode_info' = hw_mode' /\ vesa_lfb_address' = hw_mode'
          /\ bios_ok' \in BOOLEAN
          /\ bios_ok' => hw_mode' # Text
      BY <2>2, <2>5, <2>7, SetModeFacts
    <2>9. DrawsIntoItsMode'
      BY <2>4, <2>8 DEF DrawsIntoItsMode
    <2> QED
      BY <2>4, <2>6, <2>8, <2>9 DEF DisplayTracked, FlagMatchesDisplay
  <1> QED
    BY <1>1, <1>2

-----------------------------------------------------------------------------
(***************************************************************************)
(* The queue of scan codes.                                                *)
(***************************************************************************)
\* The head of a queue and the rest of it, by places.
LEMMA HeadAndTail ==
    ASSUME codes \in Seq(ScanCodes), codes # << >>, codes' = Tail(codes)
    PROVE  /\ Len(codes) \in Nat \ {0}
           /\ Head(codes) = codes[1] /\ Head(codes) \in ScanCodes
           /\ codes' \in Seq(ScanCodes)
           /\ Len(codes') = Len(codes) - 1
           /\ \A i \in 1 .. Len(codes') : codes'[i] = codes[i + 1]
  OBVIOUS

\* Handling one code leaves a flag as it will be in the end alone, if handling
\* it sets the flag as the code says.
LEMMA HandlingSettles ==
    ASSUME codes \in Seq(ScanCodes), codes # << >>, codes' = Tail(codes),
           NEW keys, AtMostOne(keys), NEW flag \in BOOLEAN, NEW flagNext \in BOOLEAN,
           flagNext = IF Head(codes).key \in keys THEN ~Head(codes).up ELSE flag
    PROVE  Settled(flag, keys) <=>
               IF \E i \in 1 .. Len(codes') : codes'[i].key \in keys
               THEN \E i \in 1 .. Len(codes') : codes'[i].key \in keys /\ ~codes'[i].up
               ELSE flagNext
  <1> USE HeadAndTail
  <1>1. CASE codes[1].key \in keys
    <2>1. \A i \in 1 .. Len(codes') : codes'[i].key \notin keys
      BY <1>1 DEF AtMostOne
    <2>2. Waiting(keys)
      BY <1>1 DEF Waiting
    <2>3. WaitingDown(keys) <=> ~codes[1].up
      BY <1>1 DEF WaitingDown, AtMostOne
    <2> QED
      BY <1>1, <2>1, <2>2, <2>3 DEF Settled
  <1>2. CASE codes[1].key \notin keys
    <2>1. ASSUME NEW i \in 1 .. Len(codes), codes[i].key \in keys
          PROVE  /\ i - 1 \in 1 .. Len(codes')
                 /\ codes'[i - 1] = codes[i]
      BY <1>2, <2>1
    <2>2. ASSUME NEW i \in 1 .. Len(codes')
          PROVE  i + 1 \in 1 .. Len(codes) /\ codes'[i] = codes[i + 1]
      OBVIOUS
    <2>3. Waiting(keys) <=> \E i \in 1 .. Len(codes') : codes'[i].key \in keys
      BY ONLY <2>1, <2>2 DEF Waiting
    <2>4. WaitingDown(keys) <=>
             \E i \in 1 .. Len(codes') : codes'[i].key \in keys /\ ~codes'[i].up
      BY ONLY <2>1, <2>2 DEF WaitingDown
    <2>5. flagNext = flag
      BY <1>2
    <2> QED
      BY ONLY <2>3, <2>4, <2>5, Zenon DEF Settled
  <1> QED
    BY <1>1, <1>2

\* Handling a code leaves the shape of the rest.
LEMMA HandlingKeepsShape ==
    ASSUME CodesShape, codes # << >>, codes' = Tail(codes)
    PROVE  CodesShape'
  <1>1. codes \in Seq(ScanCodes)
    BY DEF CodesShape
  <1>2. /\ Len(codes) \in Nat \ {0}
        /\ codes' \in Seq(ScanCodes)
        /\ Len(codes') = Len(codes) - 1
        /\ \A i \in 1 .. Len(codes') : codes'[i] = codes[i + 1]
    BY <1>1, HeadAndTail
  <1>3. \A i \in 1 .. Len(codes') : i + 1 \in 1 .. Len(codes) /\ codes'[i] = codes[i + 1]
    BY <1>2
  <1>4. ASSUME NEW keys, AtMostOne(keys)
        PROVE  \A i, j \in 1 .. Len(codes') :
                   codes'[i].key \in keys /\ codes'[j].key \in keys => i = j
    BY <1>2, <1>3, <1>4 DEF AtMostOne
  <1>5. AtMostOne(Shifts)' /\ AtMostOne({Alt})'
    BY <1>4 DEF AtMostOne, CodesShape
  <1>6. ASSUME NEW i \in 1 .. Len(codes') PROVE codes'[i].key \notin {G, Letter}
    BY <1>2, <1>3 DEF CodesShape
  <1>7. ASSUME NEW i \in 1 .. Len(codes'), NEW j \in 1 .. Len(codes'), codes'[i].key = Alt
        PROVE  codes'[j].key \in {Alt, Prefix.key}
    BY <1>3, <1>7 DEF CodesShape
  <1>8. Len(codes') <= 4
    BY <1>2 DEF CodesShape
  <1> QED
    BY <1>2, <1>5, <1>6, <1>7, <1>8 DEF CodesShape

\* What an event of one key puts into the empty queue.
QueuedFor(key, up) ==
    LET c == [key |-> OldKey(key), up |-> up]
        s == [key |-> LeftShift, up |-> up]
    IN  IF key \in Plain THEN {<<c>>}
        ELSE IF key = PrintScreen /\ Shifts \cap held = {}
        THEN {<<Prefix, s, Prefix, c>>, <<Prefix, c, Prefix, s>>}
        ELSE {<<Prefix, c>>}

\* Two pairs make a sequence of four.
LEMMA ConcatPairs ==
    ASSUME NEW a, NEW b, NEW c, NEW d
    PROVE  <<a, b>> \o <<c, d>> = <<a, b, c, d>>
  <1> DEFINE S == {a, b, c, d}
             t == <<a, b>> \o <<c, d>>
  <1>1. <<a, b>> \in Seq(S) /\ <<c, d>> \in Seq(S) /\ <<a, b, c, d>> \in Seq(S)
    OBVIOUS
  <1>2. t \in Seq(S) /\ Len(t) = 4
    BY <1>1
  <1>3. t[1] = a /\ t[2] = b /\ t[3] = c /\ t[4] = d
    BY <1>1
  <1> HIDE DEF t
  <1>4. \A i \in 1 .. Len(t) : t[i] = <<a, b, c, d>>[i]
    BY <1>2, <1>3
  <1> QED
    BY <1>1, <1>2, <1>4, SeqEqual DEF t

\* The codes of an event, in the order of a press and of a release.
LEMMA EventQueues ==
    ASSUME NEW key \in KnownKeys, NEW up \in BOOLEAN
    PROVE  /\ FakeShift(key, up) \o Code(key, up) \in QueuedFor(key, up)
           /\ Code(key, up) \o FakeShift(key, up) \in QueuedFor(key, up)
  <1> DEFINE c == [key |-> OldKey(key), up |-> up]
             s == [key |-> LeftShift, up |-> up]
  <1> HIDE DEF c, s
  <1>1. CASE key \in Plain
    <2>1. key # PrintScreen
      BY <1>1 DEF Plain, PrintScreen, LeftShift, RightShift, Alt, Caps, Escape, G,
                  Letter, Star, Enter, Rubout, Tab, FunctionKey
    <2>2. Code(key, up) = <<c>> /\ FakeShift(key, up) = << >>
      BY <1>1, <2>1 DEF Code, FakeShift, c
    <2>3. << >> \o <<c>> = <<c>> /\ <<c>> \o << >> = <<c>>
      OBVIOUS
    <2> QED
      BY <1>1, <2>2, <2>3 DEF QueuedFor, c
  <1>2. CASE key \notin Plain /\ key = PrintScreen /\ Shifts \cap held = {}
    <2>1. Code(key, up) = <<Prefix, c>> /\ FakeShift(key, up) = <<Prefix, s>>
      BY <1>2 DEF Code, FakeShift, c, s
    <2> QED
      BY <1>2, <2>1, ConcatPairs DEF QueuedFor, c, s
  <1>3. CASE key \notin Plain /\ ~(key = PrintScreen /\ Shifts \cap held = {})
    <2>1. Code(key, up) = <<Prefix, c>> /\ FakeShift(key, up) = << >>
      BY <1>3 DEF Code, FakeShift, c
    <2>2. << >> \o <<Prefix, c>> = <<Prefix, c>> /\ <<Prefix, c>> \o << >> = <<Prefix, c>>
      OBVIOUS
    <2> QED
      BY <1>3, <2>1, <2>2 DEF QueuedFor, c
  <1> QED
    BY <1>1, <1>2, <1>3

\* The queue an event makes is well-formed; it holds a code of a shift exactly
\* for the sources of shift, but for print screen only while no shift is down,
\* and a code of Alt for the sources of Alt, all in the event's direction.
LEMMA EventShape ==
    ASSUME NEW key \in KnownKeys, NEW up \in BOOLEAN, codes' \in QueuedFor(key, up)
    PROVE  /\ CodesShape'
           /\ \A i \in 1 .. Len(codes') :
                 codes'[i].key \in Shifts \cup {Alt} => codes'[i].up = up
           /\ (\E i \in 1 .. Len(codes') : codes'[i].key \in Shifts) <=>
                 key \in Shifts \/ (key = PrintScreen /\ Shifts \cap held = {})
           /\ (\E i \in 1 .. Len(codes') : codes'[i].key \in {Alt}) <=> key \in AltSources
  <1> USE DEF Plain, PrintScreen, LeftShift, RightShift, Alt, Caps, Escape, G,
              Letter, Star, Enter, Rubout, Tab, FunctionKey, RightAlt, KeypadEnter,
              Shifts, AltSources, Prefix
  <1> DEFINE c == [key |-> OldKey(key), up |-> up]
             s == [key |-> LeftShift, up |-> up]
  <1>1. c \in ScanCodes /\ s \in ScanCodes /\ Prefix \in ScanCodes
    BY DEF ScanCodes, OldKey, KnownKeys
  <1>2. c.key = OldKey(key) /\ c.up = up /\ s.key = LeftShift /\ s.up = up
    OBVIOUS
  <1>3. (OldKey(key) \in Shifts <=> key \in Shifts) /\ (OldKey(key) = Alt <=> key \in AltSources)
    BY DEF OldKey, KnownKeys
  <1>4. CASE codes' = <<c>> /\ key \in Plain
    <2>1. /\ codes' \in Seq(ScanCodes) /\ Len(codes') = 1 /\ codes'[1] = c
      BY <1>1, <1>4
    <2> HIDE DEF c, s
    <2> QED
      BY <1>2, <1>3, <1>4, <2>1 DEF CodesShape, AtMostOne
  <1>5. CASE codes' = <<Prefix, c>> /\ key \notin Plain /\ ~(key = PrintScreen /\ Shifts \cap held = {})
    <2>1. /\ codes' \in Seq(ScanCodes) /\ Len(codes') = 2
          /\ codes'[1] = Prefix /\ codes'[2] = c
      BY <1>1, <1>5
    <2>2. OldKey(key) \notin {G, Letter}
      BY <1>5 DEF OldKey, KnownKeys
    <2> HIDE DEF c, s
    <2> QED
      BY <1>2, <1>3, <1>5, <2>1, <2>2 DEF CodesShape, AtMostOne
  <1>6. CASE /\ codes' = <<Prefix, s, Prefix, c>>
             /\ key = PrintScreen /\ Shifts \cap held = {}
    <2>1. /\ codes' \in Seq(ScanCodes) /\ Len(codes') = 4
          /\ codes'[1] = Prefix /\ codes'[2] = s /\ codes'[3] = Prefix /\ codes'[4] = c
      BY <1>1, <1>6
    <2>2. OldKey(key) = Star
      BY <1>6 DEF OldKey
    <2> HIDE DEF c, s
    <2> QED
      BY <1>2, <1>3, <1>6, <2>1, <2>2 DEF CodesShape, AtMostOne
  <1>7. CASE /\ codes' = <<Prefix, c, Prefix, s>>
             /\ key = PrintScreen /\ Shifts \cap held = {}
    <2>1. /\ codes' \in Seq(ScanCodes) /\ Len(codes') = 4
          /\ codes'[1] = Prefix /\ codes'[2] = c /\ codes'[3] = Prefix /\ codes'[4] = s
      BY <1>1, <1>7
    <2>2. OldKey(key) = Star
      BY <1>7 DEF OldKey
    <2> HIDE DEF c, s
    <2> QED
      BY <1>2, <1>3, <1>7, <2>1, <2>2 DEF CodesShape, AtMostOne
  <1> QED
    BY <1>4, <1>5, <1>6, <1>7 DEF QueuedFor

-----------------------------------------------------------------------------
(***************************************************************************)
(* The steps.                                                              *)
(***************************************************************************)
\* Handling a code sets a flag as the code says and leaves the other alone.
LEMMA HandlerSetsFlags ==
    ASSUME TypeOK, CodesShape, keyboard_handler
    PROVE  /\ shift_pressed' = IF Head(codes).key \in Shifts THEN ~Head(codes).up
                               ELSE shift_pressed
           /\ alt_pressed' = IF Head(codes).key \in {Alt} THEN ~Head(codes).up
                             ELSE alt_pressed
           /\ {shift_pressed', alt_pressed', caps_lock'} \subseteq BOOLEAN
  <1> DEFINE key == Head(codes).key
  <1>1. Head(codes).up \in BOOLEAN
    BY HeadAndTail DEF CodesShape, keyboard_handler, ScanCodes
  <1>2. shift_pressed \in BOOLEAN /\ alt_pressed \in BOOLEAN /\ caps_lock \in BOOLEAN
    BY DEF TypeOK
  <1>3. Alt \notin Shifts /\ Caps \notin Shifts /\ Escape \notin Shifts /\ G \notin Shifts
        /\ Alt # G /\ Alt # Escape /\ Alt # Caps
    BY DEF Alt, Caps, Escape, G, Shifts, LeftShift, RightShift
  <1>4. CASE Head(codes).up
    <2>1. Released(key)
      BY <1>4 DEF keyboard_handler
    <2> QED
      BY <1>2, <1>4, <2>1 DEF Released, ShiftAfterRelease, AltAfterRelease
  <1>5. CASE ~Head(codes).up
    <2>1. Pressed(key)
      BY <1>5 DEF keyboard_handler
    <2>2. CASE PressedModifier(key)
      BY <1>2, <1>3, <1>5, <2>2 DEF PressedModifier
    <2>3. CASE PressedEscape(key) \/ PressedAltG(key) \/ PressedOther(key)
      <3>1. key \notin Shifts /\ key # Alt
        BY <1>3, <2>3 DEF PressedEscape, PressedAltG, PressedOther
      <3>2. UNCHANGED keyVars
        BY <2>3 DEF PressedEscape, PressedAltG, PressedOther
      <3> QED
        BY <1>2, <3>1, <3>2 DEF keyVars
    <2> QED
      BY <2>1, <2>2, <2>3 DEF Pressed
  <1> QED
    BY <1>1, <1>4, <1>5

\* Each step preserves the invariant: a code handled, ...
LEMMA HandlerKeepsInv ==
    ASSUME IInv, keyboard_handler
    PROVE  IInv'
  <1>1. TypeOK /\ CodesShape /\ FlagsSettle /\ DisplayTracked
    BY DEF IInv
  <1>2. codes \in Seq(ScanCodes) /\ codes # << >> /\ codes' = Tail(codes)
    BY <1>1 DEF CodesShape, keyboard_handler
  <1>3. CodesShape'
    BY <1>1, <1>2, HandlingKeepsShape
  <1>4. UNCHANGED <<held, shared>>
    BY DEF keyboard_handler, keyboardVars
  <1>5. /\ shift_pressed \in BOOLEAN /\ shift_pressed' \in BOOLEAN
        /\ shift_pressed' = IF Head(codes).key \in Shifts THEN ~Head(codes).up
                            ELSE shift_pressed
        /\ alt_pressed \in BOOLEAN /\ alt_pressed' \in BOOLEAN
        /\ alt_pressed' = IF Head(codes).key \in {Alt} THEN ~Head(codes).up
                          ELSE alt_pressed
        /\ caps_lock' \in BOOLEAN
    BY <1>1, HandlerSetsFlags DEF TypeOK
  <1>6. Settled(shift_pressed, Shifts)' <=> Settled(shift_pressed, Shifts)
    <2>1. AtMostOne(Shifts)
      BY <1>1 DEF CodesShape
    <2> QED
      BY <1>2, <1>5, <2>1, HandlingSettles DEF Settled, Waiting, WaitingDown
  <1>7. Settled(alt_pressed, {Alt})' <=> Settled(alt_pressed, {Alt})
    <2>1. AtMostOne({Alt})
      BY <1>1 DEF CodesShape
    <2> QED
      BY <1>2, <1>5, <2>1, HandlingSettles DEF Settled, Waiting, WaitingDown
  <1>8. FlagsSettle'
    BY <1>1, <1>4, <1>6, <1>7 DEF FlagsSettle, FlagSettles
  <1>9. /\ DisplayTracked'
        /\ current_mode' \in 0 .. 1
        /\ vesa_mode_active' \in BOOLEAN
        /\ {vesa_mode_info', vesa_lfb_address'} \subseteq Modes \cup {NoMode}
        /\ vesa_found_mode' \in Modes \cup {NoMode, Mode118}
        /\ bios_ok' \in BOOLEAN
    <2>1. CASE \E key : PressedAltG(key)
      BY <1>1, <2>1, AltGKeepsDisplay
    <2>2. CASE ~\E key : PressedAltG(key)
      <3>1. UNCHANGED <<vesa_mode_active, vgaVars>>
        BY <2>2 DEF keyboard_handler, Released, Pressed, PressedModifier, PressedEscape,
                    PressedOther
      <3>2. UNCHANGED <<hw_mode, current_mode, vesa_found_mode, vesa_mode_info,
                        vesa_lfb_address, drawn, bios_ok, vesa_mode_active>>
        BY <3>1 DEF vgaVars, modeVars
      <3>3. DisplayTracked'
        BY <1>1, <3>2, Zenon DEF DisplayTracked, FlagMatchesDisplay, DrawsIntoItsMode
      <3>4. /\ current_mode \in 0 .. 1
            /\ vesa_mode_active \in BOOLEAN
            /\ {vesa_mode_info, vesa_lfb_address} \subseteq Modes \cup {NoMode}
            /\ vesa_found_mode \in Modes \cup {NoMode, Mode118}
            /\ bios_ok \in BOOLEAN
        BY <1>1 DEF TypeOK
      <3> QED
        BY <3>2, <3>3, <3>4
    <2> QED
      BY <2>1, <2>2
  <1>10. TypeOK'
    <2>1. hw_mode' \in Modes \cup {Text}
      BY <1>9, VgaAssumption DEF DisplayTracked, Modes
    <2>2. held' \subseteq Keys \cap Modifiers /\ shared' \in BOOLEAN
      BY <1>1, <1>4 DEF TypeOK
    <2>3. Len(codes') <= 4
      BY <1>3 DEF CodesShape
    <2> QED
      BY <1>5, <1>9, <2>1, <2>2, <2>3 DEF TypeOK
  <1> QED
    BY <1>3, <1>8, <1>9, <1>10 DEF IInv

\* What every event of a key leaves alone.
LEMMA EventKeepsRest ==
    ASSUME IInv, NEW keys, Event(keys), keys \subseteq Keys \cap Modifiers, CodesShape'
    PROVE  /\ TypeOK' /\ DisplayTracked'
           /\ UNCHANGED <<shift_pressed, alt_pressed>>
           /\ ~Waiting(Shifts) /\ ~Waiting({Alt})
           /\ shift_pressed \in BOOLEAN /\ alt_pressed \in BOOLEAN
           /\ shared \in BOOLEAN /\ shared' \in BOOLEAN
  <1>1. /\ UNCHANGED <<hw_mode, current_mode, vesa_found_mode, vesa_mode_info,
                       vesa_lfb_address, drawn, bios_ok, vesa_mode_active>>
        /\ UNCHANGED <<shift_pressed, caps_lock, alt_pressed>>
        /\ codes = << >> /\ held' = keys /\ shared' = SharedBy(keys)
    BY DEF Event, vgaVars, modeVars, keyVars
  <1>2. DisplayTracked'
    BY <1>1, Zenon DEF IInv, DisplayTracked, FlagMatchesDisplay, DrawsIntoItsMode
  <1>3. shared' \in BOOLEAN
    BY <1>1, Zenon DEF SharedBy
  <1>4. Len(codes') <= 4
    BY DEF CodesShape
  <1>5. /\ shift_pressed \in BOOLEAN /\ alt_pressed \in BOOLEAN /\ caps_lock \in BOOLEAN
        /\ vesa_mode_active \in BOOLEAN /\ shared \in BOOLEAN /\ bios_ok \in BOOLEAN
        /\ current_mode \in 0 .. 1 /\ hw_mode \in Modes \cup {Text}
        /\ {vesa_mode_info, vesa_lfb_address} \subseteq Modes \cup {NoMode}
        /\ vesa_found_mode \in Modes \cup {NoMode, Mode118}
    BY DEF IInv, TypeOK
  <1>6. TypeOK'
    BY <1>1, <1>3, <1>4, <1>5 DEF TypeOK
  <1> QED
    BY <1>1, <1>2, <1>3, <1>5, <1>6 DEF Waiting

\* The sources of the two flags are apart.
LEMMA SourcesFacts ==
    /\ ShiftSources \cap AltSources = {} /\ ShiftSources \cup AltSources = Modifiers
    /\ Shifts \subseteq ShiftSources /\ ShiftSources = Shifts \cup {PrintScreen}
    /\ PrintScreen \notin Shifts
  BY DEF ShiftSources, AltSources, Modifiers, Shifts, LeftShift, RightShift, PrintScreen,
         Alt, RightAlt

\* ... a key pressed or repeated, ...
LEMMA PressKeepsInv ==
    ASSUME IInv, NEW key \in Keys, Press(key)
    PROVE  IInv'
  <1> DEFINE keys == held \cup ({key} \cap Modifiers)
  <1>1. Event(keys) /\ codes' = FakeShift(key, FALSE) \o Code(key, FALSE)
    BY DEF Press
  <1>2. key \in KnownKeys
    BY KeyboardAssumption
  <1>3. /\ CodesShape'
        /\ \A i \in 1 .. Len(codes') : codes'[i].key \in Shifts \cup {Alt} => ~codes'[i].up
        /\ (\E i \in 1 .. Len(codes') : codes'[i].key \in Shifts) <=>
              key \in Shifts \/ (key = PrintScreen /\ Shifts \cap held = {})
        /\ (\E i \in 1 .. Len(codes') : codes'[i].key \in {Alt}) <=> key \in AltSources
    BY <1>1, <1>2, EventQueues, EventShape
  <1>4. held \subseteq Keys \cap Modifiers /\ keys \subseteq Keys \cap Modifiers
    BY DEF IInv, TypeOK
  <1>5. /\ TypeOK' /\ DisplayTracked'
        /\ UNCHANGED <<shift_pressed, alt_pressed>>
        /\ ~Waiting(Shifts) /\ ~Waiting({Alt})
        /\ shift_pressed \in BOOLEAN /\ alt_pressed \in BOOLEAN
        /\ shared \in BOOLEAN /\ shared' \in BOOLEAN
    BY <1>1, <1>3, <1>4, EventKeepsRest
  <1>6. held' = keys /\ shared' = SharedBy(keys)
    BY <1>1 DEF Event
  <1>7. FlagSettles(shift_pressed, Shifts, ShiftSources)
        /\ FlagSettles(alt_pressed, {Alt}, AltSources)
    BY DEF IInv, FlagsSettle
  <1>8. ~shared' => /\ keys = {} \/ ~shared
                    /\ ~AnyTwo(keys \cap ShiftSources) /\ ~AnyTwo(keys \cap AltSources)
    BY <1>6 DEF SharedBy, AnyTwo
  <1>9. FlagSettles(shift_pressed, Shifts, ShiftSources)'
    <2>1. Settled(shift_pressed, Shifts)' <=>
              key \in Shifts \/ (key = PrintScreen /\ Shifts \cap held = {})
              \/ Settled(shift_pressed, Shifts)
      BY <1>3, <1>5 DEF Settled, Waiting, WaitingDown
    <2> QED
      BY <1>4, <1>6, <1>7, <1>8, <2>1, SourcesFacts DEF FlagSettles, AnyTwo
  <1>10. FlagSettles(alt_pressed, {Alt}, AltSources)'
    <2>1. Settled(alt_pressed, {Alt})' <=> key \in AltSources \/ Settled(alt_pressed, {Alt})
      BY <1>3, <1>5 DEF Settled, Waiting, WaitingDown
    <2> QED
      BY <1>4, <1>6, <1>7, <1>8, <2>1, SourcesFacts DEF FlagSettles, AnyTwo
  <1> QED
    BY <1>3, <1>5, <1>9, <1>10 DEF IInv, FlagsSettle

\* ... a key released.
LEMMA ReleaseKeepsInv ==
    ASSUME IInv, NEW key \in Keys, Release(key)
    PROVE  IInv'
  <1> DEFINE keys == held \ {key}
  <1>1. /\ Event(keys) /\ codes' = Code(key, TRUE) \o FakeShift(key, TRUE)
        /\ key \in Modifiers => key \in held
    BY DEF Release
  <1>2. key \in KnownKeys
    BY KeyboardAssumption
  <1>3. /\ CodesShape'
        /\ \A i \in 1 .. Len(codes') : codes'[i].key \in Shifts \cup {Alt} => codes'[i].up
        /\ (\E i \in 1 .. Len(codes') : codes'[i].key \in Shifts) <=>
              key \in Shifts \/ (key = PrintScreen /\ Shifts \cap held = {})
        /\ (\E i \in 1 .. Len(codes') : codes'[i].key \in {Alt}) <=> key \in AltSources
    BY <1>1, <1>2, EventQueues, EventShape
  <1>4. held \subseteq Keys \cap Modifiers /\ keys \subseteq Keys \cap Modifiers
    BY DEF IInv, TypeOK
  <1>5. /\ TypeOK' /\ DisplayTracked'
        /\ UNCHANGED <<shift_pressed, alt_pressed>>
        /\ ~Waiting(Shifts) /\ ~Waiting({Alt})
        /\ shift_pressed \in BOOLEAN /\ alt_pressed \in BOOLEAN
        /\ shared \in BOOLEAN /\ shared' \in BOOLEAN
    BY <1>1, <1>3, <1>4, EventKeepsRest
  <1>6. held' = keys /\ shared' = SharedBy(keys)
    BY <1>1 DEF Event
  <1>7. FlagSettles(shift_pressed, Shifts, ShiftSources)
        /\ FlagSettles(alt_pressed, {Alt}, AltSources)
    BY DEF IInv, FlagsSettle
  <1>8. ~shared' => /\ keys = {} \/ ~shared
                    /\ ~AnyTwo(keys \cap ShiftSources) /\ ~AnyTwo(keys \cap AltSources)
    BY <1>6 DEF SharedBy, AnyTwo
  <1>9. FlagSettles(shift_pressed, Shifts, ShiftSources)'
    <2>1. Settled(shift_pressed, Shifts)' <=>
              ~(key \in Shifts \/ (key = PrintScreen /\ Shifts \cap held = {}))
              /\ Settled(shift_pressed, Shifts)
      BY <1>3, <1>5 DEF Settled, Waiting, WaitingDown
    <2> QED
      BY <1>1, <1>4, <1>6, <1>7, <1>8, <2>1, SourcesFacts DEF FlagSettles, AnyTwo
  <1>10. FlagSettles(alt_pressed, {Alt}, AltSources)'
    <2>1. Settled(alt_pressed, {Alt})' <=> key \notin AltSources /\ Settled(alt_pressed, {Alt})
      BY <1>3, <1>5 DEF Settled, Waiting, WaitingDown
    <2> QED
      BY <1>1, <1>4, <1>6, <1>7, <1>8, <2>1, SourcesFacts DEF FlagSettles, AnyTwo
  <1> QED
    BY <1>3, <1>5, <1>9, <1>10 DEF IInv, FlagsSettle

-----------------------------------------------------------------------------
(***************************************************************************)
(* The theorems.                                                           *)
(***************************************************************************)
\* The invariant holds in every reachable state.
LEMMA InvHolds == Spec => []IInv
  <1>1. Init => IInv
    <2> SUFFICES ASSUME Init PROVE IInv
      OBVIOUS
    <2>1. /\ hw_mode = Text /\ current_mode = 0 /\ vesa_found_mode = NoMode
          /\ vesa_mode_info = NoMode /\ vesa_lfb_address = NoMode /\ bios_ok = TRUE
          /\ shift_pressed = FALSE /\ caps_lock = FALSE /\ alt_pressed = FALSE
          /\ vesa_mode_active = FALSE /\ codes = << >> /\ held = {} /\ shared = FALSE
      BY DEF Init, VgaInit
    <2>2. TypeOK
      <3>1. /\ shift_pressed \in BOOLEAN /\ caps_lock \in BOOLEAN /\ alt_pressed \in BOOLEAN
            /\ vesa_mode_active \in BOOLEAN /\ shared \in BOOLEAN /\ bios_ok \in BOOLEAN
        BY <2>1
      <3>2. /\ Len(codes) <= 4 /\ current_mode \in 0 .. 1
            /\ held \subseteq Keys \cap Modifiers
        BY <2>1
      <3>3. /\ hw_mode \in Modes \cup {Text}
            /\ {vesa_mode_info, vesa_lfb_address} \subseteq Modes \cup {NoMode}
            /\ vesa_found_mode \in Modes \cup {NoMode, Mode118}
        BY <2>1
      <3> QED
        BY <3>1, <3>2, <3>3 DEF TypeOK
    <2>3. CodesShape
      BY <2>1 DEF CodesShape, AtMostOne
    <2>4. FlagsSettle
      BY <2>1 DEF FlagsSettle, FlagSettles, Settled, Waiting, AnyTwo
    <2>5. DisplayTracked
      BY <2>1 DEF DisplayTracked, FlagMatchesDisplay, DrawsIntoItsMode
    <2> QED
      BY <2>2, <2>3, <2>4, <2>5 DEF IInv
  <1>2. IInv /\ [Next]_vars => IInv'
    <2> SUFFICES ASSUME IInv, [Next]_vars PROVE IInv'
      OBVIOUS
    <2>1. CASE keyboard_handler
      BY <2>1, HandlerKeepsInv
    <2>2. CASE \E key \in Keys : Press(key) \/ Release(key)
      BY <2>2, PressKeepsInv, ReleaseKeepsInv
    <2>3. CASE UNCHANGED vars
      <3>1. /\ UNCHANGED <<hw_mode, current_mode, vesa_found_mode, vesa_mode_info,
                           vesa_lfb_address, drawn, bios_ok, vesa_mode_active>>
            /\ UNCHANGED <<shift_pressed, caps_lock, alt_pressed, codes, held, shared>>
        BY <2>3 DEF vars, vgaVars, modeVars, keyVars, keyboardVars
      <3>2. DisplayTracked'
        BY <3>1, Zenon DEF IInv, DisplayTracked, FlagMatchesDisplay, DrawsIntoItsMode
      <3>3. CodesShape'
        BY <3>1, Zenon DEF IInv, CodesShape, AtMostOne
      <3>4. FlagsSettle'
        BY <3>1, Zenon DEF IInv, FlagsSettle, FlagSettles, Settled, Waiting, WaitingDown
      <3>5. TypeOK'
        BY <3>1, Zenon DEF IInv, TypeOK
      <3> QED
        BY <3>2, <3>3, <3>4, <3>5 DEF IInv
    <2> QED
      BY <2>1, <2>2, <2>3 DEF Next
  <1> QED
    BY <1>1, <1>2, PTL DEF Spec

\* Flags, queue and modes always have their types.
THEOREM TypeCorrect == Spec => []TypeOK
  BY InvHolds, PTL DEF IInv

\* With no code waiting each modifier's flag is set exactly while a key that
\* sends its codes is down, unless two of them overlapped: the settled value of
\* a flag is then the flag.
THEOREM ModifiersTracked == Spec => []ModifiersTrackKeys
  <1>1. IInv => ModifiersTrackKeys
    BY DEF IInv, FlagsSettle, FlagSettles, Settled, Waiting, ModifiersTrackKeys
  <1> QED
    BY <1>1, InvHolds, PTL

\* However presses of the two shifts, of both Alt keys and of print screen
\* overlapped, no flag stays set once all keys are up.
THEOREM NothingStuck == Spec => []NothingSticks
  <1>1. IInv => NothingSticks
    BY DEF IInv, FlagsSettle, FlagSettles, Settled, Waiting, NothingSticks
  <1> QED
    BY <1>1, InvHolds, PTL

\* While the BIOS does what it is asked, the keyboard's flag says whether the
\* adapter shows graphics, for every list of modes.
THEOREM DisplayFollowed == Spec => []FlagMatchesDisplay
  <1>1. IInv => FlagMatchesDisplay
    BY DEF IInv, DisplayTracked
  <1> QED
    BY <1>1, InvHolds, PTL

\* Whatever calls of the BIOS fail, graphics is drawn to the address and with
\* the geometry of the mode the adapter is in.
THEOREM DrawnWhereShown == Spec => []DrawsIntoItsMode
  <1>1. IInv => DrawsIntoItsMode
    BY DEF IInv, DisplayTracked
  <1> QED
    BY <1>1, InvHolds, PTL

\* The fill of a graphics mode stays within the pages mapped, and falls short of
\* the end of the screen by the padding between its lines and no more, whatever
\* the pitch: only modes of 16 and 32 bits are ever set.
THEOREM FilledExactly == Spec => []FillExact
  <1>1. IInv => FillExact
    <2> SUFFICES ASSUME IInv, hw_mode # Text
                 PROVE  /\ BytesStored(drawn.info) <= BytesMapped(drawn.info)
                        /\ ScreenEnd(hw_mode) - BytesStored(drawn.info) = Padding(hw_mode)
      BY DEF FillExact
    <2>1. drawn.info = hw_mode /\ hw_mode \in Wanted \cup {Mode117}
      BY DEF IInv, DisplayTracked, DrawsIntoItsMode
    <2>2. hw_mode # NoMode /\ hw_mode \in Modes
      <3>1. Wanted \subseteq ListedModes /\ {NoMode, Text} \cap Modes = {}
        BY VgaAssumption
      <3> QED
        BY ONLY <2>1, <3>1 DEF Modes
    <2>3. Info(drawn.info) = Geometry[hw_mode]
      BY <2>1, <2>2 DEF Info
    <2>4. Geometry[hw_mode].pitch \in Nat
      BY <2>2, VgaAssumption
    <2>5. Geometry[hw_mode].width = 1024 /\ Geometry[hw_mode].height = 768
      BY <2>1, VgaAssumption
    <2>6. Geometry[hw_mode].bpp \in {16, 32}
      BY <2>1, VgaAssumption
    <2> QED
      BY <2>3, <2>4, <2>5, <2>6
         DEF BytesStored, BytesMapped, LineBytes, ScreenEnd, Padding, Pixels, StoreSize, PAGE_SIZE
  <1> QED
    BY <1>1, InvHolds, PTL

\* A letter is in upper case exactly while a shift key is down or caps lock is
\* on, and nothing is printed while Alt is down, in every step: a code that
\* prints waits in no queue with a code that changes its flag.
THEOREM TypedAsKeysHeld == Spec => TypedAsHeld
  <1> DEFINE Typing ==
        ~shared =>
          /\ typed' = << "upper" >> => ShiftSources \cap held # {} \/ caps_lock
          /\ typed' = << "lower" >> => ShiftSources \cap held = {} /\ ~caps_lock
          /\ typed' # << >> => AltSources \cap held = {}
  <1>1. IInv /\ [Next]_vars => [Typing]_vars
    <2> SUFFICES ASSUME IInv, Next, ~shared
                 PROVE  Typing
      BY DEF vars
    <2>1. CASE typed' = << >>
      <3>1. << "upper" >> # << >> /\ << "lower" >> # << >>
        OBVIOUS
      <3> QED
        BY <2>1, <3>1
    <2>2. CASE typed' # << >>
      <3> DEFINE key == Head(codes).key
      <3>1. keyboard_handler
        BY <2>2 DEF Next, Press, Release, Event
      <3>2. Pressed(key)
        BY <2>2, <3>1 DEF keyboard_handler, Released
      <3>3. /\ key \notin Shifts \cup {Alt, Caps}
            /\ ~alt_pressed
            /\ typed' = IF key = Escape THEN << "ESC" >> ELSE Characters(key)
        BY <2>2, <3>2
           DEF Pressed, PressedModifier, PressedEscape, PressedAltG, PressedOther,
               Shifts, LeftShift, RightShift, Alt, Caps, Escape
      <3>4. Len(codes) \in Nat \ {0} /\ key = codes[1].key /\ ~codes[1].up
        BY <3>1, <2>2, HeadAndTail DEF IInv, CodesShape, keyboard_handler, Released
      <3>5. ~Waiting({Alt})
        <4>1. key # Prefix.key
          BY <2>2, <3>3, <3>4
             DEF Characters, Prefix, Escape, G, Letter, Star, Enter, Rubout, Tab
        <4> QED
          BY <3>3, <3>4, <4>1 DEF Waiting, IInv, CodesShape
      <3>6. AltSources \cap held = {}
        BY <3>3, <3>5 DEF IInv, FlagsSettle, FlagSettles, Settled
      <3>7. ASSUME typed' = << "upper" >> \/ typed' = << "lower" >>
            PROVE  key \in {G, Letter} /\ (typed' = << IF Upper THEN "upper" ELSE "lower" >>)
        BY <3>3, <3>7
           DEF Characters, Escape, G, Letter, Star, Enter, Rubout, Tab
      <3>8. ASSUME key \in {G, Letter}
            PROVE  shift_pressed <=> ShiftSources \cap held # {}
        <4>1. Len(codes) = 1
          BY <3>4, <3>8 DEF IInv, CodesShape
        <4>2. ~Waiting(Shifts)
          BY <3>3, <3>4, <4>1 DEF Waiting
        <4> QED
          BY <4>2 DEF IInv, FlagsSettle, FlagSettles, Settled
      <3>9. typed' = << "upper" >> => ShiftSources \cap held # {} \/ caps_lock
        BY <3>7, <3>8 DEF Upper
      <3>10. typed' = << "lower" >> => ShiftSources \cap held = {} /\ ~caps_lock
        BY <3>7, <3>8 DEF Upper
      <3> QED
        BY <3>6, <3>9, <3>10
    <2> QED
      BY <2>1, <2>2
  <1> QED
    BY <1>1, InvHolds, PTL DEF Spec, TypedAsHeld
=============================================================================
