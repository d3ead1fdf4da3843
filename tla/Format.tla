------------------------------- MODULE Format -------------------------------
(***************************************************************************)
(* kprintf of src/src/lib/kprintf.c: how it reads a format and takes its   *)
(* arguments, and how numbers become digits.  One step per character or    *)
(* directive; a piece of literal text counts as one character.  Where the  *)
(* characters go on the screen is Console's.                               *)
(***************************************************************************)
EXTENDS Integers, Sequences, FiniteSetsExt, SequencesExt

CONSTANTS
    Word,           \* unsigned ints are 0 .. Word - 1 (2^32)
    BufferSize,     \* digits the buffer has room for (32)
    MostDigits,     \* digits of the largest (10)
    NULL

Power(b, k) == LET power[i \in 0 .. k] == IF i = 0 THEN 1 ELSE b * power[i - 1] IN power[k]

ASSUME FormatAssumption ==
    /\ Word \in Nat \ {0} /\ Word % 2 = 0
    /\ MostDigits \in Nat /\ Word <= Power(10, MostDigits)
    /\ BufferSize \in Nat /\ BufferSize >= MostDigits

VARIABLES
    format,         \* what is left of the format
    args,           \* the arguments not taken yet
    out,            \* what has been printed
    past            \* "format" or "buffer" once the call has run past its end

formatVars == <<format, args, out, past>>

LowerDigits == <<"0", "1", "2", "3", "4", "5", "6", "7", "8", "9", "a", "b", "c", "d", "e", "f">>
UpperDigits == <<"0", "1", "2", "3", "4", "5", "6", "7", "8", "9", "A", "B", "C", "D", "E", "F">>
Digit(d, uppercase) == (IF uppercase THEN UpperDigits ELSE LowerDigits)[d + 1]
IsDigit(c) == c \in {LowerDigits[i] : i \in 1 .. 10}
DigitValue(c) == (CHOOSE i \in 1 .. 10 : LowerDigits[i] = c) - 1

\* Repeated division; the buffer is printed from its end.
DigitsOf(num, base, uppercase) ==
    LET digits[n \in 0 .. Word - 1] ==
            IF n = 0 THEN << >> ELSE Append(digits[n \div base], Digit(n % base, uppercase))
    IN  digits[num]

kprint_unsigned_padded(num, base, uppercase, padding) ==
    LET digits == IF num = 0 THEN << "0" >> ELSE DigitsOf(num, base, uppercase)
    IN  [i \in 1 .. padding - Len(digits) |-> "0"] \o digits
kprint_unsigned(num, base, uppercase) == kprint_unsigned_padded(num, base, uppercase, 0)

\* num = -num wraps for the least int, and the cast to unsigned undoes that.
kprint_number_padded_Late(num, padding) ==                          \* mutant
    IF num < 0 THEN << "-" >> \o kprint_unsigned_padded((-num) % Word, 10, FALSE, padding)
    ELSE kprint_unsigned_padded(num, 10, FALSE, padding)
kprint_number_padded(num, padding) ==
    IF num < 0 THEN << "-" >> \o kprint_unsigned_padded((-num) % Word, 10, FALSE, padding - 1)
    ELSE kprint_unsigned_padded(num, 10, FALSE, padding)
kprint_number(num) == kprint_number_padded(num, 0)

-----------------------------------------------------------------------------
\* A step prints text, having taken `taken` arguments and `read` characters.
Prints(text, taken, read) ==
    /\ out' = out \o text
    /\ args' = SubSeq(args, taken + 1, Len(args))
    /\ format' = SubSeq(format, read + 1, Len(format))

Literal ==
    /\ format # << >> /\ Head(format) # "%"
    /\ Prints(<< Head(format) >>, 0, 1)
    /\ UNCHANGED past

Directive(c) == Len(format) >= 2 /\ format[1] = "%" /\ format[2] = c

Conversions == {"d", "u", "x", "X", "p", "c", "s", "%", "0"}
Null == << "(", "n", "u", "l", "l", ")" >>
Convert ==
    /\ \/ Directive("d") /\ Prints(kprint_number(args[1]), 1, 2)
       \/ Directive("u") /\ Prints(kprint_unsigned(args[1], 10, FALSE), 1, 2)
       \/ Directive("x") /\ Prints(kprint_unsigned(args[1], 16, FALSE), 1, 2)
       \/ Directive("X") /\ Prints(kprint_unsigned(args[1], 16, TRUE), 1, 2)
       \/ Directive("p") /\ Prints(<< "0", "x" >> \o kprint_unsigned(args[1], 16, FALSE), 1, 2)
       \/ Directive("c") /\ Prints(<< args[1] >>, 1, 2)
       \/ Directive("s") /\ Prints(IF args[1] = NULL THEN Null ELSE args[1], 1, 2)
       \/ Directive("%") /\ Prints(<< "%" >>, 0, 2)
    /\ UNCHANGED past

\* The width of %0: the character after its digits is format[WidthEnd].
WidthEnd == CHOOSE k \in 3 .. Len(format) + 1 :
                /\ \A i \in 3 .. k - 1 : IsDigit(format[i])
                /\ k <= Len(format) => ~IsDigit(format[k])
Width ==
    LET padding[k \in 2 .. WidthEnd - 1] ==
            IF k = 2 THEN 0 ELSE padding[k - 1] * 10 + DigitValue(format[k])
    IN  padding[WidthEnd - 1]

\* The digits of a number are gathered in the buffer, once its sign is printed.
\* Those that have no room there overwrite the locals behind it and the frame:
\* what is printed next, and whether the call returns, nobody knows.
PrintsPadded(text, sign) ==
    IF Len(text) - sign <= BufferSize
    THEN Prints(text, 1, WidthEnd) /\ UNCHANGED past
    ELSE /\ out' = out \o (IF sign = 1 THEN << "-" >> ELSE << >>)
         /\ past' = {"buffer"}
         /\ UNCHANGED <<format, args>>

\* %0 without a letter kprintf knows after the width prints nothing and takes
\* no argument; the terminator is such a letter, and is stepped over: the loop
\* goes on with what lies behind the format, whatever that is.
ZeroPadded ==
    /\ Directive("0")
    /\ LET c == IF WidthEnd > Len(format) THEN "NUL" ELSE format[WidthEnd]
       IN  \/ /\ c \in {"x", "X"}
              /\ PrintsPadded(kprint_unsigned_padded(args[1], 16, c = "X", Width), 0)
           \/ /\ c = "d"
              /\ PrintsPadded(kprint_number_padded(args[1], Width), IF args[1] < 0 THEN 1 ELSE 0)
           \/ /\ c \notin {"x", "X", "d"}
              /\ Prints(<< >>, 0, WidthEnd)
              /\ past' = IF c = "NUL" THEN {"format"} ELSE past

\* Any other letter is printed with its percent sign, the terminator too.
Unknown ==
    /\ format # << >> /\ Head(format) = "%"
    /\ IF Len(format) = 1
       THEN Prints(<< "%", "NUL" >>, 0, 1) /\ past' = {"format"}
       ELSE /\ format[2] \notin Conversions
            /\ Prints(<< "%", format[2] >>, 0, 2)
            /\ UNCHANGED past

\* A call that has run past something is not followed any further.
kprintf_step ==
    /\ past = {}
    /\ Literal \/ Convert \/ ZeroPadded \/ Unknown

-----------------------------------------------------------------------------
\* What a number should look like: the digit at each place, as many places as
\* it takes and at least as many as the width.
Numeral(n, base, uppercase, width) ==
    LET enough == Min({k \in 1 .. MostDigits : n < Power(base, k)})
        places == IF width > enough THEN width ELSE enough
    IN  [i \in 1 .. places |->
            IF places - i >= enough THEN "0"
            ELSE Digit((n \div Power(base, places - i)) % base, uppercase)]
SignedNumeral(n, width) ==
    IF n < 0 THEN << "-" >> \o Numeral(-n, 10, FALSE, width - 1) ELSE Numeral(n, 10, FALSE, width)

\* A directive with its argument, and what it should show.
Token(directive, taken, text) == [format |-> directive, args |-> taken, shows |-> text]
WidthDigits(width) == kprint_unsigned(width, 10, FALSE)
SignedTokens(n) ==
    {Token(<< "%", "d" >>, << n >>, SignedNumeral(n, 0))}
PaddedSignedTokens(n, width) ==
    {Token(<< "%", "0" >> \o WidthDigits(width) \o << "d" >>, << n >>, SignedNumeral(n, width))}
UnsignedTokens(n) ==
    {Token(<< "%", "u" >>, << n >>, Numeral(n, 10, FALSE, 0)),
     Token(<< "%", "x" >>, << n >>, Numeral(n, 16, FALSE, 0)),
     Token(<< "%", "X" >>, << n >>, Numeral(n, 16, TRUE, 0)),
     Token(<< "%", "p" >>, << n >>, << "0", "x" >> \o Numeral(n, 16, FALSE, 0))}
PaddedTokens(n, width) ==
    {Token(<< "%", "0" >> \o WidthDigits(width) \o << "x" >>, << n >>, Numeral(n, 16, FALSE, width)),
     Token(<< "%", "0" >> \o WidthDigits(width) \o << "X" >>, << n >>, Numeral(n, 16, TRUE, width))}
OtherTokens ==
    {Token(<< "text" >>, << >>, << "text" >>),
     Token(<< "%", "%" >>, << >>, << "%" >>),
     Token(<< "%", "c" >>, << "c" >>, << "c" >>),
     Token(<< "%", "s" >>, << << "a", "%", "d" >> >>, << "a", "%", "d" >>),
     Token(<< "%", "s" >>, << NULL >>, Null)}

\* What kprintf does not know is shown as it is, or not at all (timing.c:30 and
\* pmm.c:406 have these two), and takes no argument, so it comes last.
UnknownTokens ==
    {Token(<< "%", "l", "l", "u" >>, << >>, << "%", "l", "l", "u" >>),
     Token(<< "%", "0", "4", "u" >>, << >>, << >>)}
\* A format that ends within a directive is read past its terminator, and shows
\* this much before.
UnendedTokens ==
    {Token(<< "%" >>, << >>, << "%", "NUL" >>), Token(<< "%", "0", "4" >>, << >>, << >>)}

\* Directives that run past the end of the format or of the buffer, and what is
\* printed of them until then.
Negative(t) == t.shows[1] = "-"
TooWide(t) ==
    /\ Len(t.format) > 2 /\ t.shows # << >> /\ t.format[2] = "0"
    /\ Len(t.shows) > BufferSize + (IF Negative(t) THEN 1 ELSE 0)
RunsPast(t) == t \in UnendedTokens \/ TooWide(t)
ShownBefore(t) ==
    IF t \in UnendedTokens THEN t.shows ELSE IF Negative(t) THEN << "-" >> ELSE << >>
=============================================================================
