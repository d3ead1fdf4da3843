-------------------------------- MODULE Panic -------------------------------
(***************************************************************************)
(* An exception and the report of it: what the processor and the stubs of  *)
(* src/src/interrupt/isr.asm push, the frame that isr_common_stub,         *)
(* kernel_panic and show_register_dump of src/src/interrupt/idt.c read,    *)
(* and the text they print with kprintf.  A non-maskable interrupt can     *)
(* come at any point of it and starts a report of its own.  Main prints    *)
(* with kprintf until an exception ends that.                              *)
(*                                                                         *)
(* Words are numbers below Word.  The text of a message is one symbol.     *)
(***************************************************************************)
EXTENDS Format

CONSTANTS
    HexDigits,      \* digits print_hex prints (8)
    Signed, Unsigned, Widths,   \* numbers and widths in main's calls
    Calls,          \* the calls main makes: sequences of tokens
    Vectors,        \* the exceptions that happen
    Contexts,       \* registers, words above them, CR2 and error codes
    MaxNmis         \* bound: non-maskable interrupts during a report

\* Exceptions the processor raises in ring 0, and those of them for which it
\* pushes an error code; alignment checks are for ring 3.
Nmi == 2
Raisable == (0 .. 19) \ {9, 15, 17}
PushesError == {8} \cup 10 .. 14

\* The directives of main's calls.
Tokens ==
    (UNION {SignedTokens(n) : n \in Signed})
    \cup (UNION {PaddedSignedTokens(n, w) : n \in Signed, w \in Widths})
    \cup (UNION {UnsignedTokens(n) : n \in Unsigned})
    \cup (UNION {PaddedTokens(n, w) : n \in Unsigned, w \in Widths})
    \cup OtherTokens
LastTokens == UnknownTokens \cup UnendedTokens

Words == 0 .. Word - 1
Context ==
    [eax : Words, ebx : Words, ecx : Words, edx : Words, ebp : Words, esi : Words, edi : Words,
     eip : Words, cs : Words, eflags : Words, above : Words \X Words, cr2 : Words, error : Words]

ASSUME PanicAssumption ==
    /\ HexDigits \in Nat /\ HexDigits >= 2 /\ Power(16, HexDigits) = Word
    /\ Signed \subseteq -(Word \div 2) .. (Word \div 2) - 1
    /\ Unsigned \subseteq Words
    /\ Widths \subseteq 0 .. (Word \div 2) - 1
    /\ NULL # << "a", "%", "d" >>
    /\ \A c \in Calls :
          /\ c \in Seq(Tokens \cup LastTokens)
          /\ \A i \in 1 .. Len(c) - 1 : c[i] \in Tokens
    /\ Vectors \subseteq Raisable
    /\ Contexts \subseteq Context
    /\ MaxNmis \in Nat

VARIABLES
    stage,          \* "main", then "stub", "pushad", "report" and "halted"
    stack,          \* the words on the stack, the last one pushed first
    calls,          \* the kprintf calls of the report still to be made
    nmis,           \* non-maskable interrupts so far
    call,           \* history: the tokens of main's last call
    fault           \* history: the exception being reported, where it hit

panicVars == <<stage, stack, calls, nmis, call, fault>>
vars == <<formatVars, panicVars>>

Init ==
    /\ format = << >> /\ args = << >> /\ out = << >> /\ past = {}
    /\ stage = "main"
    /\ stack = << >> /\ calls = << >>
    /\ nmis = 0
    /\ call = << >>
    /\ fault = [vector |-> 0, context |-> NULL, above |-> << >>]

\* Main calls kprintf, which works through the format.
MainPrints ==
    /\ stage = "main" /\ format = << >> /\ past = {}
    /\ \E c \in Calls :
          /\ call' = c
          /\ format' = FlattenSeq([i \in 1 .. Len(c) |-> c[i].format])
          /\ args' = FlattenSeq([i \in 1 .. Len(c) |-> c[i].args])
    /\ out' = << >>
    /\ UNCHANGED <<past, stage, stack, calls, nmis, fault>>

FormatStep == kprintf_step /\ UNCHANGED panicVars

\* What the kernel does after a call has run past its format or its buffer is
\* not modelled.
Astray == past # {} /\ UNCHANGED vars

-----------------------------------------------------------------------------
\* Without a change of privilege the processor pushes EFLAGS, CS and EIP, and
\* the error code where there is one.  What was on the stack stays above.
Exception(v, context) ==
    LET above == IF stage \in {"stub", "pushad"} THEN SubSeq(stack, 1, 2) ELSE context.above
        pushed == <<context.eip, context.cs, context.eflags>>
    IN  /\ stack' = (IF v \in PushesError THEN << context.error >> ELSE << >>) \o pushed \o above
        /\ fault' = [vector |-> v, context |-> context, above |-> above]
        /\ stage' = "stub"
        /\ format' = << >> /\ args' = << >> /\ calls' = << >>
        /\ call' = << >>
        /\ UNCHANGED <<out, past>>

Fault ==
    /\ stage = "main" /\ past = {}
    /\ \E v \in Vectors, context \in Contexts : Exception(v, context)
    /\ UNCHANGED nmis

NonMaskable ==
    /\ stage # "main" /\ nmis < MaxNmis
    /\ \E context \in Contexts : Exception(Nmi, context)
    /\ nmis' = nmis + 1

\* ISR_ERR and ISR_NOERR: a dummy error code unless the processor pushed one.
DummyPushed == (0 .. 31) \ PushesError
Stub ==
    /\ stage = "stub"
    /\ stack' = << fault.vector >> \o
                (IF fault.vector \in DummyPushed THEN << 0 >> ELSE << >>) \o stack
    /\ stage' = "pushad"
    /\ UNCHANGED <<formatVars, calls, nmis, call, fault>>

\* pushad pushes EAX first; where ESP was is a word nothing reads.
Pushad == LET c == fault.context
          IN  << c.edi, c.esi, c.ebp, 0, c.ebx, c.edx, c.ecx, c.eax >>

\* struct interrupt_frame, over the words of the stack.
FrameFields_NoError ==                                              \* mutant
    << "edi", "esi", "ebp", "esp_dummy", "ebx", "edx", "ecx", "eax",
       "interrupt_number", "eip", "cs", "eflags", "esp", "ss", "error_code" >>
FrameFields ==
    << "edi", "esi", "ebp", "esp_dummy", "ebx", "edx", "ecx", "eax",
       "interrupt_number", "error_code", "eip", "cs", "eflags", "esp", "ss" >>
Frame(words) == [f \in ToSet(FrameFields) |-> words[CHOOSE i \in 1 .. 15 : FrameFields[i] = f]]

-----------------------------------------------------------------------------
\* The calls of a report.
Say(text) == << [format |-> << text >>, args |-> << >>] >>
SayNumber(text, n) == << [format |-> << text, "%", "x", "\n" >>, args |-> << n >>] >>

\* print_hex: the digits are masked off from the last one on.
print_hex(n) ==
    LET value[i \in 0 .. HexDigits] == IF i = 0 THEN n ELSE value[i - 1] \div 16
        buffer == [i \in 1 .. HexDigits |-> Digit(value[HexDigits - i] % 16, TRUE)]
    IN  Say("0x") \o << [format |-> buffer, args |-> << >>] >>
LabelledHex(label, n) == Say(label) \o print_hex(n)

\* The message of isr_common_stub's switch, and the details of a page fault.
Messages ==
    << "Division by Zero!", "Debug!", "Non-Maskable Interrupt!", "Breakpoint!",
       "Overflow!", "Bound Range Exceeded!", "Invalid Opcode!",
       "Device Not Available!", "Double Fault!", "Unknown interrupt!",
       "Invalid TSS!", "Segment Not Present!", "Stack Segment Fault!",
       "General Protection Fault!", "Page Fault!", "Unknown interrupt!",
       "Floating Point Exception!", "Alignment Check!", "Machine Check!",
       "SIMD Floating Point Exception!" >>
Message(n) == IF n \in 0 .. 19 THEN Messages[n + 1] ELSE "Unknown interrupt!"
Bit(n, k) == (n \div 2 ^ k) % 2 = 1
Either(b, yes, no) == Say(IF b THEN yes ELSE no)
PageFaultDetails(error, cr2) ==
    SayNumber("Faulting address: 0x", cr2) \o SayNumber("Error code: 0x", error)
    \o Either(Bit(error, 0), "Page was present ", "Page not present ")
    \o Either(Bit(error, 1), "Write access ", "Read access ")
    \o Either(Bit(error, 2), "User mode ", "Kernel mode ")
    \o (IF Bit(error, 3) THEN Say("Reserved bit violation ") ELSE << >>)
    \o (IF Bit(error, 4) THEN Say("Instruction fetch ") ELSE << >>)

ShowsError(n) == n = 8 \/ n \in 10 .. 14
show_register_dump(f) ==
    LabelledHex("EAX=", f.eax) \o LabelledHex("EBX=", f.ebx)
    \o LabelledHex("ECX=", f.ecx) \o LabelledHex("EDX=", f.edx)
    \o LabelledHex("ESP=", f.esp) \o LabelledHex("EBP=", f.ebp)
    \o LabelledHex("ESI=", f.esi) \o LabelledHex("EDI=", f.edi)
    \o LabelledHex("EIP=", f.eip) \o LabelledHex("CS=", f.cs)
    \o LabelledHex("EFLAGS=", f.eflags) \o LabelledHex("SS=", f.ss)

kernel_panic(f) ==
    Say("=== KERNEL PANIC ===") \o Say("Exception Number: ")
    \o << [format |-> kprint_unsigned(f.interrupt_number, 10, FALSE), args |-> << >>] >>
    \o LabelledHex("Fault Address (EIP): ", f.eip)
    \o (IF ShowsError(f.interrupt_number) THEN LabelledHex("Error Code: ", f.error_code) ELSE << >>)
    \o show_register_dump(f) \o Say("System halted.")

\* kclear_screen comes first; the report goes on until the processor halts.
isr_common_stub ==
    /\ stage = "pushad"
    /\ stack' = Pushad \o stack
    /\ LET f == Frame(stack')
           n == f.interrupt_number
       IN  calls' = Say(Message(n))
                    \o (IF n = 14 THEN PageFaultDetails(f.error_code, fault.context.cr2) ELSE << >>)
                    \o kernel_panic(f)
    /\ out' = << >>
    /\ stage' = "report"
    /\ UNCHANGED <<format, args, past, nmis, call, fault>>

NextCall ==
    /\ stage = "report" /\ format = << >> /\ calls # << >>
    /\ format' = Head(calls).format
    /\ args' = Head(calls).args
    /\ calls' = Tail(calls)
    /\ UNCHANGED <<out, past, stage, stack, nmis, call, fault>>

Halt ==
    /\ stage = "report" /\ format = << >> /\ calls = << >>
    /\ stage' = "halted"
    /\ UNCHANGED <<formatVars, stack, calls, nmis, call, fault>>

Halted == stage = "halted" /\ UNCHANGED vars

Next ==
    \/ MainPrints
    \/ FormatStep
    \/ Astray
    \/ Fault
    \/ NonMaskable
    \/ Stub
    \/ isr_common_stub
    \/ NextCall
    \/ Halt
    \/ Halted

Spec == Init /\ [][Next]_vars

-----------------------------------------------------------------------------
\* What the first k directives of the call should show.
ShowsUpTo(k) == FlattenSeq([i \in 1 .. k |-> call[i].shows])

\* A call of kprintf that ends has printed what its directives and arguments
\* mean, each directive with its own argument and width, and none of them runs
\* past the format or the buffer of digits.  A call that does run past one of
\* the two does so at the first directive that ends in the terminator or has a
\* width for which the buffer is too small, after exactly what comes before.
PrintedExact ==
    stage = "main" =>
        /\ past = {} /\ format = << >> =>
              /\ out = ShowsUpTo(Len(call))
              /\ args = << >>
              /\ \A i \in 1 .. Len(call) : ~RunsPast(call[i])
        /\ past # {} =>
              \E k \in 1 .. Len(call) :
                 /\ RunsPast(call[k]) /\ \A i \in 1 .. k - 1 : ~RunsPast(call[i])
                 /\ past = {IF call[k] \in UnendedTokens THEN "format" ELSE "buffer"}
                 /\ out = ShowsUpTo(k - 1) \o ShownBefore(call[k])

Shown(label, text) ==
    \E i \in 1 .. Len(out) : out[i] = label /\ SubSeq(out, i + 1, i + Len(text)) = text
Hex(n) == << "0x" >> \o Numeral(n, 16, TRUE, HexDigits)

\* When the machine halts, what has been printed since the screen was cleared is
\* one report: of the exception that happened last, with the registers, error
\* code and address it happened with, whichever point of an earlier report it
\* interrupted.  What it shows as ESP
\* and SS are the two words that were on the stack before.
ReportExact ==
    stage = "halted" =>
        LET c == fault.context
        IN  /\ Cardinality({i \in 1 .. Len(out) : out[i] = "=== KERNEL PANIC ==="}) = 1
            /\ Message(fault.vector) \in ToSet(out)
            /\ Shown("Exception Number: ", Numeral(fault.vector, 10, FALSE, 0))
            /\ Shown("Fault Address (EIP): ", Hex(c.eip)) /\ Shown("EIP=", Hex(c.eip))
            /\ Shown("EAX=", Hex(c.eax)) /\ Shown("EBX=", Hex(c.ebx))
            /\ Shown("ECX=", Hex(c.ecx)) /\ Shown("EDX=", Hex(c.edx))
            /\ Shown("EBP=", Hex(c.ebp)) /\ Shown("ESI=", Hex(c.esi)) /\ Shown("EDI=", Hex(c.edi))
            /\ Shown("CS=", Hex(c.cs)) /\ Shown("EFLAGS=", Hex(c.eflags))
            /\ Shown("ESP=", Hex(fault.above[1])) /\ Shown("SS=", Hex(fault.above[2]))
            /\ IF fault.vector \in PushesError THEN Shown("Error Code: ", Hex(c.error))
               ELSE "Error Code: " \notin ToSet(out)
            /\ fault.vector = 14 =>
                  /\ Shown("Faulting address: 0x", Numeral(c.cr2, 16, FALSE, 0))
                  /\ Shown("Error code: 0x", Numeral(c.error, 16, FALSE, 0))
                  /\ "Write access " \in ToSet(out) <=> Bit(c.error, 1)
=============================================================================
