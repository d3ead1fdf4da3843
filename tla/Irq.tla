-------------------------------- MODULE Irq ---------------------------------
(***************************************************************************)
(* Interrupt delivery: the gates and entry stubs of isr.asm,               *)
(* irq_common_stub of src/src/interrupt/idt.c, and the excursion to real   *)
(* mode that the keyboard handler makes (vesa_bios.asm), during which      *)
(* interrupts are on although the keyboard interrupt is still in service.  *)
(*                                                                         *)
(* External: what the BIOS does with an interrupt that reaches it at the   *)
(* vectors pic_remap chose: it acknowledges it or returns without doing so. *)
(***************************************************************************)
EXTENDS Kbc

CONSTANTS
    MaxDepth,       \* bound: nested handlers
    MaxLost,        \* bound: interrupts the BIOS does not acknowledge
    MaxSpurious     \* bound: requests withdrawn too early

ASSUME IrqAssumption ==
    /\ MaxDepth \in Nat \ {0}
    /\ {MaxLost, MaxSpurious} \subseteq Nat

VARIABLES
    if_flag,        \* the processor takes interrupts
    stack,          \* the handlers running, innermost first
    spurious,       \* requests withdrawn so far
    lost,           \* history: interrupts the BIOS did not acknowledge
    stolen,         \* history: the EOI of a spurious interrupt ended another
    deaf            \* history: the edge of a code not read yet is gone

irqVars == <<if_flag, stack, spurious, lost, stolen, deaf>>
bootVars == <<imr, pic, at, saved, gates, wanted>>

\* Where a handler is: in its body, in real mode, back with interrupts on,
\* about to send the end of interrupt, about to return.
Steps == {"body", "real", "draw", "eoi", "iret"}
NoLine == -1

Top == stack[1]
RunningAt(step) == stack # << >> /\ Top.step = step
Goto(step) == stack' = [stack EXCEPT ![1].step = step]
InRealMode == RunningAt("real")

-----------------------------------------------------------------------------
IrqInit ==
    /\ if_flag = FALSE
    /\ stack = << >>
    /\ spurious = 0
    /\ lost = 0
    /\ stolen = FALSE
    /\ deaf = FALSE

\* kernel_main: sti, once irq_install is done.
EnableInterrupts ==
    /\ Installed /\ stack = << >> /\ ~if_flag
    /\ if_flag' = TRUE
    /\ UNCHANGED <<picVars, kbcVars, stack, spurious, lost, stolen, deaf>>

\* A device other than the keyboard raises its line.  The timer's period is far
\* longer than its handler.
Request(l) ==
    /\ l \in Lines \ (irr \cup {Keyboard})
    /\ l = Timer => \A i \in 1 .. Len(stack) : stack[i].line # Timer
    /\ Raised(l)
    /\ UNCHANGED <<isr, bootVars, kbcVars, irqVars>>

\* The stub pushes the number of its vector and irq_common_stub subtracts 32.
\* The gate clears the interrupt flag; iretd will restore it.
StubNumber(vector) == IF vector \in gates THEN vector ELSE 13
Entered(l, vector) ==
    /\ Len(stack) < MaxDepth
    /\ stack' = <<[irq |-> StubNumber(vector) - 32, line |-> l, step |-> "body",
                   flag |-> if_flag]>> \o stack
    /\ if_flag' = FALSE

Deliver(l) ==
    /\ if_flag /\ ~InRealMode
    /\ Deliverable(l)
    /\ Entered(l, Vector(l))
    /\ irr' = irr \ {l}
    /\ isr' = InService(l)
    /\ UNCHANGED <<bootVars, kbcVars, spurious, lost, stolen, deaf>>

\* A request that is withdrawn between the interrupt and its acknowledgement,
\* as the timer's is when interrupts were off for half its period: the master
\* answers with line 7, which it does not put in service.  (A request of the
\* slave withdrawn as late, which it answers with line 15 and pic_send_eoi with
\* two EOIs, is not modelled.)
Spurious(l) ==
    /\ if_flag /\ ~InRealMode /\ spurious < MaxSpurious
    /\ l \in Master \ {Keyboard} /\ Deliverable(l)
    /\ Entered(NoLine, pic[1].base + 7)
    /\ irr' = irr \ {l}
    /\ spurious' = spurious + 1
    /\ UNCHANGED <<isr, bootVars, kbcVars, lost, stolen, deaf>>

\* In real mode the request goes to the BIOS, at a vector where it has no
\* handler for it: a scan code is not read.
DeliverToBios(l) ==
    /\ if_flag /\ InRealMode
    /\ Deliverable(l)
    /\ irr' = irr \ {l}
    /\ deaf' = (deaf \/ l = Keyboard)
    /\ \/ UNCHANGED <<isr, lost>>
       \/ lost < MaxLost /\ lost' = lost + 1 /\ isr' = InService(l)
    /\ UNCHANGED <<bootVars, kbcVars, if_flag, stack, spurious, stolen>>

\* The switch of irq_common_stub: the keyboard's case reads the scan code, and
\* its handler may switch modes.
ReadScanCode ==
    /\ obuf' = IF Top.irq = Keyboard THEN "none" ELSE obuf
    /\ UNCHANGED <<ibuf, keyboard_off, port_next, gate, reset, early>>

Body ==
    /\ RunningAt("body")
    /\ ReadScanCode
    /\ Goto("eoi")
    /\ UNCHANGED <<picVars, if_flag, spurious, lost, stolen, deaf>>

EnterRealMode ==
    /\ RunningAt("body") /\ Top.irq = Keyboard
    /\ ReadScanCode
    /\ if_flag' = TRUE
    /\ Goto("real")
    /\ UNCHANGED <<picVars, spurious, lost, stolen, deaf>>

\* Back in protected mode the excursion ends with sti, not with the flag the
\* handler had.
LeaveRealMode ==
    /\ RunningAt("real")
    /\ if_flag' = TRUE
    /\ Goto("draw")
    /\ UNCHANGED <<picVars, kbcVars, spurious, lost, stolen, deaf>>

Draw ==
    /\ RunningAt("draw")
    /\ Goto("eoi")
    /\ UNCHANGED <<picVars, kbcVars, if_flag, spurious, lost, stolen, deaf>>

\* Nothing asks the controllers whether line 7 is in service.
SendEoi ==
    /\ RunningAt("eoi")
    /\ isr' = pic_send_eoi(Top.irq)
    /\ stolen' = (stolen \/ (Top.line = NoLine /\ isr' # isr))
    /\ Goto("iret")
    /\ UNCHANGED <<irr, bootVars, kbcVars, if_flag, spurious, lost, deaf>>

Iret ==
    /\ RunningAt("iret")
    /\ if_flag' = Top.flag
    /\ stack' = Tail(stack)
    /\ UNCHANGED <<picVars, kbcVars, spurious, lost, stolen, deaf>>

HandlerStep == Body \/ EnterRealMode \/ LeaveRealMode \/ Draw \/ SendEoi \/ Iret

\* irq_set_mask and irq_clear_mask are there for the rest of the kernel, which
\* would call them from its main flow; so far nothing does.
MaskLine(l) ==
    /\ Installed /\ if_flag /\ stack = << >>
    /\ \/ imr' = irq_set_mask(l) /\ wanted' = wanted \cup {l}
       \/ imr' = irq_clear_mask(l) /\ wanted' = wanted \ {l}
    /\ UNCHANGED <<irr, isr, pic, at, saved, gates, kbcVars, irqVars>>
=============================================================================
