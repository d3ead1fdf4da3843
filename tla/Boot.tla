-------------------------------- MODULE Boot --------------------------------
(***************************************************************************)
(* kernel_main from enable_a20_gate to the idle loop, with the controllers *)
(* it programs and the keyboard: A20 and irq_install run one after the     *)
(* other with interrupts off, and what they leave in the output buffer of   *)
(* the keyboard controller and in the interrupt controllers is what the    *)
(* handlers of Irq then work with.                                         *)
(***************************************************************************)
EXTENDS A20, Irq

CONSTANT MaskLines      \* lines the running kernel masks and unmasks

ASSUME BootAssumption == MaskLines \subseteq Lines \ {Timer, Keyboard}

vars == <<picVars, kbcVars, a20Vars, irqVars>>

Init == PicInit /\ KbcInit /\ A20Init /\ IrqInit

EnableA20 == A20Step /\ UNCHANGED irqVars

\* A code waiting in the output buffer keeps line 1 high: once ICW1 has
\* cleared the request there is no further edge.
Install ==
    /\ step = "done" /\ ~reset
    /\ InstallStep
    /\ deaf' = (deaf \/ (Remapping(at) /\ pic_remap[at] = Command(1) /\ obuf # "none"))
    /\ UNCHANGED <<kbcVars, a20Vars, if_flag, stack, spurious, lost, stolen>>

StartInterrupts == EnableInterrupts /\ UNCHANGED a20Vars
MainStep == EnableA20 \/ Install \/ StartInterrupts

KeyboardController == TakeByte /\ UNCHANGED <<isr, bootVars, a20Vars, irqVars>>
Key == KeyPressed /\ UNCHANGED <<isr, bootVars, a20Vars, irqVars>>

Interrupt(l) == (Request(l) \/ Deliver(l) \/ Spurious(l) \/ DeliverToBios(l)) /\ UNCHANGED a20Vars
Handler == HandlerStep /\ UNCHANGED a20Vars
Masking == (\E l \in MaskLines : MaskLine(l)) /\ UNCHANGED a20Vars

\* A busy wait that goes round; and after a reset the machine starts again,
\* which is another behaviour.
Waiting == (Spinning \/ reset) /\ UNCHANGED vars

Next ==
    \/ MainStep
    \/ KeyboardController
    \/ Key
    \/ \E l \in Lines : Interrupt(l)
    \/ Handler
    \/ Masking
    \/ Waiting

\* The processor and the keyboard controller go on; a handler that is
\* interrupted again and again still advances, because requests are rare next
\* to instructions, and a line that can be served again and again is served at
\* some instruction boundary.
Fairness ==
    /\ WF_vars(MainStep)
    /\ WF_vars(KeyboardController)
    /\ \A d \in 1 .. MaxDepth : SF_vars(Len(stack) = d /\ Handler)
    /\ \A l \in Lines : SF_vars(Deliver(l) /\ UNCHANGED a20Vars)

Spec == Init /\ [][Next]_vars /\ Fairness

-----------------------------------------------------------------------------
TypeOK ==
    /\ irr \subseteq Lines
    /\ isr \subseteq Lines \cup {Cascade}
    /\ at \in 0 .. Len(pic_remap) + 2 + Len(Enabled)
    /\ \A c \in 1 .. 2 : pic[c].icw \in {0, 2, 3, 4} /\ {pic[c].base, pic[c].cascade, pic[c].mode} \subseteq 0 .. 255
    /\ obuf \in {"none", "scan", "port"}
    /\ ibuf \in {"none"} \cup Commands \cup DataBytes
    /\ Len(stack) <= MaxDepth
    /\ \A i \in 1 .. Len(stack) : stack[i].irq \in 0 .. 15 /\ stack[i].step \in Steps

\* enable_a20_gate reports success exactly when the gate is open.  Whatever the
\* gate, the word above 1 MB survives the test; the word at 0x012345 does
\* exactly when the gate stayed closed: the alias is never restored.
A20Outcome ==
    [][step # "done" /\ step' = "done" =>
          /\ Report # "failed" <=> gate
          /\ word'.high = "kept"
          /\ word'.low = "kept" <=> ~gate]_vars

\* A key pressed during the boot can be read in place of the output port, or
\* its interrupt be forgotten by ICW1.  Without one, the machine is not reset
\* and the first key after the boot is not the last one either.
QuietBootIsSafe == ~early /\ ~stolen => ~reset /\ ~deaf

\* No busy wait of the boot is waited for ever, whatever the keyboard does and
\* whichever commands overtook each other, unless the machine is reset.
BootCompletes == <>(if_flag \/ reset)

\* From irq_install on the masks are the BIOS's with the lines the kernel
\* enabled and masked since, on both controllers, and an interrupt is handled
\* as the line it came from.
PicAsAsked ==
    /\ Installed => imr = wanted
    /\ \A i \in 1 .. Len(stack) : stack[i].line # NoLine => stack[i].irq = stack[i].line

\* The handlers that have not sent their EOI, spurious ones apart.
Unfinished == {i \in 1 .. Len(stack) : stack[i].step # "iret" /\ stack[i].line # NoLine}

\* The controllers hold in service exactly the interrupts whose handlers have
\* not sent their EOI, nested handlers and mode switches included.  Every
\* interrupt the BIOS does not acknowledge keeps one more line of the master in
\* service, for ever: no EOI makes up for it or ends one too many, until one of
\* a spurious interrupt has.
EoisBalance ==
    ~stolen /\ Installed =>
        /\ Cardinality(isr \cap Master) = lost + Cardinality(Unfinished)
        /\ lost = 0 => isr \ {Cascade} = {stack[i].line : i \in Unfinished}

\* A mode switch saves the processor state in globals (saved_esp, saved_cr0):
\* it is never entered again before the handler that made it has finished,
\* unless a spurious interrupt has ended the keyboard's service in between.
SwitchNotReentered ==
    ~stolen => Cardinality({i \in 1 .. Len(stack) : stack[i].step \in {"real", "draw"}}) <= 1

\* Every code the keyboard sends is eventually read by the handler, unless its
\* edge is gone, the BIOS has lost an interrupt or a spurious one took an EOI.
KeyServed ==
    obuf # "none" /\ Installed ~> obuf = "none" \/ deaf \/ lost > 0 \/ stolen
=============================================================================
