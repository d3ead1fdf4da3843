-------------------------------- MODULE Pic ---------------------------------
(***************************************************************************)
(* The two cascaded 8259 controllers, port access by port access, and the  *)
(* code of src/src/interrupt/idt.c that programs them: irq_install with    *)
(* pic_remap, irq_set_mask, irq_clear_mask and pic_send_eoi.               *)
(*                                                                         *)
(* The controllers are external.  ICW1 starts an initialisation: it clears *)
(* the mask, what is in service and, because the edge detection restarts,  *)
(* what is pending; the next three data bytes are ICW2 to ICW4.            *)
(***************************************************************************)
EXTENDS Integers, Sequences, FiniteSets, FiniteSetsExt

CONSTANTS
    Lines,          \* the lines devices raise: 0 timer, 1 keyboard, ...
    BiosMasks       \* sets of lines the BIOS may leave masked

Timer == 0
Keyboard == 1
Cascade == 2
Master == 0 .. 7
Slave == 8 .. 15
LinesOf(chip) == IF chip = 1 THEN Master ELSE Slave
ChipOf(l) == IF l \in Slave THEN 2 ELSE 1

ASSUME PicAssumption ==
    /\ Lines \subseteq (Master \cup Slave) \ {Cascade}
    /\ {Timer, Keyboard} \subseteq Lines
    /\ BiosMasks \subseteq SUBSET (Master \cup Slave)

VARIABLES
    irr,            \* lines with a request pending
    isr,            \* lines in service
    imr,            \* lines masked
    pic,            \* the initialisation registers of each controller
    at,             \* the step of irq_install that is next
    saved,          \* mask1 and mask2 of pic_remap
    gates,          \* the vectors that have a gate
    wanted          \* history: the lines that are to be masked

picVars == <<irr, isr, imr, pic, at, saved, gates, wanted>>

\* As the BIOS leaves them; idt_install has set the gates of the exceptions.
Registers(base, cascade) == [icw |-> 0, base |-> base, cascade |-> cascade, mode |-> 1]
PicInit ==
    /\ irr = {}
    /\ isr = {}
    /\ imr \in BiosMasks
    /\ pic = <<Registers(8, 4), Registers(112, 2)>>
    /\ at = 0
    /\ saved = {}
    /\ gates = 0 .. 31
    /\ wanted = imr

Raised(l) == irr' = irr \cup {l}

Icw1(chip) ==
    /\ pic' = [pic EXCEPT ![chip].icw = 2]
    /\ irr' = irr \ LinesOf(chip)
    /\ isr' = isr \ LinesOf(chip)
    /\ imr' = imr \ LinesOf(chip)

\* A data byte: the initialisation word that is due, or else the mask, which is
\* the set of lines the caller means.
RegisterOf == <<"icw", "base", "cascade", "mode">>
OutData(chip, value) ==
    LET icw == pic[chip].icw
    IN  /\ IF icw = 0
           THEN /\ imr' = (imr \ LinesOf(chip)) \cup (value \cap LinesOf(chip))
                /\ UNCHANGED pic
           ELSE /\ pic' = [pic EXCEPT ![chip][RegisterOf[icw]] = value,
                                      ![chip].icw = IF icw = 4 THEN 0 ELSE icw + 1]
                /\ UNCHANGED imr
        /\ UNCHANGED <<irr, isr>>

-----------------------------------------------------------------------------
\* value = inb(port) & ~(1 << irq_line), and | for irq_set_mask, on the port of
\* the line's controller.
irq_clear_mask_Absolute(l) == imr \ {l % 8}                        \* mutant
irq_clear_mask(l) == imr \ {l}
irq_set_mask(l) == imr \cup {l}

\* The writes of pic_remap after it has read the masks; ICW1 is 0x11.
Command(chip) == [chip |-> chip, icw1 |-> TRUE]
Data(chip, value) == [chip |-> chip, icw1 |-> FALSE, value |-> value]
pic_remap == << Command(1), Command(2),
                Data(1, 32), Data(2, 40), Data(1, 4), Data(2, 2),
                Data(1, 1), Data(2, 1),
                Data(1, saved), Data(2, saved) >>

Remapping(k) == k \in 1 .. Len(pic_remap)
Remap ==
    /\ Remapping(at)
    /\ LET out == pic_remap[at]
       IN  IF out.icw1 THEN Icw1(out.chip) ELSE OutData(out.chip, out.value)
    /\ UNCHANGED <<saved, gates, wanted>>

\* irq_install; it runs with interrupts off.
ReadMasks ==
    /\ at = 0
    /\ saved' = imr
    /\ UNCHANGED <<irr, isr, imr, pic, gates, wanted>>

IrqGates_MasterOnly == 32 .. 39                                     \* mutant
IrqGates == 32 .. 47
SetGates ==
    /\ at = Len(pic_remap) + 1
    /\ gates' = gates \cup IrqGates
    /\ UNCHANGED <<irr, isr, imr, pic, saved, wanted>>

Enabled == <<Timer, Keyboard>>
EnableLine ==
    /\ at - Len(pic_remap) - 1 \in DOMAIN Enabled
    /\ LET l == Enabled[at - Len(pic_remap) - 1]
       IN  imr' = irq_clear_mask(l) /\ wanted' = wanted \ {l}
    /\ UNCHANGED <<irr, isr, pic, saved, gates>>

InstallStep == at' = at + 1 /\ (ReadMasks \/ Remap \/ SetGates \/ EnableLine)
Installed == at = Len(pic_remap) + 2 + Len(Enabled)

-----------------------------------------------------------------------------
\* Fully nested priority: the slave's lines rank where the cascade does.  They
\* reach the master over its line 2 when both were told so.
Rank(l) == IF l \in Slave THEN 8 * Cascade + l - 8 ELSE 8 * l
Unmasked(l) ==
    /\ l \notin imr
    /\ l \in Slave => Cascade \notin imr /\ pic[1].cascade = 4 /\ pic[2].cascade = 2

Deliverable(l) ==
    /\ l \in irr /\ Unmasked(l)
    /\ \A k \in isr : Rank(l) < Rank(k)
    /\ \A k \in irr : Unmasked(k) => Rank(l) <= Rank(k)

Vector(l) == pic[ChipOf(l)].base + (l % 8)

\* A delivered request is in service until an end of interrupt is sent, unless
\* ICW4 asked for automatic EOI.
InService_AutoEoi(l) == isr                                         \* mutant
InService(l) ==
    IF pic[1].mode # 1 THEN isr
    ELSE isr \cup {l} \cup (IF l \in Slave THEN {Cascade} ELSE {})

Highest(lines) == IF lines = {} THEN {} ELSE {Min(lines)}

\* A non-specific EOI ends the highest line in service of each controller it
\* is sent to.
pic_send_eoi_SlaveLate(irq) ==                                      \* mutant
    isr \ ((IF irq > 8 THEN Highest(isr \cap Slave) ELSE {}) \cup Highest(isr \cap Master))
pic_send_eoi_NotForTimer(irq) ==                                    \* mutant
    IF irq = Timer THEN isr
    ELSE isr \ ((IF irq \in Slave THEN Highest(isr \cap Slave) ELSE {})
                    \cup Highest(isr \cap Master))
pic_send_eoi(irq) ==
    isr \ ((IF irq \in Slave THEN Highest(isr \cap Slave) ELSE {})
               \cup Highest(isr \cap Master))
=============================================================================
