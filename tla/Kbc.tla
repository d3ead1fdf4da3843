-------------------------------- MODULE Kbc ---------------------------------
(***************************************************************************)
(* The 8042 keyboard controller as the kernel uses it (external): one byte *)
(* of input, one of output, and the output port that drives the A20 gate   *)
(* and the reset line.  A byte the kernel writes replaces one that has not  *)
(* been taken yet; the answer to a command replaces a scan code that has   *)
(* not been read.  Whenever the output buffer fills, line 1 is raised.     *)
(***************************************************************************)
EXTENDS Pic

VARIABLES
    ibuf,           \* byte written and not yet taken
    obuf,           \* byte to be read at port 0x60
    keyboard_off,   \* command 0xAD was the last of 0xAD and 0xAE
    port_next,      \* the next data byte goes to the output port
    gate,           \* address line 20 is let through
    reset,          \* the machine has been reset
    early           \* history: a key was pressed before ICW1

kbcVars == <<ibuf, obuf, keyboard_off, port_next, gate, reset, early>>

\* The commands, and the data bytes: a copy of the output port, or a scan code
\* whose bit 0 is set or clear.  Read at port 0x60 they are "port" and "scan".
Commands == {"AD", "D0", "D1", "AE"}
DataBytes == {"port", "odd", "even"}

KbcInit ==
    /\ ibuf = "none"
    /\ obuf = "none"
    /\ keyboard_off = FALSE
    /\ port_next = FALSE
    /\ gate \in BOOLEAN
    /\ reset = FALSE
    /\ early = FALSE

\* A key sends its code.
KeyPressed ==
    /\ ~reset /\ ~keyboard_off /\ obuf = "none"
    /\ obuf' = "scan"
    /\ Raised(Keyboard)
    /\ early' = (early \/ at <= 1)
    /\ UNCHANGED <<ibuf, keyboard_off, port_next, gate, reset>>

\* Bit 0 of the output port is the reset line, active low; bit 1 drives the
\* gate on the machines that have it there.
WriteOutputPort(byte) ==
    /\ gate' \in {gate, TRUE}
    /\ reset' = (byte = "even")

TakeByte ==
    /\ ~reset /\ ibuf # "none"
    /\ ibuf' = "none"
    /\ keyboard_off' = ((keyboard_off \/ ibuf = "AD") /\ ibuf # "AE")
    /\ port_next' = (ibuf = "D1" \/ (port_next /\ ibuf \in Commands))
    /\ IF ibuf = "D0" THEN obuf' = "port" /\ Raised(Keyboard) ELSE UNCHANGED <<obuf, irr>>
    /\ IF ibuf \in DataBytes /\ port_next
       THEN WriteOutputPort(ibuf) ELSE UNCHANGED <<gate, reset>>
    /\ UNCHANGED early
=============================================================================
