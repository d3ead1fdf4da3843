-------------------------------- MODULE A20 ---------------------------------
(***************************************************************************)
(* enable_a20_gate of src/src/memory/paging.c: the test through the alias, *)
(* and the two methods of opening the gate.  Interrupts are off, but the   *)
(* keyboard controller and the keyboard work on between the accesses.      *)
(***************************************************************************)
EXTENDS Kbc

VARIABLES
    step,           \* where enable_a20_gate is
    tried,          \* the methods tried so far, 0 to 2
    cmd,            \* local of enable_a20_keyboard
    word            \* the words at 0x112345 and 0x012345

a20Vars == <<step, tried, cmd, word>>

A20Init ==
    /\ step = "test"
    /\ tried = 0
    /\ cmd = "none"
    /\ word = [high |-> "kept", low |-> "kept"]

\* With the gate closed the high address is the low one.
Cell(ptr) == IF gate THEN ptr ELSE "low"
Stored(memory, ptr, value) == [memory EXCEPT ![Cell(ptr)] = value]

\* test_a20: the memory after its stores, which its comparison reads, and after
\* the restoring of *ptr1.
TestWords_Swapped ==                                                \* mutant
    Stored(Stored(word, "low", "87654321"), "high", "12345678")
TestWords == Stored(Stored(word, "high", "12345678"), "low", "87654321")
TestResult == TestWords[Cell("high")] = "12345678"
WordsAfterTest == Stored(TestWords, "high", word[Cell("high")])

GoOn(next) == step' = next /\ UNCHANGED <<tried, word>>
NoPort == UNCHANGED kbcVars
OnlyIbuf(byte) == ibuf' = byte /\ UNCHANGED <<obuf, keyboard_off, port_next, gate, reset, early>>

\* The test, and what enable_a20_gate does with the result.
Report == IF TestResult THEN <<"already", "keyboard", "fast">>[tried + 1]
          ELSE IF tried = 2 THEN "failed" ELSE "none"
test_a20 ==
    /\ step = "test"
    /\ word' = WordsAfterTest
    /\ step' = IF Report # "none" THEN "done" ELSE <<"AD", "fast">>[tried + 1]
    /\ tried' = IF Report # "none" THEN 0 ELSE tried + 1
    /\ UNCHANGED cmd /\ NoPort

\* enable_a20_keyboard: a command is written without waiting for the one
\* before it to be taken, but for the data byte of 0xD1.
SendCommand(byte, next) ==
    step = byte /\ OnlyIbuf(byte) /\ GoOn(next) /\ UNCHANGED cmd

OutputFull == obuf # "none"
AwaitOutput ==
    step = "full" /\ OutputFull /\ GoOn("read") /\ UNCHANGED cmd /\ NoPort

\* The bytes cmd can be: cmd |= 0x02 leaves bit 0.
CmdBytes_BitOnly == {"even"}                                        \* mutant
CmdBytes == IF obuf = "scan" THEN {"odd", "even"} ELSE {"port"}
ReadOutput ==
    /\ step = "read"
    /\ cmd' \in CmdBytes
    /\ obuf' = "none"
    /\ GoOn("D1")
    /\ UNCHANGED <<ibuf, keyboard_off, port_next, gate, reset, early>>

InputTaken_BitInverted == ibuf # "none"                             \* mutant
InputTaken == ibuf = "none"
AwaitInput(here, next) ==
    step = here /\ InputTaken /\ GoOn(next) /\ UNCHANGED cmd /\ NoPort

WriteCmd == step = "cmd" /\ OnlyIbuf(cmd) /\ GoOn("AE") /\ cmd' = "none"

enable_a20_keyboard ==
    \/ SendCommand("AD", "D0")
    \/ SendCommand("D0", "full")
    \/ AwaitOutput
    \/ ReadOutput
    \/ SendCommand("D1", "empty")
    \/ AwaitInput("empty", "cmd")
    \/ WriteCmd
    \/ SendCommand("AE", "drain")
    \/ AwaitInput("drain", "test")

\* Port 0x92 opens the gate on the machines that have it there.
enable_a20_fast ==
    /\ step = "fast"
    /\ gate' \in {gate, TRUE}
    /\ GoOn("test")
    /\ UNCHANGED <<cmd, ibuf, obuf, keyboard_off, port_next, reset, early>>

\* The busy waits have no limit.
Spinning ==
    /\ ~reset
    /\ \/ step = "full" /\ ~OutputFull
       \/ step \in {"empty", "drain"} /\ ~InputTaken

A20Step ==
    /\ ~reset
    /\ test_a20 \/ enable_a20_keyboard \/ enable_a20_fast
    /\ UNCHANGED picVars
=============================================================================
