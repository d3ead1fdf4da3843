----------------------------- MODULE MCKeyboard -----------------------------
(***************************************************************************)
(* Four listed modes: a 24-bit one, one of the two that are wanted, the    *)
(* fallback mode, and the other.                                           *)
(***************************************************************************)
EXTENDS Keyboard

CONSTANTS m1, m2, m3, m4, m118, none, text

MCModeList == <<m1, m3, m2, m4>>
MCWanted == {m3, m4}
\* m4 pads its lines.
MCGeometry ==
    [m \in {m1, m2, m3, m4} |->
        CASE m = m1 -> [width |-> 800, height |-> 600, pitch |-> 2400, bpp |-> 24]
          [] m = m2 -> [width |-> 1024, height |-> 768, pitch |-> 2048, bpp |-> 16]
          [] m = m3 -> [width |-> 1024, height |-> 768, pitch |-> 4096, bpp |-> 32]
          [] m = m4 -> [width |-> 1024, height |-> 768, pitch |-> 4352, bpp |-> 32]]
=============================================================================
