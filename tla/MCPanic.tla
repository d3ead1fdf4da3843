------------------------------ MODULE MCPanic -------------------------------
(***************************************************************************)
(* Words of 8 bits: two hexadecimal digits, three decimal ones.            *)
(***************************************************************************)
EXTENDS Panic

MCSigned == {-128, -7, 0, 127}
MCUnsigned == {0, 16, 171}
MCWidths == {0, 2, 4, 12}

\* Every token, and every token followed by every other.
MCCalls ==
    {<< t >> : t \in Tokens}
    \cup {<< t, u >> : t \in Tokens, u \in Tokens \cup LastTokens}

MCVectors == {0, 2, 8, 13, 14, 18}

\* Words that are all different, and others with zeros and the highest bits.
MCContexts ==
    {[eax |-> 1, ebx |-> 2, ecx |-> 3, edx |-> 4, ebp |-> 5, esi |-> 6, edi |-> 7,
      eip |-> 128, cs |-> 8, eflags |-> 70, above |-> << 17, 18 >>, cr2 |-> 160, error |-> 2],
     [eax |-> 255, ebx |-> 254, ecx |-> 0, edx |-> 9, ebp |-> 10, esi |-> 11, edi |-> 12,
      eip |-> 15, cs |-> 16, eflags |-> 0, above |-> << 0, 19 >>, cr2 |-> 0, error |-> 25]}
=============================================================================
