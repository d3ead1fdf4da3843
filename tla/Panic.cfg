\* Calls of one or two directives; one non-maskable interrupt in a report.
SPECIFICATION Spec
CONSTANTS
    Word = 256
    BufferSize = 4
    MostDigits = 3
    NULL = NULL
    HexDigits = 2
    Signed <- MCSigned
    Unsigned <- MCUnsigned
    Widths <- MCWidths
    Calls <- MCCalls
    Vectors <- MCVectors
    Contexts <- MCContexts
    MaxNmis = 1
INVARIANTS
    PrintedExact
    ReportExact
