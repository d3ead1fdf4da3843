\* Main prints with interrupts on; the keyboard interrupt prints at any point.
SPECIFICATION Spec
CONSTANTS
    W = 2
    H = 2
    Byte = 4
    MainText <- MCMainText
    IrqChars <- MCIrqChars
INVARIANTS
    TypeOK
    CursorRecovers
    CursorSyncedUnlessSplit
