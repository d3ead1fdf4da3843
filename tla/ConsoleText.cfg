\* One printer, nobody interrupts it; five rows of text on a screen of two.
SPECIFICATION TextSpec
CONSTANTS
    W = 2
    H = 2
    Byte = 3
    MaxRows = 5
    MainText <- NoText
    IrqChars <- MCIrqChars
INVARIANT ScreenShowsText
