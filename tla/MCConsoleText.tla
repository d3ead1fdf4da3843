--------------------------- MODULE MCConsoleText ----------------------------
EXTENDS ConsoleText

NoText == << >>
MCIrqChars == {"a", Newline, Backspace, Clear}
=============================================================================
