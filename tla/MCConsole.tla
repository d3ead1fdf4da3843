----------------------------- MODULE MCConsole ------------------------------
EXTENDS Console

\* The end of "System ready.\n": two characters and a line feed.
MCMainText == <<"a", "a", Newline>>
MCIrqChars == {"b", Newline, Backspace}
=============================================================================
