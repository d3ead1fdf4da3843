------------------------------- MODULE MCBoot -------------------------------
EXTENDS Boot

\* The timer, the keyboard and the first line of the slave controller.
MCLines == {0, 1, 8}
\* Nothing masked; the kernel's lines masked; the cascade masked.
MCBiosMasks == {{}, {0, 1, 8}, {2}}
ClockLine == {8}
=============================================================================
