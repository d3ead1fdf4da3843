----------------------------- MODULE MCFreeList -----------------------------
EXTENDS FreeList

\* A cleared word, a word that is the address of a page of the pool, drawn or
\* not, and one that is no page at all.
MCClientWords == {0, 3, 9}
=============================================================================
