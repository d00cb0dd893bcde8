-------------------------- MODULE MCKeyboardClient --------------------------
\* KeyboardClient with two keys and lines of up to three characters.
EXTENDS KeyboardClient
CONSTANTS k1, k2
MCKeys == {k1, k2}
=============================================================================
