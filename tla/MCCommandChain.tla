--------------------------- MODULE MCCommandChain ---------------------------
\* The chain with one line, one key, and three typed lines of at most one
\* character.
EXTENDS CommandChain
CONSTANTS L1, k
MCLines == {L1}
MCKeys == {k}
=============================================================================
