--------------------------- MODULE MCItemHandoff ---------------------------
\* ItemHandoff with all three programs and cpPriority's own sizes.
EXTENDS ItemHandoff
MCPrograms == {"producerConsumer", "producerConsumerExtended", "cpPriority"}
=============================================================================
