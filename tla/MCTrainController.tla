------------------------- MODULE MCTrainController -------------------------
\* TrainController with two keys and three commands, every call able to fail.
EXTENDS TrainController
CONSTANTS k1, k2
MCKeys == {k1, k2}
MCFaults == {"attach", "receive", "send"}
=============================================================================
