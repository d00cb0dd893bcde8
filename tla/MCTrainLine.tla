---------------------------- MODULE MCTrainLine ----------------------------
\* TrainLine with the two lines the program has and three commands.
EXTENDS TrainLine, TLC
CONSTANTS L1, L2
MCLines == {L1, L2}
MCFaults == {"attach", "receive", "send"}
=============================================================================
