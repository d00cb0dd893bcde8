--------------------------- MODULE MCLightStatus ---------------------------
\* The two lights and the delays of the program.
EXTENDS LightStatus
CONSTANTS L1, L2
MCLights == {L1, L2}
MCFaults == {"attach", "receive", "send"}
=============================================================================
