-------------------------- MODULE MCSmallPrograms --------------------------
\* SmallPrograms with the buffer's own sizes, two or three of every process, and
\* enough runs of TrafficLightSM to pass state 6 twice.
EXTENDS SmallPrograms
CONSTANTS u1, u2, u3, s1, s2, r1, r2, c1, c2
MCUsers == {u1, u2, u3}
MCSenders == {s1, s2}
MCReceivers == {r1, r2}
MCClients == {c1, c2}
MCFaults == {"receive", "send"}
=============================================================================
