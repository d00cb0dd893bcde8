-------------------------- MODULE MCTrafficSession --------------------------
\* TrafficSession with two clients, and long enough to pass state 6.
EXTENDS TrafficSession
CONSTANTS c1, c2
MCClients == {c1, c2}
MCFaults == {"channel", "receive", "attach", "send"}
=============================================================================
