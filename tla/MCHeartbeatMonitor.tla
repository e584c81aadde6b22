------------------------ MODULE MCHeartbeatMonitor --------------------------
\* HeartbeatMonitor with model values for the nodes and their metadata, and
\* with the integers that the constants Instants and Epoch stand for.
EXTENDS HeartbeatMonitor

CONSTANTS n1, m1

MCEpoch == 0 - 100
MCInstants == {MCEpoch} \cup 0..MaxTime
=============================================================================
