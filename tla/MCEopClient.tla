---------------------------- MODULE MCEopClient -----------------------------
\* EopClient with model values for the threads.
EXTENDS EopClient

CONSTANTS t1, t2
=============================================================================
