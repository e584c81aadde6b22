---------------------------- MODULE MCWorkQueue -----------------------------
(* Constants for model checking WorkQueueThreads: see WorkQueue.cfg.       *)
EXTENDS WorkQueueThreads

CONSTANTS s1, s2, s3, p1, p2, c1, c2
=============================================================================
