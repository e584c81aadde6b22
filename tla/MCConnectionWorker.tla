------------------------- MODULE MCConnectionWorker -------------------------
(* Constants for model checking ConnectionWorker: see the .cfg files.      *)
EXTENDS ConnectionWorker, TLC

CONSTANTS w1, w2, n1, n2

\* Workers and node ids are interchangeable; no action orders them.
Symmetry == Permutations(Workers) \cup Permutations(NodeIds)
=============================================================================
