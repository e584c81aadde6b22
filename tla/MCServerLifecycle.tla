------------------------ MODULE MCServerLifecycle ---------------------------
\* ServerLifecycle with model values for the descriptors and the workers.
EXTENDS ServerLifecycle

CONSTANTS f1, f2, f3, f4, w1, w2
=============================================================================
