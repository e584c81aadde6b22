---------------------------- MODULE MCOtelScope -----------------------------
\* OtelScope with model values for the workers and the spans.
EXTENDS OtelScope

CONSTANTS t1, t2, s1, s2, s3, s4
=============================================================================
