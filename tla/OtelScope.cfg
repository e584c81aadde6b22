SPECIFICATION FairSpec
CONSTANTS
  t1 = t1
  t2 = t2
  s1 = s1
  s2 = s2
  s3 = s3
  s4 = s4
  None = None
  Threads = {t1, t2}
  Spans = {s1, s2, s3, s4}
  MaxBatch = 2
CHECK_DEADLOCK FALSE
INVARIANTS
  SpansConserved
  OneTracePerSession
  FlushedAtExit
PROPERTIES
  PendingIsPosted
  ExporterStops
