SPECIFICATION Spec
CONSTANTS
  s1 = s1
  s2 = s2
  s3 = s3
  p1 = p1
  p2 = p2
  c1 = c1
  c2 = c2
  Sockets = {s1, s2, s3}
  Producers = {p1, p2}
  Consumers = {c1, c2}
  Nobody = Nobody
INVARIANT NoLostWakeup
INVARIANT StopClosesPending
PROPERTY StopReleasesConsumers
PROPERTY HandoffSpec
