SPECIFICATION Spec
CONSTANTS
  n1 = n1
  m1 = m1
  NodeIds = {n1}
  EmptyId = EmptyId
  Metas = {m1}
  Epoch <- MCEpoch
  Instants <- MCInstants
  Interval = 1
  Latency = 0
  MaxTime = 3
PROPERTY
  OneMissedHeartbeatTolerated
