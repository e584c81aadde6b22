SPECIFICATION FairSpec
CONSTANTS
  n1 = n1
  m1 = m1
  NodeIds = {n1}
  EmptyId = EmptyId
  Metas = {m1}
  Epoch <- MCEpoch
  Instants <- MCInstants
  Interval = 2
  Latency = 1
  MaxTime = 11
INVARIANTS
  SilenceIsDetected
PROPERTIES
  OnlySilentNodesMarked
  StopReturns
