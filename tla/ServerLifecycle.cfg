SPECIFICATION FairSpec
CONSTANTS
  f1 = f1
  f2 = f2
  f3 = f3
  f4 = f4
  w1 = w1
  w2 = w2
  NoFd = NoFd
  Fds = {f1, f2, f3, f4}
  Workers = {w1, w2}
  MaxClients = 3
  CounterMax = 7
INVARIANTS
  FdOwnership
  CounterExact
  CapacityRespected
PROPERTIES
  ShutdownTerminates
  SilentClientsFreeWorkers
