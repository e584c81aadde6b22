SPECIFICATION FairSpec
CHECK_DEADLOCK FALSE
CONSTANTS
  a = a
  b = b
  n1 = n1
  n2 = n2
  NodeIds = {n1, n2}
  EmptyId = EmptyId
  Metas = {a, b}
  Epoch = Epoch
  Instants = {Epoch}
  Clients = {a, b}
  Assignments <- MCAssignments
  MenuRequests <- MCMenuRequests
  NodeOf <- MCNodeOf
  PoolSize = 2
  MaxClients = 2
  MaxAttempts = 1
  MaxCommands = 2
  MaxRestarts = 1
INVARIANT TypeOK
INVARIANT InStep
INVARIANT SuccessMeansRegistered
PROPERTY AllExit
PROPERTY TornDown
