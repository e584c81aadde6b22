SPECIFICATION FairSpec
CONSTANTS
  t1 = t1
  t2 = t2
  Nobody = Nobody
  Welcome = Welcome
  NULL = NULL
  Threads = {t1, t2}
  IdMod = 3
  MaxCalls = 3
INVARIANTS
  TypeOK
  AnsweredInStep
  StreamAccounted
  ReasonLostOnlyToOthers
PROPERTY
  MutexReleased
