SPECIFICATION Spec
CONSTANTS
  w1 = w1
  w2 = w2
  n1 = n1
  n2 = n2
  Workers = {w1, w2}
  Metas = {w1, w2}
  NodeIds = {n1}
  EmptyId = EmptyId
  NoField = NoField
  Instants = {0, 1}
  Epoch = 0
  Now = 1
PROPERTY OfflineOnlyByRegistrant
