SPECIFICATION Spec
CONSTANTS
  None = None
  Clients = {k1, k2}
  Verifying = {k2}
  MaxConns = 2
  MaxHellos = 1
  MaxSeq = 5
  MaxEpochs = 1
INVARIANTS
  NoNonceReuse
  AliveMeansAnswered
PROPERTIES
  CallsReturn
  TasksEnd
