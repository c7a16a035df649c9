SPECIFICATION Spec
CONSTANTS
  None = None
  Clients = {k1}
  Verifying = {}
  MaxConns = 1
  MaxHellos = 3
  MaxSeq = 4
  MaxEpochs = 2
INVARIANTS
  NoNonceReuse
PROPERTIES
  CallsReturn
