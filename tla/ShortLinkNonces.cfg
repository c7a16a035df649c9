SPECIFICATION Spec
CONSTANTS
  None = None
  Clients = {k1}
  Verifying = {}
  MaxConns = 4
  MaxEpochs = 2
INVARIANTS
  NoNonceReuse
