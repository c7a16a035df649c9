SPECIFICATION Spec
CONSTANTS
  None = None
  Clients = {k1}
  Verifying = {}
  MaxConns = 2
  MaxHellos = 1
  MaxSeq = 3
  MaxEpochs = 1
INVARIANTS
  HandshakeReachesServer
