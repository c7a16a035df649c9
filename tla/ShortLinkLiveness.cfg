SPECIFICATION Spec
CONSTANTS
  None = None
  Clients = {k1, k2}
  Verifying = {k2}
  MaxConns = 2
  MaxEpochs = 2
PROPERTIES
  SessionFixedAfterHandshake
  CallsReturn
  ImplementsRequestReply
