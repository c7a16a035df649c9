SPECIFICATION Spec
CONSTANTS
  None = None
  Clients = {k1, k2}
  Verifying = {}
  MaxConns = 3
  MaxEpochs = 2
SYMMETRY Symmetry
INVARIANTS
  TypeOK
  TicketHonoured
  RefusedOnlyAfterRestart
  HonestPeersAgree
  SessionAtHand
