SPECIFICATION Spec
CONSTANTS
  None = None
  Clients = {k1}
  Verifying = {}
  MaxConns = 2
  MaxHellos = 2
  MaxSeq = 3
  MaxEpochs = 2
INVARIANTS
  TypeOK
  StaleConnectionNeverCompletes
  AppKeysAgree
  TicketStoredOnceHandshaken
  MismatchNeedsMisuse
PROPERTIES
  ImplementsKeyAgreement
