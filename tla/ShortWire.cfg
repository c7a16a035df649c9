SPECIFICATION Spec
CHECK_DEADLOCK FALSE
CONSTANTS
  Requests <- RequestSizes
  RequestHeader = 2
  ResponseHeader = 2
  RequestPart = 3
  AnswerPart = 2
  RequestRest = 1
  ResponseRest = 1
  Chunk = 3
  Tag = 2
  Width = 16
INVARIANTS
  TypeOK
  BodiesAreWhole
  FailsOnlyForCause
  OkMeansWhole
PROPERTIES
  ImplementsRequestReply
