SPECIFICATION ParserSpec
CHECK_DEADLOCK FALSE
CONSTANTS
  RandomLen = 32
  KeyLen = 65
  Messages <- MessageSet
  Captures <- CaptureSet
  WordBits = 15
  TagBits = 10
  Values <- JsonValues
  Refused = Refused
  LastDay = 49710
INVARIANT
  ServerHelloIsNamed
