CONSTANTS
  KeepAlive = TRUE
  RequestBody = 2
  ResponseBody = 1
  MaxTries = 2
  MaxTrouble = 2
SPECIFICATION Spec
INVARIANTS TypeOK CalmIsWhole
PROPERTIES ImplementsCall ExchangeEnds
CHECK_DEADLOCK FALSE
