CONSTANTS
  Conns = {c1, c2}
  App = app
  Acceptor = acceptor
  None = None
  MaxRequests = 2
SPECIFICATION Spec
INVARIANTS TypeOK ListedAlive NoFaultWhileServing QuietStopSafe AtMostOneMore
PROPERTIES StopReturns ClientEnds
CHECK_DEADLOCK FALSE
