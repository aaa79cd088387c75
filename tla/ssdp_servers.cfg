CONSTANTS
  N = 2
  Searches = {s1}
  Other = other
  Interval = 2
  MaxTime = 4
SPECIFICATION Spec
INVARIANTS TypeOK FaultOnlyInBusyStop
PROPERTIES SearchesApart ReceiversEnd
CHECK_DEADLOCK FALSE
