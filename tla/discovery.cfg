CONSTANTS
  Lease = 4
  MaxWait = 1
  StopWait = 1
  MaxStarts = 2
  MaxTime = 18
SPECIFICATION Spec
INVARIANTS TypeOK KnownWhileRunning ForgottenAfterStop AdvertisersEnd
CHECK_DEADLOCK FALSE
