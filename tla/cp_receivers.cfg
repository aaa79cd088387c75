CONSTANTS
  Udns = {u1, u2}
  Notifiers = {n1}
  Responders = {r1}
  Expirers = {e1}
  App = app
  None = None
  Listening = TRUE
  Moving = TRUE
  Ages = {0, 1}
  SubAge = 0
  MaxDevs = 2
  MaxTime = 2
  MaxCalls = 1
  Keeper = u1
SPECIFICATION Spec
INVARIANTS TypeOK UniqueUdn LockedPointersValid
SYMMETRY Symmetry
