SPECIFICATION FairSpec
CONSTANTS
  Udns = {u1}
  Notifiers = {n1}
  Responders = {}
  Expirers = {e1, e2}
  App = app
  None = None
  Listening = TRUE
  Moving = FALSE
  Ages = {1}
  SubAge = 0
  MaxDevs = 2
  MaxTime = 2
  MaxCalls = 2
  Keeper = u1
INVARIANTS CachedIsAnnounced
PROPERTIES CallsReturn
