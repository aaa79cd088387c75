CONSTANTS
  Udns = {u1, u2}
  Notifiers = {}
  Responders = {r1}
  Expirers = {e1}
  App = app
  None = None
  Listening = TRUE
  Moving = FALSE
  Ages = {0, 1}
  SubAge = 1
  MaxDevs = 2
  MaxTime = 2
  MaxCalls = 1
  Keeper = u1
SPECIFICATION KeeperSpec
PROPERTIES ExpiredRemoved SubscriptionRenewed
