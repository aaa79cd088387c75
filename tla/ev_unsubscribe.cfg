CONSTANTS
  App = app
  Renewer = ren
  Handlers = {h1}
  Workers = {w1}
  Notifiers = {n1}
  None = None
  Unsubscribing = TRUE
  MaxSeq = 9
  MaxCount = 10
  MaxSubs = 1
  MaxValue = 1
SPECIFICATION FairSpec
PROPERTIES UnsubscribeAnswered
