CONSTANTS
  App = app
  Renewer = ren
  Handlers = {h1, h2}
  Workers = {w1}
  Notifiers = {n1, n2}
  None = None
  Unsubscribing = TRUE
  MaxSeq = 1
  MaxCount = 2
  MaxSubs = 2
  MaxValue = 1
SPECIFICATION Spec
INVARIANTS TypeOK NoFalseGap
PROPERTIES FeedKept HeardInOrder
