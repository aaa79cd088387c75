CONSTANTS
  App = app
  Renewer = ren
  Handlers = {h1}
  Workers = {w1}
  Notifiers = {n1}
  None = None
  Unsubscribing = FALSE
  MaxSeq = 9
  MaxCount = 10
  MaxSubs = 2
  MaxValue = 1
SPECIFICATION FairSpec
PROPERTIES TableCurrent DropNoticed
