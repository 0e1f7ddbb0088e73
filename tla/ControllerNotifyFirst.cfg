CONSTANTS
  NEntries = 2
  NotifyFirst = TRUE
  QSize = 3
  Threads = 3
  Unknown = {1}
  MaxConns = 2
  MaxDigests = 1
  MaxEnds = 1
  None = None
SPECIFICATION Spec
INVARIANT ConfiguredWhenTold
