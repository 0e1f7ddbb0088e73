CONSTANTS
  NEntries = 2
  NotifyFirst = FALSE
  QSize = 3
  Threads = 3
  Unknown = {}
  MaxConns = 2
  MaxDigests = 1
  MaxEnds = 1
  None = None
SPECIFICATION FairSpec
INVARIANTS EachMessageOnce ConfiguredWhenTold PartsInOrder
PROPERTIES SwitchConfigured DigestAnswered
\* The process may end, and switches may stop sending.
CHECK_DEADLOCK FALSE
