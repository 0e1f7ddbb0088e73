CONSTANTS
  Cells = {c1, c2, c3}
  QSize = 3
  Lcores = {l1, l2}
  InitMsg = 2
  MaxMsgs = 3
  MaxDigests = 2
  None = None
SPECIFICATION FairSpec
INVARIANTS OneOwner LeakOnlyFailedReads MessagesInOrder DigestsInOrder ConfiguredBeforeRunning
PROPERTIES MessagesHandled DigestsDelivered
\* The process may end.
CHECK_DEADLOCK FALSE
