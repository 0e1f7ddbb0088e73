CONSTANTS
  QSize = 3
  Elements = {e1, e2}
  Consumers = {c1, c2, c3}
  None = None
SPECIFICATION FairSpec
INVARIANTS TypeOK NoLostWakeup
PROPERTIES RefinesQueue QueueServed
