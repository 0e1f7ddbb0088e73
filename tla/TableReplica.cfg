CONSTANTS
  Lcores = {0, 1, 2}
  SocketOf <- TwoSockets
  NumaOn = TRUE
  NB_REPLICA = 2
  Slow = {}
  Meanwhile = TRUE
  MaxUpdates = 4
  None = None
SPECIFICATION FairSpec
INVARIANTS TypeOK ExclusiveWrite ReplicasConverge LcoresFollow
PROPERTIES RefinesSnapshotTable UpdateCompletes
