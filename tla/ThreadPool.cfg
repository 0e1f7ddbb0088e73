CONSTANTS
  Workers = {w1, w2, w3}
  NJobs = 3
  Spacings = {TRUE, FALSE}
  JobsReturn = TRUE
  None = None
SPECIFICATION FairSpec
INVARIANTS JobsRunOnceInOrder ListIsBacklog
PROPERTIES SpacedJobsRun
CONSTRAINT Followed
\* All jobs dispatched, all workers asleep or busy for ever: the pool rests.
CHECK_DEADLOCK FALSE
