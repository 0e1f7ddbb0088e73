CONSTANTS
  Workers = {w1, w2, w3}
  NJobs = 3
  Spacings = {FALSE}
  JobsReturn = FALSE
  None = None
SPECIFICATION FairSpec
PROPERTIES EveryDispatchedJobRuns
\* All jobs dispatched, all workers asleep or busy for ever: the pool rests.
CHECK_DEADLOCK FALSE
