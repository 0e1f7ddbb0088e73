CONSTANTS
  Lcores = {0, 1}
  SocketOf <- SecondSocket
  NumaOn = FALSE
  NB_REPLICA = 2
  Slow = {}
  Meanwhile = FALSE
  MaxUpdates = 1
  None = None
SPECIFICATION Spec
INVARIANTS LcoresFollow
