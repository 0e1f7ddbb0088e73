CONSTANTS
  Commands <- Lines
  Socket <- Sockets
  NB_SOCKETS = 2
  MAX_LCORE_PARAMS = 4
  MAX_RX_QUEUE_PER_PORT = 3
  MAX_RX_QUEUE_PER_LCORE = 3
  MAX_TX_QUEUE_PER_PORT = 3
  Suites <- Tests
  Answers <- Behaviours
  RandomPorts = {1, 2, 200}
  REASONABLE_ITER_LIMIT = 6
  None = None
SPECIFICATION Spec
INVARIANTS
  OwnTxQueue OkMeansMatched
PROPERTIES
  CorrectSwitchPasses
CHECK_DEADLOCK FALSE
