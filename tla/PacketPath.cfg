CONSTANTS
  Mbufs = {1, 2}
  Ports = {0, 1}
  rx_queue_list <- Queues
  Programs <- Some
  Lengths = {64}
  MAX_PKT_BURST = 2
  CRYPTO_BURST_SIZE = 2
  Contexts = {c1, c2, c3}
  ASYNC_QUEUE_SIZE = 3
  EVERY_N = 2
  Modes = {"off", "context", "pd", "skip"}
  None = None
SPECIFICATION Spec
INVARIANTS
  MbufsAccounted ContextsAccounted ResumesItself
  CryptoOnceInOrder LengthAsIfSync SentWhereItCameFrom
PROPERTIES
  QueuedPacketsAreSent BurstsResume
