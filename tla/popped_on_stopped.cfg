SPECIFICATION Spec
CONSTANTS
  m1 = m1
  m2 = m2
  c1 = c1
  c2 = c2
  NoMessage = NoMessage
  Messages = {m1}
  Consumers = {c1}
  RetryThreshold <- TwoAttempts
  RetryDelay = {}
  Scheduled = {}
  Periodic = {}
  TTL = {}
  ConsumeTimeout = {}
  StoreAcknowledged = FALSE
  StoreDeadLettered = TRUE
  MayCrash = {}
  MayShutdown = {}
  MayStall = {}
  MayLoseReply = {}
  MayDelete = {}
  MayRequeue = {}
  MaxStateChanges = 1
PROPERTIES
  PoppedMessageReturned
CHECK_DEADLOCK FALSE
