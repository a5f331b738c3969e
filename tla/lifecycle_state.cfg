SPECIFICATION Spec
CONSTANTS
  m1 = m1
  m2 = m2
  c1 = c1
  c2 = c2
  NoMessage = NoMessage
  Messages = {m1}
  Consumers = {c1, c2}
  RetryThreshold <- OneRetry
  RetryDelay = {}
  Scheduled = {}
  Periodic = {}
  TTL = {}
  ConsumeTimeout = {}
  StoreAcknowledged = FALSE
  StoreDeadLettered = FALSE
  MayCrash = {}
  MayShutdown = {}
  MayStall = {}
  MayLoseReply = {}
  MayDelete = {}
  MayRequeue = {}
  MaxStateChanges = 2
SYMMETRY ConsumerSymmetry
INVARIANTS
  HandledIsHeld
  AttemptsBounded
CHECK_DEADLOCK FALSE
