SPECIFICATION Spec
CONSTANTS
  m1 = m1
  m2 = m2
  c1 = c1
  c2 = c2
  NoMessage = NoMessage
  Messages = {m1, m2}
  Consumers = {c1}
  RetryThreshold <- TwoAttempts
  RetryDelay = {m1}
  Scheduled = {m2}
  Periodic = {m2}
  TTL = {m1}
  ConsumeTimeout = {m1, m2}
  StoreAcknowledged = TRUE
  StoreDeadLettered = TRUE
  MayCrash = {}
  MayShutdown = {}
  MayStall = {}
  MayLoseReply = {}
  MayDelete = {m1}
  MayRequeue = {m2}
  MaxStateChanges = 1
INVARIANTS
  WaitingIsWhereItSays

  
CHECK_DEADLOCK FALSE
