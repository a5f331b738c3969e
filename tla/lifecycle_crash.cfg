SPECIFICATION Spec
CONSTANTS
  m1 = m1
  m2 = m2
  c1 = c1
  c2 = c2
  NoMessage = NoMessage
  Messages = {m1}
  Consumers = {c1, c2}
  RetryThreshold <- TwoAttempts
  RetryDelay = {}
  Scheduled = {m1}
  Periodic = {}
  TTL = {}
  ConsumeTimeout = {}
  StoreAcknowledged = FALSE
  StoreDeadLettered = TRUE
  MayCrash = {c1}
  MayShutdown = {c2}
  MayStall = {c1}
  MayLoseReply = {c1}
  MayDelete = {m1}
  MayRequeue = {}
  MaxStateChanges = 0
INVARIANTS
  SingleLocation
  NothingLost
  
  CountersConserved

  
CHECK_DEADLOCK FALSE
