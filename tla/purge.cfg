SPECIFICATION FairSpec
CONSTANTS
    j1 = j1
    j2 = j2
    w1 = w1
    w2 = w2
    m1 = m1
    m2 = m2
    m3 = m3
    Jobs = {j1, j2}
    Workers = {w1, w2}
    Messages = {m1, m2}
    InitialMessages = {m1}
    BatchSize = 1
    MaxDisturbances = 1
    NoJob = NoJob
INVARIANTS
    OneExecutor
    JobsAccounted
    LockHasOwner
PROPERTIES
    OnlyItsOwnLock
    LockReleased
    
CHECK_DEADLOCK FALSE
