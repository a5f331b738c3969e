SPECIFICATION FairSpec
CONSTANTS
  k1 = k1
  k2 = k2
  Keys = {k1}
  States = {"ACTIVE", "PAUSED", "LOCKED"}
  MaxInstances = 4
  MaxChanges = 2
  MaxRuns = 2
  MaxCalls = 3
INVARIANTS
  
  
  LoopsReachable
  ExclusiveWorkers
  
PROPERTY
  ActiveIsServed
CHECK_DEADLOCK FALSE
