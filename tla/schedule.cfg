SPECIFICATION FairSpec
CONSTANTS
  p1 = p1
  p2 = p2
  Publishers = {p1, p2}
  Delays = {0, 2}
  Crons <- MCCrons
  Repeats = {0, 2}
  Periods <- MCPeriods
  MaxTime = 5
  MaxFaults = 2
INVARIANTS
  
  OnePerTick
  Spaced
  SimpleOnce
  DeletedStops

  
CHECK_DEADLOCK FALSE
