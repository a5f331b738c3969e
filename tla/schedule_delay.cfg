SPECIFICATION Spec
CONSTANTS
  p1 = p1
  p2 = p2
  Publishers = {p1, p2}
  Delays = {1}
  Crons <- MCCrons
  Repeats = {1}
  Periods <- MCPeriods
  MaxTime = 5
  MaxFaults = 2
INVARIANTS
  RepeatsEnd
CHECK_DEADLOCK FALSE
