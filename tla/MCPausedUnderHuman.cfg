SPECIFICATION SpecAuthority
CONSTANTS
  s1 = s1
  t1 = t1
  l1 = l1
  none = none
  NoTask = none
  Session = s1
  Task = t1
  Sessions <- MCSessions
  Tasks <- MCTasks
  Leases <- MCLeases
  LeaseOf <- MCLeaseOf
  Sent <- MCSent
  Settings <- LongLeases
  HumanTTL = 2
  StartupWindow = 2
  ResumeBudget = 2
  MaxTime = 4
  MaxSkew = 1
  MaxRunning = 1
  MaxFlight = 2
CHECK_DEADLOCK FALSE
INVARIANT PausedUnderHumanControl
