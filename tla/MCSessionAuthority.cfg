SPECIFICATION SpecAuthority
CONSTANTS
  s1 = s1
  t1 = t1
  l1 = l1
  none = none
  NoTask = none
  Session = s1
  Task = t1
  Sessions <- MCSessions
  Tasks <- MCTasks
  Leases <- MCLeases
  LeaseOf <- MCLeaseOf
  Sent <- MCSent
  Settings <- AllSettings
  HumanTTL = 1
  StartupWindow = 1
  ResumeBudget = 1
  MaxTime = 3
  MaxSkew = 1
  MaxRunning = 1
  MaxFlight = 2
CHECK_DEADLOCK FALSE
INVARIANTS AuthorityWasGranted SoleAuthority LostExecutorIsSilent
