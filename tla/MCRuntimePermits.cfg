SPECIFICATION Spec
CONSTANTS
  s1 = s1
  t1 = t1
  t2 = t2
  l1 = l1
  l2 = l2
  none = none
  NoTask = none
  Sessions <- MCSessions
  Tasks <- MCTasks
  Leases <- MCLeases
  LeaseOf <- MCLeaseOf
  Sent <- MCSent
  MaxTime = 4
  MaxSkew = 1
  MaxRunning = 1
INVARIANTS TypeOK NoAuthorityPastExpiry
PROPERTIES RevocationIsFinal AuthorityNeverRegresses
CHECK_DEADLOCK FALSE
