SPECIFICATION Spec
CONSTANTS
  Hosts = {g1, g2}
  NoHost = NoHost
  NamePrefixes = {}
  Forced = {}
  Interval = 2
  QuotaRecheck = 1
  LeaseTimeout = 5
  MaxStarts = 2
  MaxChanges = 2
SYMMETRY HostsAlike
INVARIANTS
  FencedInTime
  
  NotFencedByOwnLease
CHECK_DEADLOCK FALSE
