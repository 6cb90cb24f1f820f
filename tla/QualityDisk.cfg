SPECIFICATION Spec
CONSTANTS
  s1 = s1
  s2 = s2
  j1 = j1
  j2 = j2
  o1 = o1
  Sessions = {s1}
  Jobs = {j1, j2}
  Size <- TwoAndOne
  Owner <- OneOwner
  OwnerCap = 2
  Cap = 2
  TTL = 1
  MaxClock = 2
  MaxBacks = 0
  MaxFaults = 1
INVARIANTS DiskWithinCaps
CHECK_DEADLOCK FALSE
