SPECIFICATION Spec
CONSTANTS
  s1 = s1
  s2 = s2
  j1 = j1
  j2 = j2
  o1 = o1
  Sessions = {s1, s2}
  Jobs = {j1, j2}
  Size <- TwoAndOne
  Owner <- OneOwner
  OwnerCap = 2
  Cap = 2
  TTL = 1
  MaxClock = 2
  MaxBacks = 1
  MaxFaults = 1
SYMMETRY Symmetric
INVARIANTS CommittedIsWhole AnnouncedStays WithinCaps
CHECK_DEADLOCK FALSE
