SPECIFICATION Spec
CONSTANTS
  p1 = p1
  p2 = p2
  p3 = p3
  k1 = k1
  k2 = k2
  Plans = {p1, p2, p3}
  Keys = {k1, k2}
  Size <- OneLarge
  MaxPlans = 2
  MaxBytes = 3
  TTL = 1
  MaxClock = 1
SYMMETRY Symmetric
INVARIANTS DeliveredResolves
PROPERTIES QuotaCountsPending NeverReapplied ExpiredNeverApplies
