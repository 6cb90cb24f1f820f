SPECIFICATION Spec
CONSTANTS
  r1 = r1
  r2 = r2
  i1 = i1
  i2 = i2
  i3 = i3
  a = a
  b = b
  Refs = {r1, r2}
  Ids = {i1, i2, i3}
  Identities = {a, b}
  Unknown = Unknown
  Capacity = 2
  TTL = 2
  MaxLogs = 2
  OwnerLogs = 2
  LogTTL = 1
  MaxClock = 2
  MaxChanges = 1
  MaxFaults = 1
SYMMETRY Symmetric
INVARIANTS AnswersAreCurrent FailureLeavesNothing
 
CHECK_DEADLOCK FALSE
