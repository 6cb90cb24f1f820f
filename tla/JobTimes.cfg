SPECIFICATION Spec
CONSTANTS
  j1 = j1
  j2 = j2
  o1 = o1
  c1 = c1
  Jobs = {j1, j2}
  Clients = {}
  Owners = {o1}
  Owner <- OneOwner
  ResultBytes = 1
  OwnerEntries = 2
  ServerEntries = 3
  OwnerBytes = 2
  ServerBytes = 3
  SeedTime = 1
  WorkTime = 1
  CaptureTime = 1
  ExecuteTime = 1
  CollectTime = 1
  CleanupTime = 1
  NonDeliveryTime = 1
  RetentionTime = 2
  Revocable = {}
  MaxClock = 2
  SpuriousWake = FALSE
  ClockMayFail = FALSE
INVARIANTS SweepEnforces FailureQuarantines SlotCoversExecution
PROPERTIES ImplementsCapacity
