SPECIFICATION FairSpec
CONSTANTS
  j1 = j1
  j2 = j2
  o1 = o1
  c1 = c1
  Jobs = {j1}
  Clients = {c1}
  Owners = {o1}
  Owner <- OneOwner
  ResultBytes = 1
  OwnerEntries = 2
  ServerEntries = 3
  OwnerBytes = 2
  ServerBytes = 3
  SeedTime = 1
  WorkTime = 1
  CaptureTime = 1
  ExecuteTime = 1
  CollectTime = 1
  CleanupTime = 1
  NonDeliveryTime = 1
  RetentionTime = 1
  Revocable = {o1}
  MaxClock = 1
  SpuriousWake = TRUE
  ClockMayFail = TRUE
INVARIANTS SlotFollowsRecord TerminalMeansJoined
PROPERTIES TerminalIsFinal FirstIntentSticks JobsSettle ShutdownCompletes SlotReturns
