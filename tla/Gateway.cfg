SPECIFICATION Spec
CONSTANTS
  Verticals <- EveryVertical
  MaxRuns = 2
  MaxCrashes = 1
INVARIANTS CleanSlate SoleWriter AnswerIsEarned
PROPERTIES QuarantineStopsWork
CHECK_DEADLOCK FALSE
