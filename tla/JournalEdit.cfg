SPECIFICATION FairSpec
CONSTANTS
  m1 = m1
  m2 = m2
  m3 = m3
  Mutations = {m1, m2}
  FileCount = 2
  Touches <- TwoOverlapping
  Manifest = {}
  TempsMayVanish = FALSE
  Editable = {1, 2}
  MaxFaults = 3
INVARIANTS NoLostEdit
PROPERTIES RecoverySettles
CHECK_DEADLOCK FALSE
