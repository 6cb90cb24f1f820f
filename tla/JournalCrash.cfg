SPECIFICATION Spec
CONSTANTS
  m1 = m1
  m2 = m2
  m3 = m3
  Mutations = {m1, m2, m3}
  FileCount = 3
  Touches <- WholePartNothing
  Manifest = {m1}
  TempsMayVanish = TRUE
  Editable = {}
  MaxFaults = 3
INVARIANTS WriteAhead OutcomeIsWhole ReceiptsAreTrue PairReadable
PROPERTIES OutcomeIsFinal ImplementsAtomic
CHECK_DEADLOCK FALSE
