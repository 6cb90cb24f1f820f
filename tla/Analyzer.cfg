SPECIFICATION FairSpec
CONSTANTS
  Asked = {"workspace", "references"}
  PipeRoom = 1
  Chatter = {"request", "log", "status"}
  MaxSaid = 2
  MaxFaults = 1
INVARIANTS StopIsTrue
PROPERTIES PeaceIsEnough EndsInTime
