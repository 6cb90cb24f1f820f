SPECIFICATION Spec
CONSTANTS
  r1 = r1
  r2 = r2
  r3 = r3
  i1 = i1
  i2 = i2
  Requests = {r1, r2, r3}
  Ids = {i1, i2}
  Id <- SharedId
  Capacity = 2
  Joined = {r1}
INVARIANTS DeliveredIsAnswered OneUnansweredPerId ExitIsHonest
PROPERTIES NoWorkAfterPanic
