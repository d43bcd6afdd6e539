CONSTANTS
  rpA = rpA
  rpB = rpB
  Rps = {rpA, rpB}
  Hashes = {"h"}
  Capacity = 3
  PendingMax = 3
  PendingTimeout = 1
  ReuseWindow = 1
  ClockPeriod = 3
  PresenceOn = TRUE
  MaxMade = 3
  MaxCount = 2
SPECIFICATION Spec
INVARIANTS TypeOK PendingIsCollected AssertionsEnumerate
PROPERTIES PresenceIsFresh CountsIncrease
SYMMETRY Symmetry
