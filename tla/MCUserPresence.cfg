CONSTANTS
  Configs <- SomeConfigs
  DefaultConfig <- Two
  ClockPeriod = 11
  Starts = {0, 7}
  MaxLag = 2
SPECIFICATION Spec
INVARIANTS TypeOK GestureIsSeen InForce PersistedIsStored
PROPERTIES ConfirmedByGesture WaitEnds
