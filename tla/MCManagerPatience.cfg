CONSTANTS
  Held <- SomeHeld
  Capacity = 3
  PageLimit = 2
  TTL = 1
  ClockPeriod = 3
  UpTimeout = 2
  TransferTimeout = 1
  PipeDepth = 2
  Strangers = FALSE
  Builds <- HardenedOnly
  MaxAdds = 1
  MaxTokens = 1
  MaxPlugs = 1
SPECIFICATION Spec
PROPERTIES GrantReachesHost
