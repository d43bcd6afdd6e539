CONSTANTS
  Held <- SomeHeld
  Capacity = 3
  PageLimit = 2
  TTL = 1
  ClockPeriod = 3
  UpTimeout = 2
  TransferTimeout = 1
  PipeDepth = 2
  Strangers = TRUE
  Builds <- BothBuilds
  MaxAdds = 1
  MaxTokens = 2
  MaxPlugs = 1
SPECIFICATION Spec
INVARIANTS TypeOK AnswersAreWhole
PROPERTIES PrivilegesAreGranted CatalogIsComplete DeletesWhatIsListed OperationsAdvance
