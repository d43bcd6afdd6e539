\* Commits and sign counts: two credentials, two PINs, a journal of two entries, crashes
\* and failed writes.
SPECIFICATION Spec
CONSTANTS
  MaxCredentials = 2
  Creds = {c1, c2}
  NoCred = NoCred
  Pins = {NoPin, p1}
  NoPin = NoPin
  UPConfigs = {DefaultUP}
  DefaultUP = DefaultUP
  Builds = {"hardened"}
  JournalCapacity = 2
  Factory = {"blank", "unwrapped", "legacy tail"}
  MaxGeneration = 3
  MaxSignCount = 3
  MaxCrashes = 2
  MaxFaults = 1
SYMMETRY Symmetry
INVARIANTS TypeOK ActiveImageIsBest CountIsExact AckedCommitIsDurable BoundCountsAreDurable RefusalMeansDamage
PROPERTIES IsTransactional DurableCountsGrow
