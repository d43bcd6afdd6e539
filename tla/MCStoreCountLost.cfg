\* An acknowledged sign count that a power-up does not find.
SPECIFICATION Spec
CONSTANTS
  MaxCredentials = 1
  Creds = {c1}
  NoCred = NoCred
  Pins = {NoPin}
  NoPin = NoPin
  UPConfigs = {DefaultUP}
  DefaultUP = DefaultUP
  Builds = {"hardened"}
  JournalCapacity = 1
  Factory = {"blank"}
  MaxGeneration = 3
  MaxSignCount = 2
  MaxCrashes = 1
  MaxFaults = 0
INVARIANT AckedSignCountIsDurable
