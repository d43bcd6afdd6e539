\* An old image that lies where the first new one is written.
SPECIFICATION Spec
CONSTANTS
  MaxCredentials = 1
  Creds = {c1}
  NoCred = NoCred
  Pins = {NoPin}
  NoPin = NoPin
  UPConfigs = {DefaultUP}
  DefaultUP = DefaultUP
  Builds = {"hardened"}
  JournalCapacity = 1
  Factory = {"legacy in place"}
  MaxGeneration = 3
  MaxSignCount = 2
  MaxCrashes = 1
  MaxFaults = 0
INVARIANT SomeImageSurvives
