\* Hardened and debug builds flashed in turn over images of every age, those included that
\* the commits erase.
SPECIFICATION Spec
CONSTANTS
  MaxCredentials = 1
  Creds = {c1}
  NoCred = NoCred
  Pins = {NoPin}
  NoPin = NoPin
  UPConfigs = {DefaultUP, up1}
  DefaultUP = DefaultUP
  Builds = {"hardened", "debug"}
  JournalCapacity = 1
  Factory = {"unwrapped", "legacy apart", "legacy tail"}
  MaxGeneration = 3
  MaxSignCount = 2
  MaxCrashes = 3
  MaxFaults = 1
INVARIANTS HardenedDistrustsDebug SomeImageSurvives
