\* Requests of every form as the first command: allow lists of several credentials.
SPECIFICATION AuthSpec
CONSTANTS
  Hashes = {h1, h2}
  NoHash = NoHash
  RetriesDefault = 3
  Lifetime = 1
  ClockPeriod = 3
  MaxTokens = 1
  MaxCrashes = 0
  MaxFaults = 0
  StoredIds = {"stored"}
  AllMessages = TRUE
INVARIANT AuthParamIsRead
