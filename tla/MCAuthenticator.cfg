\* PINs, tokens and the operations they verify, across power losses and failed commits;
\* requests of every form as the first command.
SPECIFICATION AuthSpec
CONSTANTS
  Hashes = {h1, h2}
  NoHash = NoHash
  RetriesDefault = 3
  Lifetime = 1
  ClockPeriod = 3
  MaxTokens = 2
  MaxCrashes = 1
  MaxFaults = 1
  StoredIds = {"stored"}
  AllMessages = TRUE
SYMMETRY Symmetry
INVARIANTS TypeOK GuessesAreBounded NoRetryIsWasted TokenIsForThisPin AckedPinIsDurable RequestsMeanWhatTheySay VerifiedIsEarned
PROPERTY VerifiedMeansFresh
