CONSTANTS
  Interfaces = {"DEBUG"}
  InitPayload = 2
  ContPayload = 2
  MaxMessage = 5
  NonceLength = 1
  AnswerLengths = {1, 5}
  Broadcast = 3
  Lengths = {2, 5}
  MaxSent = 3
SPECIFICATION HostSpec
INVARIANT CborIsAnswered
CHECK_DEADLOCK FALSE
