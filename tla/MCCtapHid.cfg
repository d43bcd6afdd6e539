CONSTANTS
  browser = browser
  agent = agent
  Interfaces = {"FIDO"}
  InitPayload = 2
  ContPayload = 2
  MaxMessage = 5
  NonceLength = 1
  AnswerLengths = {5}
  Broadcast = 3
  Apps = {browser, agent}
  Home <- OneInterface
  Lengths = {5}
  MaxSent = 4
SPECIFICATION SysSpec
INVARIANTS TypeOK RequestsAreWhole AnswersMatch ChannelsDistinct
CHECK_DEADLOCK FALSE
PROPERTY RequestsAnswered
