SPECIFICATION FairSpec
CONSTANTS
  Requests = {r1, r2}
  Processes = {p1}
  NoRequest = NoRequest
  Texts = {gas}
  Alarming = {gas}
  TurnLimit = 1
  MaxRounds = 1
  MaxSaid = 1
  MaxSent = 2
  MaxFailures = 1
PROPERTY RequestSettles
CHECK_DEADLOCK FALSE
