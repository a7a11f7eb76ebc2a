SPECIFICATION OperationsSpec
CONSTANTS
  MaxDumps = 1
  Interval = 1
  DueAge = 1
  RetryPause = 1
  StaleAge = 1
  Retention = 1
  MaxTime = 1
  MaxFaults = 0
  Requests = {q1}
  MaxTokens = 1
  MaxSessionFaults = 0
  Members = {m1, m2}
  Founder = m1
  MaxTeamChanges = 4
  Existing = 2
  MaxConversations = 3
  VoiceCalls = {2}
  MaxSent = 0
  MaxSelected = 0
  MaxPanelFaults = 0
  Tabs = {q1}
  Keys = {k1, k2}
  Only = Only
  NotGiven = NotGiven
  Values = {v1}
  MaxRows = 1
  MaxSaves = 0
  MaxSaveFaults = 0
\* what each part may be sent is bounded
CHECK_DEADLOCK FALSE
INVARIANT OwnerRemains
