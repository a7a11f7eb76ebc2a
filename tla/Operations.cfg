SPECIFICATION OperationsSpec
CONSTANTS
  MaxDumps = 2
  Interval = 2
  DueAge = 2
  RetryPause = 1
  StaleAge = 2
  Retention = 3
  MaxTime = 6
  MaxFaults = 1
  Requests = {q1, q2}
  MaxTokens = 3
  MaxSessionFaults = 1
  Members = {m1, m2, m3}
  Founder = m1
  MaxTeamChanges = 4
  Existing = 2
  MaxConversations = 3
  VoiceCalls = {2}
  MaxSent = 2
  MaxSelected = 2
  MaxPanelFaults = 1
  Tabs = {q1, q2}
  Keys = {k1, k2}
  Only = Only
  NotGiven = NotGiven
  Values = {v1}
  MaxRows = 2
  MaxSaves = 2
  MaxSaveFaults = 1
SYMMETRY Interchangeable
VIEW View
\* what each part may be sent is bounded
CHECK_DEADLOCK FALSE
INVARIANTS
  BackupsInv OnlyCopyKept SessionsInv TeamInv PanelInv CatalogueInv
PROPERTIES
  LiveCookieKept OnlyOwnersTouchOwners
