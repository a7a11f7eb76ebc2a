SPECIFICATION PartsSpec
CONSTANTS
  Calls = {c1}
  Dispatchers = {}
  Outboxes = {}
  NoCall = NoCall
  MaxAttempts = 1
  MaxTurns = 1
  MaxReports = 1
  MaxFailures = 0
INVARIANT EndedCallHasOwner
CHECK_DEADLOCK FALSE
