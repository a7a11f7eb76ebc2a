SPECIFICATION PartsSpec
CONSTANTS
  Calls = {c1}
  Dispatchers = {d1, d2}
  Outboxes = {o1, o2}
  NoCall = NoCall
  MaxAttempts = 2
  MaxTurns = 2
  MaxReports = 2
  MaxFailures = 1
INVARIANT DispatchInv
INVARIANT ReportedCallHasOwner
INVARIANT AlertedAgainOnlyIfLost
PROPERTY AlertSettles
CHECK_DEADLOCK FALSE
