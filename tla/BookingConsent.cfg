SPECIFICATION FairSpec
CONSTANTS
  Calls = {c1}
  Dispatchers = {d1}
  NoCall = NoCall
  Starts = {1, 2}
  Lengths = {1}
  Capacity = 1
  Opens = 1
  Closes = 3
  Horizon = 1
  MaxTurns = 2
  MaxSilent = 0
INVARIANT HeardBeforeBooked
PROPERTY StaffAnswered
CHECK_DEADLOCK FALSE
