SPECIFICATION Spec
CONSTANTS
  Calls = {c1, c2}
  Dispatchers = {d1}
  NoCall = NoCall
  Starts = {1, 2}
  Lengths = {1}
  Capacity = 1
  Opens = 1
  Closes = 3
  Horizon = 2
  MaxTurns = 2
  MaxSilent = 0
SYMMETRY Symmetry
INVARIANT NoOverbooking
CHECK_DEADLOCK FALSE
