SPECIFICATION Spec
CONSTANTS
  Calls = {c1, c2}
  Dispatchers = {d1}
  NoCall = NoCall
  Starts = {1}
  Lengths = {1}
  Capacity = 1
  Opens = 1
  Closes = 2
  Horizon = 2
  MaxTurns = 2
  MaxSilent = 1
SYMMETRY Symmetry
VIEW WithoutConsent
INVARIANT BookingInv
CHECK_DEADLOCK FALSE
