SPECIFICATION DeskSpec
CONSTANTS
  Calls = {c1, c2}
  Dispatchers = {}
  NoCall = NoCall
  Starts = {1, 2, 3}
  Lengths = {2}
  Capacity = 1
  Opens = 1
  Closes = 4
  Horizon = 2
  MaxTurns = 2
  MaxSilent = 0
  Businesses = {1, 2}
  Assistants = {1, 2}
  PhoneIds = {1}
  None = 0
  MaxLines = 2
  MaxCommands = 2
SYMMETRY Symmetry
VIEW View
INVARIANTS
  CountedWithinCapacity SearchAgreesWithBooking LinesInv
PROPERTIES
  TakenOnlyAsNamed
\* what each part may be sent is bounded
CHECK_DEADLOCK FALSE
