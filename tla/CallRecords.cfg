SPECIFICATION RecordsSpec
CONSTANTS
  Numbers = {n1}
  NoNumber = NoNumber
  MaxAttempts = 2
  MaxMoves = 2
  MaxChanges = 1
  Deliveries = {c1, c2}
  Reports <- MCReports
  Missing = Missing
  Orgs = {o1, o2}
  NoOrg = NoOrg
  PerMonth = 2
  PerMinute = 2
  Minimum = 1
  MaxClock = 2
  MaxReports = 3
  MaxRoutings = 1
  Callers = {c1, c2}
  Dialled = {p1, p2}
  Unstated = Unstated
  MaxCustomers = 2
  MaxTalks = 2
  MaxEdits = 1
  Details = {d1}
  PhonesSaid = {p1}
  OwnPhone = p0
  Garbled = garbled
  Blank = Blank
  MaxTurns = 2
  MaxTools = 2
  MaxFaults = 1
SYMMETRY Interchangeable
VIEW View
\* what each part may be sent is bounded
CHECK_DEADLOCK FALSE
INVARIANTS
  TransferInv
  UsageInv CustomersInv IntakeInv
PROPERTIES
  BillStays CorrectionsWin LinksStay NothingBlanked
