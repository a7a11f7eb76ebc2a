SPECIFICATION CallSpec
CONSTANTS
  Requests = {r1, r2}
  Processes = {p1, p2}
  NoRequest = NoRequest
  Texts = {calm, gas}
  Alarming = {gas}
  TurnLimit = 2
  MaxRounds = 1
  MaxSaid = 2
  MaxSent = 3
  MaxFailures = 1
  ToolRounds = 3
  Tools = {"book_appointment", "transfer_to_human"}
  CallSlots = {0, 1}
  MaxPieces = 4
  MaxUnits = 2
SYMMETRY Interchangeable
VIEW View
INVARIANTS
  VoiceInv NoticeLeadsWords AlarmedCallerInstructed
  ReplyInv SpokenAsMeant
PROPERTY ImplementsTranscript
\* the caller may hang up and the requests be done
CHECK_DEADLOCK FALSE
