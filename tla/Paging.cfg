CONSTANTS
  p1 = p1
  sms = sms
  w1 = w1
  w2 = w2
  Pages = {p1}
  Channels = {sms}
  Sms = sms
  Workers = {w1, w2}
  MaxAttempts = 2
  MaxCrashes = 1
  NoRow = NoRow
SPECIFICATION FairSpec
\* a page acknowledged and drained is at rest
CHECK_DEADLOCK FALSE
INVARIANTS
  IInv
PROPERTIES
  AcknowledgementIsFinal
  BackupWindowNotCutShort
  CallerNeverToldBack
  ImplementsLifecycleFairly
  NotificationsSettle
