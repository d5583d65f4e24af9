SPECIFICATION Spec
CONSTANTS
  WIFI_SCAN_NUMBER = 7
  SyncMax = 1
  SuspendMax = 0
  Sockets = {0, 1}
  None = None
  Fix = Fix
  Scans <- Places
INVARIANTS TypeOK GpsScheduled RequestIntact
PROPERTIES NoStaleLookup AnswersLast
CONSTRAINT ChipStarts
