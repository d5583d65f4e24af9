SPECIFICATION FairSpec
CONSTANTS
  WIFI_SCAN_NUMBER = 7
  SyncMax = 3
  SuspendMax = 1
  Sockets = {}
  None = None
  Fix = Fix
  Scans <- Places
PROPERTIES GpsStops WifiStops
