SPECIFICATION Spec
CONSTANTS
  WIFI_SCAN_NUMBER = 3
  Macs = {1, 2}
  Signals <- SomeSignals
  Longest = 3
INVARIANTS SameMacMarked
