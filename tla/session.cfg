SPECIFICATION FairSpec
CONSTANTS
  Friends <- Narrow
  Addrs = {a1}
  Rosters <- OneRoster
  AckNums = {}
  Contents = {}
  WordSize = 4
  LongSize = 16
  AckSize = 4
  MaxSockets = 2
  MaxFlight = 9
  Faults = {"operator", "async"}
  Pieces = {none, d0, full, rest}
  FullPieces = {full}
  Numbers <- TheNumbers
  DefaultNumbers <- Defaults
  NoNumber = none
  TimeCheckMax = 2
  CardMax = 2
  LengthSize = 256
  First <- FirstOf
  StrayIds = {2}
  StrayTexts <- Strays
  CharSize = 4
  MaxQueue = 0
  PhoneCalls = FALSE
  a1 = a1
  d0 = d0
  full = full
  rest = rest
  none = none
INVARIANTS NeverSilent OneRetryChain OneSocket SessionOrder
PROPERTIES ComesOnline HeartbeatKept ImplementsSession
