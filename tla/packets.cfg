SPECIFICATION Spec
CONSTANTS
  Friends <- Both
  Addrs = {a1}
  Rosters <- NoRoster
  AckNums = {3}
  Contents <- Commands
  WordSize = 4
  LongSize = 16
  AckSize = 4
  MaxSockets = 1
  MaxFlight = 1
  Faults = {"nbio", "account"}
  Pieces = {none, d0, full, rest}
  FullPieces = {full}
  Numbers <- TheNumbers
  DefaultNumbers <- Defaults
  NoNumber = none
  TimeCheckMax = 1
  CardMax = 1
  LengthSize = 256
  First <- FirstOf
  StrayIds = {2}
  StrayTexts <- Strays
  CharSize = 2
  MaxQueue = 3
  PhoneCalls = TRUE
  a1 = a1
  d0 = d0
  full = full
  rest = rest
  none = none
INVARIANTS TypeOK AckFirst RepliesAnswerPackets NumbersHaveASource
CONSTRAINT TwoPackets
