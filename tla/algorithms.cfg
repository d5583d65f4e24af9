SPECIFICATION AlgorithmsSpec
CONSTANTS
  WIFI_SCAN_NUMBER = 3
  Macs = {1, 2, 3}
  Signals <- SomeSignals
  Longest = 4
  Clocks <- TwoClocks
  LastDay = 49710
  Patterns <- SomePatterns
  Letters = {1, 2}
  LongestText = 9
  Lengths <- SomeLengths
  SomeBytes <- SomeCodes
  LongestMessage = 4
  LongestList = 7
INVARIANTS StrongestFirst UsableKept SameNotSent LocalTimeRight KmpFindsAll CommandAccepted FramesReadBack CrcIsRemainder RequestReadsBack AnswerTaken
