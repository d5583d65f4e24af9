SPECIFICATION Spec
CONSTANTS
  Given <- Numbers
  Defaults <- Compiled
  ReadMax = 128
INVARIANTS CutReadsBack ReadsBack
