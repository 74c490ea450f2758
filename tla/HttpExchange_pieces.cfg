SPECIFICATION HttpFairSpec
CONSTANTS
  Requests <- PlainAndShort
  Buffer = 8
  SplitHeader = FALSE
  SplitCharacter = FALSE
  ClientLeaves = TRUE
CHECK_DEADLOCK FALSE
INVARIANTS
  WholeBody
PROPERTIES
  Answered
  HandlerEnds
