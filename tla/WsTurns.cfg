CONSTANTS
  MaxTurns = 2
  MaxOther = 1
  MaxChunks = 1
  MaxSize = 1
SPECIFICATION FairSpec
INVARIANTS TypeOK Conversation PoliteServed OneRun
PROPERTIES NoLeaseLeft LoopReturns Answered
CHECK_DEADLOCK FALSE
