SPECIFICATION FairSpec
CONSTANTS
  MaxCalls = 2
  MaxBlips = 1
CHECK_DEADLOCK FALSE
INVARIANTS TypeOK AgreeAtRest BothHear  OneStream
PROPERTY LossEnds
