SPECIFICATION FairSpec
CONSTANTS
  NumEvents = 1
  TimeoutsOccur = TRUE
  SignalsOccur = FALSE
PROPERTY TeardownEnds
CHECK_DEADLOCK FALSE
