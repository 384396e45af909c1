SPECIFICATION FairSpec
CONSTANTS
  NumEvents = 3
  TimeoutsOccur = TRUE
  SignalsOccur = TRUE
INVARIANT TypeOK
INVARIANT AssertsHold
INVARIANT OwnEventCurrent
INVARIANT OneCallAtATime
INVARIANT PassedMeansVerified
INVARIANT SocketsOutliveThread
PROPERTY ImplementsSerialCalls
PROPERTY AwaitIdleEnds
PROPERTY TestEnds
CHECK_DEADLOCK FALSE
