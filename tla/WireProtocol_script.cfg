SPECIFICATION FairSpec
CONSTANT MaxEvents = 4
INVARIANT NeverOutOfStep
INVARIANT ErrorNotOvertaken
INVARIANT PassedTestSparesDaemon
PROPERTY ImplementsSequentialScript
PROPERTY ClientEnds
CHECK_DEADLOCK FALSE
