SPECIFICATION FairSpec
CONSTANTS
    ClientCount = 1
    TopicCount = 3
    ReqCap = 2
PROPERTY TimeoutFailsStart
CHECK_DEADLOCK FALSE
