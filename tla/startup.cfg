SPECIFICATION FairSpec
CONSTANTS
    ClientCount = 2
    TopicCount = 2
    ReqCap = 2
INVARIANTS TypeOK NothingLeftBehind
PROPERTIES StartReturns StopReturns AnnouncedIsSubscribed
