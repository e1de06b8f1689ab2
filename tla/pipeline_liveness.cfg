SPECIFICATION FairSpec
CONSTANTS
    c1 = c1
    c2 = c2
    Clients = {c1, c2}
    MaxMsg = 4
    Qos0 = {}
    QueueCap = 2
    ReqCap = 1
    ReceiveMax = 1
    CleanStart = FALSE
    MayPanic = FALSE
    MaxRuns = 1
    NoDelivery = NoDelivery
INVARIANT SizedQueueLosesNothing
PROPERTIES ShutdownTerminates QueuedIsEvaluated WindowReopens
CHECK_DEADLOCK FALSE
