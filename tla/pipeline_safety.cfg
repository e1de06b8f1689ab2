SPECIFICATION Spec
CONSTANTS
    c1 = c1
    c2 = c2
    Clients = {c1, c2}
    MaxMsg = 4
    Qos0 = {2}
    QueueCap = 2
    ReqCap = 2
    ReceiveMax = 3
    CleanStart = FALSE
    MayPanic = TRUE
    MaxRuns = 2
    NoDelivery = NoDelivery
INVARIANTS TypeOK AckAfterEval AckOrder WindowAccounting QueueIsFifo DrainedMeansAll
PROPERTIES StoppedIntakeIsQuiet ImplementsAtLeastOnce
CHECK_DEADLOCK FALSE
