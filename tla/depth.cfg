SPECIFICATION Spec
CONSTANTS
    h1 = h1
    h2 = h2
    h3 = h3
    Handlers = {h1, h2, h3}
    QueueCap = 2
    DepthMod = 8
INVARIANTS TypeOK DepthBalance WorkerPanicsFirst
CHECK_DEADLOCK FALSE
