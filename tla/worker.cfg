SPECIFICATION Spec
CONSTANTS
    Rules = {0, 1}
    Durations = {1, 2}
    MaxScrapes = 2
    MaxMsg = 2
    Destinations <- MCDestinations
    Kind <- MCKind
    ProducerCap = 2
INVARIANTS TypeOK LatencyExact SinksDroppedMeansFlushed AckedReachesSinks
PROPERTIES ScrapeIsTrue
CONSTRAINT Scope
CHECK_DEADLOCK FALSE
