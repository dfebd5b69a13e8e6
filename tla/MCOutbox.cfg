\* Two events claimed in batches of two; a worker lost, an outcome lost or a repair.
CONSTANTS
    Rows <- MCRows
    Workers <- MCWorkers
    Handlers <- MCHandlers
    w1 = w1
    w2 = w2
    h1 = h1
    NoOutcome = NoOutcome
    BatchSize = 2
    MaxAttempts = 2
    MaxCrashes = 1
    MaxDbErrors = 1
    MaxRequeues = 1
SPECIFICATION FairSpec
INVARIANTS
    TypeOK
    RetriesBounded
PROPERTY
    ImplementsDelivery
    EveryEventSettles
\* Every event delivered or parked: nothing is left to do.
CHECK_DEADLOCK FALSE
CONSTRAINT MCOneFault
