\* One event for one endpoint, dispatched twice; two workers, one lost pass, one retry.
SPECIFICATION FairHooksSpec
CONSTANTS
    p1 = p1
    e1 = e1
    w1 = w1
    w2 = w2
    Endpoints = {p1}
    Events = {e1}
    Workers = {w1, w2}
    BatchSize = 1
    MaxAttempts = 2
    MaxDispatches = 2
    MaxLost = 1
    MaxRetries = 1
    NoClaim = NoClaim
INVARIANTS
    TypeOK
    RepeatsAreExplained
PROPERTIES
    ImplementsDelivery
    EveryDeliverySettles
\* Every event delivered or given up: nothing is left to do.
CHECK_DEADLOCK FALSE
