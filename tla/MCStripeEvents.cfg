\* One order, two events posted twice each to two processes, one of which dies.
SPECIFICATION FairEventsSpec
CONSTANTS
    o1 = o1
    e1 = e1
    e2 = e2
    e3 = e3
    h1 = h1
    h2 = h2
    OrderIds = {o1}
    EventIds = {e1, e2}
    Handlers = {h1, h2}
    MaxPosts = 2
    MaxDeaths = 1
    NoOrder = NoOrder
    NoEvent = NoEvent
INVARIANTS
    EventsTypeOK
    RecordedStaysPaid
    OneDeliveryAtATime
PROPERTY
    ChargedOrdersSettle
CHECK_DEADLOCK FALSE
