\* One order and one event, posted again to one process that stays alive.
SPECIFICATION EventsSpec
CONSTANTS
    o1 = o1
    e1 = e1
    e2 = e2
    e3 = e3
    h1 = h1
    h2 = h2
    OrderIds = {o1}
    EventIds = {e1}
    Handlers = {h1}
    MaxPosts = 2
    MaxDeaths = 0
    NoOrder = NoOrder
    NoEvent = NoEvent
INVARIANT
    AnsweredMeansHandled
CHECK_DEADLOCK FALSE
