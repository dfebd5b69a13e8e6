SPECIFICATION PollingSpec
CONSTANTS
    l1 = l1
    c1 = c1
    hook = hook
    poller = poller
    Lines <- MCLines
    MaxQty = 1
    Moves = {"in_transit", "lost"}
    ParcelIds = {1}
    Callers <- MCCallers
    Waybills = {1, 2}
    Handlers <- MCHandlers
    Pollers <- MCPollers
    MaxScans = 2
    MaxAt = 5
    Undated = FALSE
INVARIANTS
    TypeOK
    RowNeverAheadOfOrder
PROPERTY PollCatchesUp
CHECK_DEADLOCK FALSE
