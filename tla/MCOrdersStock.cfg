\* Two orders over one shelf of two units, one order with a gateway to ask, and the sweeper.
CONSTANTS
    o1 = o1
    o2 = o2
    s1 = s1
    s2 = s2
    OrderIds = {o1, o2}
    Shelves = {s1}
    Untracked = {}
    Backorder = {}
    InitialStock = 2
    MaxQty = 2
    MaxReceived = 2
    CardSellers = {}
    MaxSubtotal = 1
    TaxOnTop = 0
    CardBalance = 0
    ReturnIds = {1}
    Askable = {o1}
    RefundIds = {}
    SweepBatch = 1
    NoOrder = NoOrder
    MaxLost = 0
SPECIFICATION FairSpec
INVARIANT
    ReservationsAgree TypeOK StockConserved NeverOversold PaidOrdersHoldTheirStock
PROPERTY
    ExpiredHoldsEnd
CHECK_DEADLOCK FALSE
