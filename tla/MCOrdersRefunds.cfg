\* One order of a backorder variant, edited, that sells and spends gift cards; two refunds, one request lost.
CONSTANTS
    o1 = o1
    o2 = o2
    s1 = s1
    s2 = s2
    OrderIds = {o1}
    Shelves = {s1}
    Untracked = {}
    Backorder = {s1}
    InitialStock = 0
    MaxQty = 2
    MaxReceived = 0
    CardSellers = {o1}
    MaxSubtotal = 2
    TaxOnTop = 1
    CardBalance = 1
    ReturnIds = {}
    Askable = {o1}
    RefundIds = {1, 2}
    SweepBatch = 1
    NoOrder = NoOrder
    MaxLost = 1
SPECIFICATION Spec
INVARIANTS
    GiftCardsAgree
    LedgerAgrees
PROPERTY
    RefundsReserveOnce
CHECK_DEADLOCK FALSE
