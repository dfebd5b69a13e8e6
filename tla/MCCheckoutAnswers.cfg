\* A checkout repeated under its key while the first request is at the gateway.
SPECIFICATION CheckoutSpec
CONSTANTS
    a = a
    b = b
    k1 = k1
    k2 = k2
    e1 = e1
    e2 = e2
    r1 = r1
    r2 = r2
    o1 = o1
    o2 = o2
    i1 = i1
    i2 = i2
    Carts <- MCCarts
    Keys <- MCKeys
    CashKeys <- MCCashKeys
    Emails <- MCEmails
    Requests <- MCRequests
    OrderIds <- MCOrderIds
    Intents = {i1, i2}
    MaxLimit = 2
    None = None
PROPERTY
    SameKeySameAnswer
CHECK_DEADLOCK FALSE
