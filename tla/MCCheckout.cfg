\* Two carts, a key of a gateway and one of cash on delivery, two requests, a code with one or two uses left.
SPECIFICATION CheckoutSpec
CONSTANTS
    a = a
    b = b
    k1 = k1
    k2 = k2
    e1 = e1
    e2 = e2
    r1 = r1
    r2 = r2
    o1 = o1
    o2 = o2
    i1 = i1
    i2 = i2
    Carts <- MCCarts
    Keys <- MCKeys
    CashKeys <- MCCashKeys
    Emails <- MCEmails
    Requests <- MCRequests
    OrderIds <- MCOrderIds
    Intents = {i1}
    MaxLimit = 2
    None = None
SYMMETRY MCSymmetry
INVARIANTS
    OneOrderPerCheckout
    OrderedCartsAreConverted
    CodeClaimedOnce
CHECK_DEADLOCK FALSE
