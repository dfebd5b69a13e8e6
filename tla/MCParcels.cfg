SPECIFICATION ParcelsSpec
CONSTANTS
    l1 = l1
    c1 = c1
    c2 = c2
    Lines <- MCLines
    MaxQty = 2
    ParcelIds = {1, 2, 3}
    Callers <- MCCallers
    Waybills = {1, 2, 3}
    MaxAt = 1
    Moves = {"in_transit"}
INVARIANTS
    StatusFollowsParcels
    NothingShipsTwice
    DeliveredWithItsParcels
    AnnouncedIsOut
CHECK_DEADLOCK FALSE
