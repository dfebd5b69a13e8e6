\* One variant in two places, two sessions, one order of one unit.
SPECIFICATION LocationsSpec
CONSTANTS
    s1 = s1
    s2 = s2
    o1 = o1
    Places = {1, 2}
    Sessions = {s1, s2}
    OrderIds = {o1}
    MaxUnits = 1
    NoPlace = NoPlace
    NoOrder = NoOrder
CONSTRAINT MCBounds
SYMMETRY MCSymmetry
INVARIANTS
    TypeOK
    
    
PROPERTIES
    NothingIsStranded
    DefaultIsKept
    OversoldBySwitchingOnly
    RestockedUnitsLand
\* A place without a default and a store without orders stop nothing.
CHECK_DEADLOCK FALSE
