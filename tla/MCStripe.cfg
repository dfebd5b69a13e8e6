\* Four refunds of one or two units that may overlap, one answer lost, one process dead.
CONSTANTS
    q1 = q1
    q2 = q2
    q3 = q3
    q4 = q4
    Requests = {q1, q2, q3, q4}
    AmountsAsked = {1, 2}
    Total = 3
    MaxRunning = 2
    MaxLost = 1
    MaxDead = 1
SPECIFICATION Spec
SYMMETRY MCSymmetry
INVARIANTS
    RecordedWasSent
    EachRowItsOwnRefundAlone
\* Every request made and over: nothing is left to do.
CHECK_DEADLOCK FALSE
