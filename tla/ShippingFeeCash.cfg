SPECIFICATION FeeSpec
CONSTANTS
    Shipments = {s1}
    Drivers = {d1, d2}
    Payments = {p1, p2}
    Events = {e1, e2}
    Disputes = {i1, i2}
    Requests = {r1, r2}
    Contradicting = {p2}
    None = None
    MaxVersion = 7
CHECK_DEADLOCK FALSE
SYMMETRY Symmetry
INVARIANTS FeeEvidence ObligationMet OnePayment PaidOnce
PROPERTIES DisputeRestores OutcomeFinal
