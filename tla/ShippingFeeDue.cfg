SPECIFICATION Spec
CONSTANTS
    Shipments = {s1}
    Drivers = {d1}
    Payments = {p1}
    Events = {e1}
    Disputes = {}
    Requests = {r1}
    Contradicting = {}
    None = None
    MaxVersion = 3
CHECK_DEADLOCK FALSE
PROPERTIES OpenedWhenDue
