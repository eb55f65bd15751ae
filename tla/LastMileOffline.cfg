SPECIFICATION Spec
CONSTANTS
    Shipments = {s1}
    CodShipments = {s1}
    Drivers = {d1}
    Assignments = {a1}
    Warehouses = {w1}
    Trips = {}
    Requests = {r1, r2}
    CapabilitySets <- AllCapabilities
    None = None
    MaxDriverVersion = 3
CHECK_DEADLOCK FALSE
INVARIANTS NoWorkWhileOffline
