SPECIFICATION Spec
CONSTANTS
    Shipments = {s1, s2}
    CodShipments = {s1}
    Drivers = {d1}
    Assignments = {a1, a2}
    Warehouses = {w1, w2}
    Trips = {t1}
    Requests = {r1, r2}
    CapabilitySets <- TwoCapabilitySets
    None = None
    MaxDriverVersion = 3
CONSTRAINT WorkloadBound
CHECK_DEADLOCK FALSE
SYMMETRY WorkloadSymmetry
INVARIANTS TaskExclusion WorkerStaysEligible DriverStatusTruthful
PROPERTIES WarehouseFixedWhileWorking
