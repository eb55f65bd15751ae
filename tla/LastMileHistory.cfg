SPECIFICATION Spec
CONSTANTS
    Shipments = {s1}
    CodShipments = {s1}
    Drivers = {d1, d2}
    Assignments = {a1, a2, a3}
    Warehouses = {w1}
    Trips = {}
    Requests = {r1, r2}
    CapabilitySets <- AllCapabilities
    None = None
    MaxDriverVersion = 1
CHECK_DEADLOCK FALSE
SYMMETRY Symmetry
INVARIANTS TypeOK AssignmentMatchesShipment AttemptHistory SnapshotFresh
PROPERTIES HistoryKept VersionDiscipline
