SPECIFICATION SceneSpec
CONSTANTS
    Sites = {w1, w2}
    Parcels = {s1, s2}
    Transfers = {x1, x2}
    Staff = {}
    Office = office
    Requests = {r1}
    Weights = {1, 2}
    Points = {p1}
    None = None
    MaxVersion = 4
    Trips = {t1, t2}
    Vehicles = {v1}
    Drivers = {d1, d2}
    Windows <- HalfDays
    Capacities = {2, 3}
    Tasks = {q1, q2}
    MaxTripVersion = 4
    s1 = s1  s2 = s2  x1 = x1  x2 = x2  d1 = d1
CHECK_DEADLOCK FALSE
SYMMETRY Alike
INVARIANTS ManifestFits NoDoubleBooking
PROPERTIES NothingOverwritten NetworkImplemented
