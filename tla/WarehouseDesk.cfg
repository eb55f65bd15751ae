SPECIFICATION SceneSpec
CONSTANTS
    Sites = {w1, w2, w3}
    Parcels = {s1}
    Transfers = {x1, x2}
    Staff = {u1}
    Office = office
    Requests = {r1, r2}
    Weights = {1, 2}
    Points = {}
    None = None
    MaxVersion = 4
    w1 = w1  w2 = w2  w3 = w3  s1 = s1  x1 = x1  x2 = x2
    u1 = u1  office = office  r1 = r1  r2 = r2
CHECK_DEADLOCK FALSE
SYMMETRY Alike
INVARIANTS TransferAsReviewed DeskTellsTruth
PROPERTIES OneStory
