SPECIFICATION SceneSpec
CONSTANTS
    Dispatchers = {u1, u2}
    Drivers = {d1, d2}
    Lossy = TRUE
    Sharing = {d1}
    MaxTasks = 2
    None = None
    u1 = u1  u2 = u2  d1 = d1  d2 = d2
INVARIANTS RankedByOwnRoute
PROPERTIES TaskAsAssigned RejectionsAndListsEnd
