SPECIFICATION Spec
CONSTANTS
    g1 = g1  c1 = c1  r1 = r1  poll = poll  owner = owner  None = None
CHECK_DEADLOCK FALSE
PROPERTIES ArrivalReachesAll PageCatchesUp
