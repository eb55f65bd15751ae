SPECIFICATION SceneSpec
CONSTANTS
    Sessions = {h1, h2, h3}
    Tokens = {h4}
    Calls = {z1, z2}
    Passwords = {y1, y2}
    MaxVersion = 2
    None = None
    z1 = z1  z2 = z2  y1 = y1  y2 = y2  h1 = h1  h2 = h2  h3 = h3
    w1 = w1  w2 = w2  s1 = s1  s2 = s2  s3 = s3  x1 = x1  x2 = x2  x3 = x3  office = office
    p1 = p1  t1 = t1  t2 = t2  t3 = t3  v1 = v1  d1 = d1  d2 = d2  c1 = c1  c2 = c2  q1 = q1
    g1 = g1  g2 = g2
CHECK_DEADLOCK FALSE
SYMMETRY Alike
INVARIANTS BestOfAll PushesEarned CredentialsEnd
PROPERTIES PagesTellTruth
