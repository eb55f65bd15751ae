SPECIFICATION SceneSpec
CONSTANTS
    Notes = {n1}
    Mailable = {n1}
    Readable = {n1}
    Enabled = TRUE
    Slots = {j1, j2}
    Batch = 1
    MaxTries = 2
    MaxFaults = 2
    None = None
    n1 = n1  j1 = j1  j2 = j2  s1 = s1  d1 = d1  k1 = k1  k2 = k2  e1 = e1  r1 = r1  r2 = r2
CHECK_DEADLOCK FALSE
PROPERTIES MailsAreTrue OutboxDelivers CapturedIsPaid
