SPECIFICATION SceneSpec
CONSTANTS
    Cods = {f1}
    Drivers = {f2}
    Admins = {a1, a2}
    Customers = {f3}
    Owner <- OwnerOfAll
    Due <- DueOfAll
    Amounts = {1, 2}
    Keys = {b1, b2}
    Texts = {c1, c2}
    Forms = {e1, e2}
    Acts <- AllActs
    None = None
    a1 = a1  a2 = a2  b1 = b1  b2 = b2  c1 = c1  c2 = c2  c3 = c3  e1 = e1  e2 = e2
    f1 = f1  f2 = f2  f3 = f3  f4 = f4
CHECK_DEADLOCK FALSE
SYMMETRY Alike
INVARIANTS OneDefault BookedAsConfirmed CashAccounted
PROPERTIES TabsAgree LedgerImplemented
