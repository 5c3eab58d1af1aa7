\* Three platforms, two PIIDs, an administrator.
SPECIFICATION Spec
CONSTANTS
    p1 = p1
    p2 = p2
    p3 = p3
    x = x
    y = y
    Unset = Unset
    Admin = Admin
    Platform = {p1, p2, p3}
    Piid = {x, y}
INVARIANTS
    TypeOK
    ManagersKeepToTheirKey
PROPERTIES
    ImplementsMap
