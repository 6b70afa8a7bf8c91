CONSTANTS
    Users = {u1}
    Jtis = {j1, j2}
    Families = {f1}
    Requests = {r1, r2}
    NoUser = NoUser
    NoJti = NoJti
    NoFamily = NoFamily
    RefreshTTL = 1
    MaxNow = 0
SPECIFICATION Spec
INVARIANTS
    LogoutAllClosesSessions
