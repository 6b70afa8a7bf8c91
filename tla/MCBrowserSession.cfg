CONSTANTS
    Users = {u1}
    Jtis = {j1, j2, j3}
    Families = {f1, f2}
    Requests = {r1, r2}
    NoUser = NoUser
    NoJti = NoJti
    NoFamily = NoFamily
    Clear = Clear
    RefreshTTL = 1
    MaxNow = 1
SPECIFICATION BrowserSpec
SYMMETRY Interchangeable
INVARIANTS
    LogoutOfOneIsFinal
    SignedOutForAReason
PROPERTIES
    JarNeverMovesBack
CHECK_DEADLOCK FALSE
