CONSTANTS
    Users = {u1}
    Jtis = {j1, j2, j3, j4}
    Families = {f1}
    Requests = {r1, r2}
    NoUser = NoUser
    NoJti = NoJti
    NoFamily = NoFamily
    RefreshTTL = 1
    MaxNow = 2
SPECIFICATION Spec
SYMMETRY Interchangeable
INVARIANTS
    IInv
    OneHolderPerFamily
    ExchangedAtMostOnce
    VerifiableTokenHasRow
    InactiveClosesFamily
    AtMostOneLateToken
PROPERTIES
    OverIsFinal
    RevocationIsFinal
    ImplementsSessionFamilies
