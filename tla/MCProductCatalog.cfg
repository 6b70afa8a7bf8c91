CONSTANTS
    s1 = s1
    s2 = s2
    Users = {u1}
    Clients = {c1, c2}
    NoUser = NoUser
    GivenRoles = {"admin", "auditor"}
    AccessTTL = 1
    MaxId = 2
    Skus = {s1, s2}
    Stocks = {1, 2}
    Absent = Absent
    NoRow = NoRow
    Patches <- OneColumnEach
SPECIFICATION FairSpec
INVARIANTS
    OneProductPerSku
PROPERTIES
    PatchWritesItsBody
    ImplementsUniqueTable
    WritesAreAuthorized
    RoleIsNotRegained
    RoleChangeTakesEffect
