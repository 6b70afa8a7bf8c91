CONSTANTS
    Emails = {e1, e2}
    Subs = {s1, s2}
    Roles = {"operador"}
    Statuses = {"active"}
    NoEmail = NoEmail
    NoSub = NoSub
    Requests = {r1, r2}
    MaxUsers = 3
SPECIFICATION Spec
SYMMETRY Interchangeable
INVARIANTS
    OneUserPerIdentity
    ProviderHasCredential
PROPERTIES
    DestroyedForGood
    ImplementsUniqueTables
    CredentialsSurvive
