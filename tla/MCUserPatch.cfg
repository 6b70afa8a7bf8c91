CONSTANTS
    Emails = {e1}
    Subs = {s1}
    Roles = {"operador", "admin"}
    Statuses = {"active", "blocked"}
    NoEmail = NoEmail
    NoSub = NoSub
    Requests = {r1}
    MaxUsers = 1
SPECIFICATION Spec
PROPERTIES
    PatchIsPartial
