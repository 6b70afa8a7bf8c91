CONSTANTS
    Emails = {e1, e2}
    Ips = {a1}
    NoIp = NoIp
    NoEmail = NoEmail
    Logins = {l1, l2}
    Ids = {i1, i2, i3, i4}
    MaxPerEmail = 1
    MaxPerIp = 2
    Window = 1
SPECIFICATION FairSpec
INVARIANTS
    EmailOvershootBounded
    IpOvershootBounded
PROPERTIES
    BlockIsNotProlonged
    EmailBlockLifts
    IpBlockLifts
