CONSTANTS
    Emails = {e1}
    Ips = {a1}
    NoIp = NoIp
    NoEmail = NoEmail
    Logins = {l1, l2}
    Ids = {i1, i2, i3}
    MaxPerEmail = 2
    MaxPerIp = 3
    Window = 1
SPECIFICATION Spec
PROPERTIES
    FullEmailIsNotCompared
