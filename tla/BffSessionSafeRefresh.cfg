CONSTANTS
    Sid = {s1}
    Req = {r1, r2}
    Subject = {u1}
    MaxTok = 3
    Faults = {}
    None = None
SPECIFICATION Spec
CHECK_DEADLOCK FALSE
PROPERTY RefreshIsSafe
