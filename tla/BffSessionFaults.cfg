CONSTANTS
    Sid = {s1}
    Req = {r1, r2}
    Subject = {u1}
    MaxTok = 3
    Faults = {"outage", "lost", "drop", "db", "crash"}
    None = None
SPECIFICATION FairSpec
CHECK_DEADLOCK FALSE
INVARIANT LockDiscipline
PROPERTY RevokedIsFinal KeepsContract EveryRequestAnswered
