CONSTANTS
    Sid = {s1, s2}
    Req = {r1, r2}
    Subject = {u1, u2}
    MaxTok = 4
    Faults = {}
    None = None
SPECIFICATION Spec
CONSTRAINT Bound
SYMMETRY Symmetry
CHECK_DEADLOCK FALSE
INVARIANT TypeOK TokensStayPrivate OnlyClosuresHoldAndWait
PROPERTY GrantLostOnlyByWriteBack EndsOnlyDeadOrSuperseded
