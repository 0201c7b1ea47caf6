SPECIFICATION Spec
CONSTANTS
    MaxRuns = 3
    MaxDeleted = 1
    MaxCrowded = 2
    MaxEdits = 2
CONSTRAINT Bound
INVARIANT FirstRunDelivers OneEach WiredUp CredentialsMatch EditsSurvive
CHECK_DEADLOCK FALSE
