SPECIFICATION Spec
CONSTANTS
    MaxRuns = 2
    MaxDeleted = 0
    MaxCrowded = 0
    MaxEdits = 0
INVARIANT DeliversCredentials
CHECK_DEADLOCK FALSE
