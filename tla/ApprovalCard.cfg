SPECIFICATION Spec
CONSTANTS
    Reviewer = {"U1", "U2"}
    Click <- TwoReviewers
    MaxAttempts = 2
    MaxCrashes = 0
    MaxFaults = 0
CHECK_DEADLOCK FALSE
INVARIANT
    CardAgrees
