SPECIFICATION FairSpec
CONSTANTS
    Reviewer = {"U1", "U2"}
    Click <- TwoClicks
    MaxAttempts = 3
    MaxCrashes = 1
    MaxFaults = 1
CHECK_DEADLOCK FALSE
INVARIANTS
    TypeOK
    ExecutedAsDecided
    OutcomesAgree
    SessionTold
PROPERTIES
    DecisionFinal
    EveryClickAnswered
