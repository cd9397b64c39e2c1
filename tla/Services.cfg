SPECIFICATION MCSpec
CONSTANTS
    RealPath <- MCRealPath
    Origin <- MCOrigin
    Schemas = {}
    Requests <- MCRequests
    Usable = {"s", "idle"}
    Triggered = {"s"}

    Gone = Gone
    NoTree = NoTree
    Trunk <- MCTrunk
    MaxCommits = 2
    MaxPushes = 3
    MaxFailures = 1

    MaxDeliveries = 3
    MaxMishaps = 1

    Stream = {1, 2}
    SessionIds = {"id", "id2"}
    ErrorsKept = 1
    MaxTools = 2
    MaxSessions = 4
    MaxSlackFaults = 1

    Request = {1, 2}
    Forms <- MCForms
    Roots <- MCRoots
    File = {"f", "g"}
    DIRTY_FILE_LIMIT = 1
    MaxEdits = 2
    MaxFaults = 1

    Ask = {1, 2}
    Person = {"p"}
    Words <- MCWords
    Secrets = {"s1"}
    MaxVaultFaults = 1

    Call = {1}
    Upstream = {"salesforce"}
    Configs <- MCConfigs
    Policy <- MCPolicy
    Offers <- MCOffers
    Likes <- MCLikes
    Users <- MCUsers
    Inputs = {"read", "pos"}
    IsProduction = FALSE
    MAX_RECONNECT_ATTEMPTS = 2
    MaxConns = 4
    MaxToolFaults = 3
INVARIANTS
    Aligned
    OneFilePerPost
    AnswersAgree
    NothingLeftBehind
    DisclaimerPlaced
    KeyIsBranch
    OneSandboxPerWorktree
    AnswersTrue
    DeadIsRepaired
CHECK_DEADLOCK FALSE
