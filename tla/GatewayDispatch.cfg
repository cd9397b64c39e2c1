SPECIFICATION FairSpec
CONSTANTS
    comment = comment
    push = push
    cron = cron
    message = message
    pr = pr
    branch = branch
    other = other
    repo = repo
    repo2 = repo2
    Event = {comment, push, cron}
    Key = {pr, branch, other}
    Pending = {pr}
    Dir = {repo, repo2}
    NoDir = NoDir
    Interrupt = {comment}
    MaxDeliveries = 1
    MaxCrashes = 1
    MaxFaults = 1
    SourceOf <- MCSourceOf
    KeyOf <- MCKeyOf
    BranchKeyOf <- MCBranchKeyOf
    DirsOf <- MCDirsOf
INVARIANTS
    TypeOK
    NothingDropped
    PromptedPerDelivery
PROPERTIES
    ImplementsInbox
    EventuallySettled
CHECK_DEADLOCK FALSE
