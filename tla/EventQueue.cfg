SPECIFICATION FairSpec
CONSTANTS
    mention = mention
    message = message
    push = push
    cron = cron
    thread = thread
    branch = branch
    cronKey = cronKey
    a1 = a1
    a2 = a2
    Event = {mention, push}
    Name = {2, 3}
    Key = {thread, branch}
    Bindable = {thread, branch}
    Movable = {branch}
    Anchor = {a1, a2}
    NoAnchor = NoAnchor
    NoFile = NoFile
    Interrupt = {mention}
    Immediate = {mention, cron}
    MaxDeliveries = 2
    MaxCrashes = 1
    MaxFaults = 1
    FileName <- MCFileName
    KeyOf <- MCKeyOf
INVARIANTS
    TypeOK
    SerialPerConversation
    AckedPerDelivery
    NoSilentLoss
PROPERTY
    ImplementsInbox
    EventuallySettled
    MentionNotDelayed
