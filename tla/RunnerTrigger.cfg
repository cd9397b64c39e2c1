SPECIFICATION FairSpec
CONSTANTS
    message = message
    mention = mention
    Trigger = {message, mention}
    Interrupt = {mention}
    MaxSessions = 2
    MaxCrashes = 1
    MaxShutdowns = 1
    MaxDrops = 1
    MaxFaults = 1
    MaxUnwritten = 1
CHECK_DEADLOCK FALSE
INVARIANTS
    TypeOK
    OneEndPerStart
    OpenIffInFlight
    AnswersAgreeWithLog
    NoDuplicateSessions
PROPERTIES
    SliceFinal
    EveryTriggerAnswered
