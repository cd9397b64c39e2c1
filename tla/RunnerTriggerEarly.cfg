SPECIFICATION Spec
CONSTANTS
    message = message
    mention = mention
    Trigger = {message, mention}
    Interrupt = {mention}
    MaxSessions = 2
    MaxCrashes = 0
    MaxShutdowns = 0
    MaxDrops = 0
    MaxFaults = 0
    MaxUnwritten = 0
CHECK_DEADLOCK FALSE
INVARIANT
    CompletedMeansDone
