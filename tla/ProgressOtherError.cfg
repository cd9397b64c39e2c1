SPECIFICATION RelaySpec
CONSTANTS
    Stream = {1, 2}
    SessionIds = {"id"}
    ErrorsKept = 1
    MaxTools = 1
    MaxSessions = 2
    MaxSlackFaults = 0
INVARIANT
    OnlyFailuresStay
CHECK_DEADLOCK FALSE
