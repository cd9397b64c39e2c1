SPECIFICATION SandboxSpec
CONSTANTS
    Request = {1, 2}
    Forms <- MCForms
    Roots <- MCRoots
    File = {"f", "g"}
    DIRTY_FILE_LIMIT = 1
    MaxEdits = 4
    MaxFaults = 0
INVARIANT OverlayMatches
CHECK_DEADLOCK FALSE
