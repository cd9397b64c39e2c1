SPECIFICATION Spec
CONSTANTS
    gateway = gateway
    runner = runner
    remoteCli = remoteCli
    a1 = a1
    a2 = a2
    a3 = a3
    Process = {gateway, runner}
    Ensurers = {gateway, runner}
    Rebinders = {runner}
    Key = {"thread", "branch"}
    Anchor = {a1, a2}
    NoAnchor = NoAnchor
    MaxRecords = 3
    MaxCrashes = 1
    MaxFaults = 1
SYMMETRY Symmetry
CONSTRAINT OneMishap
INVARIANTS
    TypeOK
    CacheFromLog
    FreshAnswers
    MintsOnce
PROPERTY
    MonotonicAnswers
