SPECIFICATION Spec
CONSTANTS
    gateway = gateway
    runner = runner
    remoteCli = remoteCli
    a1 = a1
    a2 = a2
    a3 = a3
    Process = {gateway, remoteCli}
    Ensurers = {gateway}
    Rebinders = {remoteCli}
    Key = {"thread", "branch"}
    Anchor = {a1, a2}
    NoAnchor = NoAnchor
    MaxRecords = 3
    MaxCrashes = 0
    MaxFaults = 0
SYMMETRY Symmetry
INVARIANTS
    MintsForUnbound
