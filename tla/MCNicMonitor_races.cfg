SPECIFICATION Spec
CONSTANTS
    Nics = {"eth0"}
    Ips = {"a", "b", "c"}
    Slots = 2
    Hash <- MCHash
    Minute = 2
    Buckets = 2
    SSec = 3
    Ttl = 2
    ExpireEvery = 2
    Top = 1
    Interval = 1
    Timeout = 1
    RestartSec = 1
    Lag = 1
    First = 4
    Last = 11
    MaxFaults = 1
    Scenarios <- MCScenarios
INVARIANTS RingInv SnapshotFresh ClientsListed ResponsesTrue
PROPERTIES RingsImplement
CHECK_DEADLOCK FALSE
