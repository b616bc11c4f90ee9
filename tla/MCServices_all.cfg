SPECIFICATION Spec
CONSTANTS
    Procs = {p1, p2, p3}
    Old = {old}
    Nobody = nobody
    Modes = {"gnss", "gps"}
    NoMode = "none"
    MaxKills = 1
    Situations <- MCSituations
    KEEP = 3
    MaxRows = 3
    Period = 12
    Late = 2
    Window = 18
    Windows = {18, 40}
    Gap = 36
    PerMinute = 12
    Mixed = {0, 99}
    Samples <- MCSamples
    TailWindow = 5
    MaxLines = 2
    Logs <- MCLogs
    GoodWindow = 2
    Cooldown = 5
    MaxRestarts = 2
    Hour = 11
    ObserveGrace = 2
    StartGrace = 1
    Retry = 2
    MaxSleep = 2
    MaxNow = 15
    MaxSteps = 1
    Scenarios = {{}, {"script"}, {"chronyc", "chronyd", "script"}, {"clock"}}
INVARIANTS
    MigrationSafe
    ModeShown
    RowsKept
    RatesTrue
    MinuteCovered
    TailTrue
    RestartBound
    StarvationNoticed
    DenyNeverSuppressed
    ServingResumes
    DegradedCloses
    WatchdogInv
SYMMETRY Alike
CHECK_DEADLOCK FALSE
