SPECIFICATION Spec
CONSTANTS
    Q = 4
    Boot = 20
    Start = 15
    MaxNow = 60
    FreshFor = 12
    NudgeGap = 15
    Window = 33
    ResetMax = 1
    StrikeMax = 2
    PendingMax = 2
    Lag = 2
    Offsets <- MCOffsets
    Scenarios = {{"date", "chrony"}, {"lost_sentence", "late"}, {"lost_sentence", "late_serial"}, {"jitter", "late_serial", "realtime"}, {"late", "late_serial"}, {"lost_edge", "late", "realtime"}, {"bad_clock", "jitter", "chrony"}, {"bad_clock", "realtime", "late"}, {"bad_clock", "late_serial"}, {"bad_clock", "lost_edge"}, {"bad_clock", "jump"}, {"ntp", "chrony"}, {"twin", "jitter", "chrony"}}
CHECK_DEADLOCK FALSE
INVARIANTS
    HealthyKept
    BadClockStepped
    StepQuota
    StatusFresh
    StepInv
PROPERTIES
    StepLands
    MeasuredAnew
