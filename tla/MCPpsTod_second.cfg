SPECIFICATION Spec
CONSTANTS
    Q = 4
    Boot = 20
    Start = 15
    MaxNow = 45
    FreshFor = 12
    NudgeGap = 15
    Window = 33
    ResetMax = 1
    StrikeMax = 2
    PendingMax = 2
    Lag = 2
    Offsets <- MCOffsets
    Scenarios = {{"bad_clock", "realtime"}}
CHECK_DEADLOCK FALSE
INVARIANTS
    SecondsAgree
