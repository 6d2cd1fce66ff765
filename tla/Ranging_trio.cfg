SPECIFICATION Spec
CONSTANTS
    Node = {"a", "b", "c"}
    Offset <- TrioOffset
    Script <- TrioScript
    Budget <- TrioBudget
    RxAfterPoll = 1
    RespDelay = 2
    RxAfterResp = 1
    FinalDelay = 2
    Timeout = 4
    BusyWait = 1
    AntAssumed = 0
    AntDelay = 1
    Flight = 1
    Grain = 2
    Period = 16
    Period32 = 8
    MaxLag = 3
INVARIANTS NeverDeaf SentMeansSent CallReturnsQuiet FinalStampOff RangeIsFlightTime
CHECK_DEADLOCK FALSE
