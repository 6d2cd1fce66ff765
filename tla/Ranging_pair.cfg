SPECIFICATION FairSpec
CONSTANTS
    Node = {"a", "b"}
    Offset <- PairOffset
    Script <- PairScript
    Budget <- PairBudget
    RxAfterPoll = 5
    RespDelay = 10
    RxAfterResp = 5
    FinalDelay = 10
    Timeout = 10
    BusyWait = 1
    AntAssumed = 0
    AntDelay = 1
    Flight = 1
    Grain = 2
    Period = 32
    Period32 = 16
    MaxLag = 3
INVARIANTS TypeOK NeverDeaf SentMeansSent CallReturnsQuiet FinalStampOff RangeIsFlightTime AnswersFindReceiver
PROPERTIES EveryCallReturns
CHECK_DEADLOCK FALSE
