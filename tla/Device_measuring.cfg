SPECIFICATION FairSpec
CONSTANTS
    HostCommands <- MeasuringLines
    Budget <- MeasuringBudget
    MaxPackets = 2
    RxArmedAtBoot = TRUE
    SpreadFactors = {11, 12}
    BootFreq = 5
    Kilo = 3
    FreqStep = 1
    Word = 16
INVARIANTS CommandChannel ModemAccounted SignalInScope ReceptionResumes LatestRequestSurvives
PROPERTIES StopAborts EveryJobEnds CommandsHeard
CHECK_DEADLOCK FALSE
