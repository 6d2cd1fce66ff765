SPECIFICATION FairSpec
CONSTANTS
    HostCommands <- MeasuringLines
    Budget <- MeasuringBudget
    MaxPackets = 1
    RxArmedAtBoot = TRUE
    SpreadFactors = {11, 12}
    BootFreq = 5
    Kilo = 3
    FreqStep = 1
    Word = 16
PROPERTIES PerMeasReturns
CHECK_DEADLOCK FALSE
