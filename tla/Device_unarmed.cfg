SPECIFICATION Spec
CONSTANTS
    HostCommands <- LiveLines
    Budget <- LiveBudget
    MaxPackets = 1
    RxArmedAtBoot = FALSE
    SpreadFactors = {11, 12}
    BootFreq = 5
    Kilo = 3
    FreqStep = 1
    Word = 16
INVARIANTS UartStarted
CHECK_DEADLOCK FALSE
