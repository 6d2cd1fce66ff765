SPECIFICATION Spec
CONSTANTS
    HostCommands <- DriftLines
    Budget <- DriftBudget
    MaxPackets = 1
    RxArmedAtBoot = TRUE
    SpreadFactors = {11, 12}
    BootFreq = 5
    Kilo = 3
    FreqStep = 1
    Word = 16
INVARIANTS CfgPrintIsTrue
CHECK_DEADLOCK FALSE
