SPECIFICATION Spec
CONSTANTS
    HostCommands <- TuningLines
    Budget <- TuningBudget
    MaxPackets = 1
    RxArmedAtBoot = TRUE
    SpreadFactors = {11, 12}
    BootFreq = 5
    Kilo = 3
    FreqStep = 1
    Word = 16
INVARIANTS TypeOK CommandChannel ModemAccounted ReceptionResumes LatestRequestSurvives
CHECK_DEADLOCK FALSE
