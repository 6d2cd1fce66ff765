\* common_task and the system work queue as in the firmware
SPECIFICATION FairSpec
CONSTANTS
    Threads = {common_task, sysworkq}
    NoThread = NoThread
    MaxCalls = 3
INVARIANTS TypeOK NoLostWakeup NothingDropped
PROPERTIES EveryCallReturns BufferStable KeepsPromise
CHECK_DEADLOCK FALSE
