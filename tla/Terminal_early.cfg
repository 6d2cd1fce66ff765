\* the comment in send_to_terminal against its code
SPECIFICATION Spec
CONSTANTS
    Threads = {common_task, sysworkq}
    NoThread = NoThread
    MaxCalls = 3
INVARIANT ReturnMeansSent
CHECK_DEADLOCK FALSE
